------------------------- MODULE LocalAnalysisProofs -------------------------
(***************************************************************************)
(* The dependence graph of a body is right, for every body, with any loops *)
(* and any kinds of calls, and any order of the engine's queue.            *)
(*                                                                         *)
(* The dataflow analysis computes the meet over all paths.  A block's      *)
(* state holds only mutations that some execution takes there, and what    *)
(* leaves a block that does not wait in the queue is already in the states *)
(* of its successors.  With the queue empty this holds of all blocks, so   *)
(* the blocks to which one mutation has got are closed under the edges     *)
(* that do not overwrite it.                                               *)
(*                                                                         *)
(* The passes over the results are then accounted for.  Each edge of the   *)
(* graph is a link of one location (or of a callee, or to the end) that is *)
(* computed from the fixed point alone, and each link of a location that   *)
(* the pass has left behind is in the graph.  Hence edges leave from the   *)
(* most recent mutations and are tentative where inputs overlap, and the   *)
(* nodes that are downstream of a value's source know of the value in      *)
(* every place and at every point an execution takes it to.                *)
(***************************************************************************)
EXTENDS LocalFlows, Integers, FiniteSetTheorems, NaturalsInduction, TLAPS

-----------------------------------------------------------------------------
\* A path may be followed by an edge.
LEMMA LongerPath ==
    ASSUME NEW V, NEW R, NEW a, NEW b \in V, NEW c \in V,
           Reaches(V, R, a, b), <<b, c>> \in R
    PROVE  Reaches(V, R, a, c)
  BY DEF Reaches, ClosedUnder

\* The natural numbers are the least set with 0 and closed under + 1.
LEMMA Induction ==
    ASSUME NEW S, 0 \in S, \A k \in Nat : k \in S => k + 1 \in S
    PROVE  Nat \subseteq S
<1> SUFFICES ASSUME Nat \ S # {} PROVE FALSE
  OBVIOUS
<1>1. IsWellFoundedOn(OpToRel(<, Nat), Nat)
  BY NatLessThanWellFounded
<1>2. PICK k \in Nat \ S : \A y \in Nat \ S : <<y, k>> \notin OpToRel(<, Nat)
  BY <1>1, WFMin
<1>3. k # 0 /\ k - 1 \in Nat
  OBVIOUS
<1>4. k - 1 \in S
  <2>1. <<k - 1, k>> \in OpToRel(<, Nat)
    BY <1>3 DEF OpToRel
  <2> QED BY <1>2, <1>3, <2>1
<1> QED BY <1>3, <1>4, (k - 1) + 1 = k

\* What R leads to from T.
From(V, R, T) == {y \in V : \E x \in T : Reaches(V, R, x, y)}

LEMMA FromFacts ==
    ASSUME NEW V, NEW R, \A p \in R : p = <<p[1], p[2]>> /\ p[2] \in V, NEW T \in SUBSET V
    PROVE  /\ T \subseteq From(V, R, T) /\ From(V, R, T) \subseteq V
           /\ ClosedUnder(V, R, From(V, R, T))
           /\ \A U \in SUBSET V : T \subseteq U /\ ClosedUnder(V, R, U) => From(V, R, T) \subseteq U
<1>1. \A x \in V : Reaches(V, R, x, x)
  BY DEF Reaches
<1>2. T \subseteq From(V, R, T) /\ From(V, R, T) \subseteq V
  BY <1>1 DEF From
<1>3. ClosedUnder(V, R, From(V, R, T))
  <2> SUFFICES ASSUME NEW y \in From(V, R, T), NEW z \in V, <<y, z>> \in R PROVE z \in From(V, R, T)
    BY DEF ClosedUnder
  <2>1. PICK x \in T : Reaches(V, R, x, y)
    BY DEF From
  <2>2. y \in V
    BY DEF From
  <2>3. Reaches(V, R, x, z)
    BY <2>1, <2>2, LongerPath
  <2> QED BY <2>3 DEF From
<1>4. ASSUME NEW U \in SUBSET V, T \subseteq U, ClosedUnder(V, R, U) PROVE From(V, R, T) \subseteq U
  BY <1>4 DEF From, Reaches
<1> QED BY <1>2, <1>3, <1>4

\* Adding what is next until there is nothing else comes to all there is.
LEMMA ReachedIs ==
    ASSUME NEW V, NEW R, \A p \in R : p = <<p[1], p[2]>> /\ p[2] \in V, NEW A \in SUBSET V,
           IsFiniteSet(V)
    PROVE  ReachedFrom(V, R, A) = From(V, R, A)
<1> DEFINE next(T) == T \cup {p[2] : p \in {p \in R : p[1] \in T}}
           Def(h) == h = [T \in SUBSET V |->
                             LET more == T \cup {p[2] : p \in {p \in R : p[1] \in T}}
                             IN  IF more = T THEN T ELSE h[more]]
           m == CHOOSE h : Def(h)
           f == [T \in SUBSET V |-> From(V, R, T)]
<1>1. \A T \in SUBSET V : next(T) \in SUBSET V /\ T \subseteq next(T)
  OBVIOUS
<1>2. ASSUME NEW T \in SUBSET V PROVE next(T) \subseteq From(V, R, T)
  <2> SUFFICES ASSUME NEW p \in R, p[1] \in T PROVE p[2] \in From(V, R, T)
    BY FromFacts
  <2>1. p[1] \in From(V, R, T) /\ p[2] \in V /\ <<p[1], p[2]>> \in R
    BY FromFacts
  <2> QED BY <2>1, FromFacts DEF ClosedUnder
<1>3. ASSUME NEW T \in SUBSET V PROVE From(V, R, next(T)) = From(V, R, T)
  <2>1. From(V, R, next(T)) \subseteq From(V, R, T)
    <3> HIDE DEF next
    <3> QED BY <1>1, <1>2, FromFacts
  <2>2. From(V, R, T) \subseteq From(V, R, next(T))
    <3> HIDE DEF next
    <3> QED BY <1>1, FromFacts
  <2> QED BY <2>1, <2>2
<1>4. ASSUME NEW T \in SUBSET V, next(T) = T PROVE From(V, R, T) = T
  <2>1. ClosedUnder(V, R, T)
    <3> SUFFICES ASSUME NEW x \in T, NEW y \in V, <<x, y>> \in R PROVE y \in T
      BY DEF ClosedUnder
    <3>1. <<x, y>>[2] \in next(T)
      BY <<x, y>>[1] = x
    <3> QED BY <1>4, <3>1
  <2>2. From(V, R, T) \subseteq T /\ T \subseteq From(V, R, T)
    BY <2>1, FromFacts
  <2> QED BY <2>2
<1>5. \A h : Def(h) <=> h = [T \in SUBSET V |-> IF next(T) = T THEN T ELSE h[next(T)]]
  OBVIOUS
<1>6. ReachedFrom(V, R, A) = m[A]
  BY DEF ReachedFrom
<1> HIDE DEF next, Def
<1>7. Def(f)
  <2>1. \A T \in SUBSET V : f[T] = IF next(T) = T THEN T ELSE f[next(T)]
    BY <1>1, <1>3, <1>4
  <2> QED BY <1>5, <2>1
<1>8. Def(m)
  BY <1>7
<1> HIDE DEF m, f
<1>9. \A T \in SUBSET V : m[T] = IF next(T) = T THEN T ELSE m[next(T)]
  BY <1>5, <1>8
<1> DEFINE left(T) == Cardinality(V \ T)
           S == {k \in Nat : \A T \in SUBSET V : left(T) <= k => m[T] = From(V, R, T)}
<1>10. \A T \in SUBSET V : left(T) \in Nat
  <2> SUFFICES ASSUME NEW T \in SUBSET V PROVE left(T) \in Nat
    OBVIOUS
  <2>1. IsFiniteSet(V \ T)
    BY FS_Subset, V \ T \in SUBSET V
  <2> QED BY <2>1, FS_CardinalityType
<1>11. \A T \in SUBSET V : next(T) = T \/ left(next(T)) < left(T)
  <2> SUFFICES ASSUME NEW T \in SUBSET V, next(T) # T PROVE left(next(T)) < left(T)
    OBVIOUS
  <2>1. PICK x : x \in next(T) /\ x \notin T
    BY <1>1
  <2> DEFINE outside == V \ T
             still == V \ next(T)
  <2>2. still \in SUBSET outside /\ still # outside
    BY <1>1, <2>1
  <2>3. IsFiniteSet(outside)
    BY FS_Subset, outside \in SUBSET V
  <2> HIDE DEF outside, still
  <2>4. Cardinality(still) <= Cardinality(outside) /\ (Cardinality(still) = Cardinality(outside) => still = outside)
    BY <2>2, <2>3, FS_Subset
  <2>5. Cardinality(still) \in Nat /\ Cardinality(outside) \in Nat
    BY <1>1, <1>10 DEF outside, still
  <2>6. Cardinality(still) < Cardinality(outside)
    BY <2>2, <2>4, <2>5
  <2> QED BY <2>6 DEF outside, still
<1> HIDE DEF left
<1>12. 0 \in S
  <2> SUFFICES ASSUME NEW T \in SUBSET V, left(T) <= 0 PROVE m[T] = From(V, R, T)
    OBVIOUS
  <2>1. next(T) = T
    BY <1>1, <1>10, <1>11
  <2> QED BY <1>4, <1>9, <2>1
<1>13. ASSUME NEW k \in Nat, k \in S PROVE k + 1 \in S
  <2> SUFFICES ASSUME NEW T \in SUBSET V, left(T) <= k + 1 PROVE m[T] = From(V, R, T)
    OBVIOUS
  <2>1. CASE next(T) = T
    BY <1>4, <1>9, <2>1
  <2>2. CASE next(T) # T
    <3>1. next(T) \in SUBSET V
      BY <1>1
    <3>2. left(next(T)) <= k
      BY <1>10, <1>11, <2>2, <3>1
    <3>3. m[next(T)] = From(V, R, next(T))
      BY <1>13, <3>1, <3>2
    <3> QED BY <1>3, <1>9, <2>2, <3>3
  <2> QED BY <2>1, <2>2
<1>14. Nat \subseteq S
  <2> HIDE DEF S
  <2> QED BY <1>12, <1>13, Induction
<1>15. left(A) \in S /\ left(A) <= left(A)
  BY <1>10, <1>14
<1> QED BY <1>6, <1>15

\* The values of a function on a finite set are finitely many.
LEMMA FiniteImage ==
    ASSUME NEW S, IsFiniteSet(S), NEW f
    PROVE  IsFiniteSet({f[x] : x \in S})
<1> DEFINE T == {f[x] : x \in S}
           g == [x \in S |-> f[x]]
<1>1. g \in Surjection(S, T)
  BY DEF Surjection
<1> HIDE DEF T, g
<1>2. IsFiniteSet(T)
  BY <1>1, FS_Surjection
<1> QED BY <1>2 DEF T

-----------------------------------------------------------------------------
\* A block's instructions, and the locations they are at.
LEMMA CodeFacts ==
    ASSUME body \in Bodies, NEW b \in Block
    PROVE  /\ Len(code(b)) \in Nat /\ Len(code(b)) # 0 /\ Len(code(b)) + 1 \in Nat
           /\ \A i \in 1 .. Len(code(b)) : i \in Nat /\ code(b)[i] \in Instruction
           /\ \A i \in 1 .. Len(code(b)) : <<b, i>> \in Location
           /\ Len(code(b)) \in 1 .. Len(code(b))
<1>1. code(b) \in Seq(Instruction) /\ code(b) # <<>>
  BY BodiesAssumption DEF Body, code
<1>2. Len(code(b)) \in Nat /\ Len(code(b)) # 0
  BY <1>1
<1>3. \A i \in 1 .. Len(code(b)) : code(b)[i] \in Instruction
  BY <1>1
<1>4. \A i \in 1 .. Len(code(b)) : <<b, i>> \in Location
  BY DEF Location
<1>5. \A n \in Nat : n + 1 \in Nat /\ (n # 0 => n \in 1 .. n)
  OBVIOUS
<1> QED BY <1>2, <1>3, <1>4, <1>5

LEMMA LocationFacts ==
    ASSUME body \in Bodies, NEW l \in Location
    PROVE  /\ l = <<l[1], l[2]>> /\ l[1] \in Block /\ l[2] \in 1 .. Len(code(l[1]))
           /\ at(l) \in Instruction
<1>1. PICK b \in Block : l \in {b} \X (1 .. Len(code(b)))
  BY DEF Location
<1>2. l = <<l[1], l[2]>> /\ l[1] = b /\ l[2] \in 1 .. Len(code(b))
  BY <1>1
<1> QED BY <1>2, CodeFacts DEF at

\* The cursor is at a location, or at the end of a block.
LEMMA CursorFacts ==
    ASSUME TypeOK, cursor # <<>>
    PROVE  /\ cursor = <<cursor[1], cursor[2]>> /\ cursor[1] \in Block
           /\ cursor[2] \in 1 .. Len(code(cursor[1])) + 1
           /\ within_block <=> cursor \in Location
           /\ past_block <=> cursor[2] = Len(code(cursor[1])) + 1
<1>1. body \in Bodies /\ cursor \in Location \cup {<<b, Len(code(b)) + 1>> : b \in Block}
  BY DEF TypeOK
<1>2. \A n \in Nat : 1 .. n \subseteq 1 .. n + 1 /\ n + 1 \in 1 .. n + 1 /\ ~(n + 1 <= n)
                     /\ \A i \in 1 .. n : i <= n /\ ~(i > n) /\ i # n + 1
  OBVIOUS
<1>3. CASE cursor \in Location
  BY <1>2, <1>3, LocationFacts, CodeFacts, <1>1 DEF within_block, past_block
<1>4. ASSUME NEW b \in Block, cursor = <<b, Len(code(b)) + 1>>
      PROVE  /\ cursor = <<cursor[1], cursor[2]>> /\ cursor[1] \in Block
             /\ cursor[2] \in 1 .. Len(code(cursor[1])) + 1
             /\ within_block <=> cursor \in Location
             /\ past_block <=> cursor[2] = Len(code(cursor[1])) + 1
  <2>1. cursor[1] = b /\ cursor[2] = Len(code(b)) + 1 /\ Len(code(b)) \in Nat
    BY <1>1, <1>4, CodeFacts
  <2>2. cursor \notin Location
    <3> SUFFICES ASSUME cursor \in Location PROVE FALSE
      OBVIOUS
    <3> QED BY <1>1, <1>2, <2>1, LocationFacts
  <2>3. past_block /\ ~within_block
    BY <1>2, <2>1 DEF past_block, within_block
  <2> QED BY <1>2, <1>4, <2>1, <2>2, <2>3
<1> QED BY <1>1, <1>3, <1>4

-----------------------------------------------------------------------------
(***************************************************************************)
(* Types.                                                                  *)
(***************************************************************************)
\* What the fields of an instruction hold, kind by kind.
LEMMA InstructionFacts ==
    ASSUME NEW c \in Instruction
    PROVE  /\ c.kind = "switch" => c.discr \in Place \cup {None}
           /\ c.kind \notin {"switch", "call"} => c.mutations \subseteq Mutation
           /\ c.kind = "call" /\ c.handling = "ready" =>
                 c.reads \subseteq Place /\ c.writes \subseteq Place /\ c.flows \subseteq Place \X Place
           /\ c.kind = "call" /\ c.handling # "ready" =>
                 /\ c.mutations \subseteq Mutation /\ c.args \in Seq(Place)
                 /\ c.destination \in Place /\ c.handling \in {"approximate", "fallback"}
  BY DEF Instruction

Link == [inputs : SUBSET Node, heads : SUBSET Node, outputs : SUBSET Node]

LEMMA NodeFacts ==
    /\ \A p \in Place \cup {None}, l \in Location : node(p, l) \in Node
    /\ \A p \in Place \cup {None}, l \in Location, e \in {Start, End} : child(p, l, e) \in Node
    /\ \A p \in Place : node(p, Start) \in Node /\ node(p, End) \in Node
  BY DEF node, child, Node, Where

LEMMA InputsType ==
    ASSUME NEW s \in State, NEW p \in Place
    PROVE  find_data_inputs(s, p) \subseteq Node
<1>2. ASSUME NEW k \in Place, NEW l \in s[k] PROVE node(k, l) \in Node
  BY <1>2, NodeFacts DEF State
<1>3. \A a \in Arg : node(a, Start) \in Node
  BY PlacesAssumption, NodeFacts
<1>4. ASSUME NEW a
      PROVE  (IF a \in Arg THEN {node(a, Start)} ELSE {})
             \cup UNION {{node(k, l) : l \in s[k]} : k \in {k \in Place : <<k, a>> \in Conflicts}}
                 \subseteq Node
  <2> DEFINE mutations ==
        UNION {{node(k, l) : l \in s[k]} : k \in {k \in Place : <<k, a>> \in Conflicts}}
  <2>1. mutations \subseteq Node
    <3> SUFFICES ASSUME NEW n \in mutations PROVE n \in Node
      OBVIOUS
    <3>1. \E k \in Place : \E l \in s[k] : n = node(k, l)
      BY Zenon
    <3> QED BY <1>2, <3>1
  <2> HIDE DEF mutations
  <2> QED BY <1>3, <2>1 DEF mutations
<1> QED BY <1>4 DEF find_data_inputs

LEMMA OutputsType ==
    ASSUME NEW l \in Location, NEW p \in Place
    PROVE  find_outputs(p, l) \subseteq Node
  BY PlacesAssumption, NodeFacts DEF find_outputs

LEMMA LinkType ==
    ASSUME NEW s \in State, NEW places \in Seq(Place), NEW outputs \in SUBSET Node
    PROVE  link(s, places, outputs) \in Link
<1> DEFINE found == [i \in DOMAIN places |-> find_data_inputs(s, places[i])]
<1>1. \A i \in DOMAIN places : places[i] \in Place
  OBVIOUS
<1>2. \A i \in DOMAIN places : found[i] \subseteq Node
  BY <1>1, InputsType
<1> HIDE DEF found
<1>3. \A I \in SUBSET DOMAIN places : UNION {found[i] : i \in I} \subseteq Node
  BY <1>2
<1>4. link(s, places, outputs) =
        [inputs |-> UNION {found[i] : i \in DOMAIN places},
         heads |-> UNION {found[i] : i \in {i \in DOMAIN places :
                        found[i] # {} /\ \A j \in 1 .. i - 1 : found[j] = {}}},
         outputs |-> outputs]
  BY DEF link, found
<1>5. {i \in DOMAIN places : found[i] # {} /\ \A j \in 1 .. i - 1 : found[j] = {}} \subseteq DOMAIN places
  OBVIOUS
<1> QED BY <1>3, <1>4, <1>5 DEF Link

LEMMA RegisterType ==
    ASSUME NEW s \in State, NEW M \in SUBSET Mutation, NEW l \in Location
    PROVE  register(s, M, l) \subseteq Link
<1> SUFFICES ASSUME NEW m \in M PROVE link(s, m.inputs, find_outputs(m.mutated, l)) \in Link
  BY DEF register
<1>1. m.inputs \in Seq(Place) /\ m.mutated \in Place
  BY DEF Mutation
<1> QED BY <1>1, OutputsType, LinkType

LEMMA CallMutations ==
    ASSUME NEW c, c.args \in Seq(Place), c.destination \in Place
    PROVE  before(c) \subseteq Mutation /\ after(c) \subseteq Mutation
<1>1. arguments(c) \subseteq Place
  BY DEF arguments
<1>2. before(c) \subseteq Mutation
  BY <1>1, PlacesAssumption DEF before, Mutation
<1>3. {c.destination} \cup UNION {ReachableMut[a] \ {a} : a \in arguments(c)} \subseteq Place
  <2>1. \A a \in arguments(c) : ReachableMut[a] \subseteq Place
    BY <1>1, PlacesAssumption
  <2> QED BY <2>1
<1>4. after(c) \subseteq Mutation
  BY <1>3 DEF after, Mutation
<1> QED BY <1>2, <1>4

LEMMA RegisteredType ==
    ASSUME body \in Bodies, NEW l \in Location, NEW s \in State, NEW t \in State
    PROVE  registered(l, s, t) \subseteq Link
<1> DEFINE c == at(l)
<1>1. c \in Instruction
  BY LocationFacts
<1> HIDE DEF c
<1>2. CASE c.kind = "switch"
  <2>1. c.discr # None => [mutated |-> c.discr, inputs |-> <<c.discr>>] \in Mutation
    BY <1>1, <1>2, InstructionFacts DEF Mutation
  <2>2. c.discr # None =>
          register(s, {[mutated |-> c.discr, inputs |-> <<c.discr>>]}, l) \subseteq Link
    BY <2>1, RegisterType
  <2> QED BY <1>2, <2>2 DEF registered, c
<1>3. CASE c.kind = "call" /\ c.handling = "ready"
  <2>1. c.reads \subseteq Place /\ c.writes \subseteq Place
    BY <1>1, <1>3, InstructionFacts
  <2>2. \A p \in c.reads : link(s, <<p>>, {child(p, l, Start)}) \in Link
    <3> SUFFICES ASSUME NEW p \in c.reads PROVE link(s, <<p>>, {child(p, l, Start)}) \in Link
      OBVIOUS
    <3>1. <<p>> \in Seq(Place) /\ {child(p, l, Start)} \in SUBSET Node
      BY <2>1, NodeFacts
    <3> QED BY <3>1, LinkType
  <2>3. ASSUME NEW p \in c.writes
        PROVE  [inputs |-> {child(p, l, End)}, heads |-> {child(p, l, End)},
                outputs |-> find_outputs(p, l)] \in Link
    BY <2>1, OutputsType, NodeFacts DEF Link
  <2>4. inlined(c, s, l) \subseteq Link
    BY <2>2, <2>3 DEF inlined
  <2> QED BY <1>3, <2>4 DEF registered, c
<1>4. CASE c.kind = "call" /\ c.handling # "ready"
  <2>1. /\ c.mutations \subseteq Mutation /\ before(c) \subseteq Mutation /\ after(c) \subseteq Mutation
        /\ c.handling \in {"approximate", "fallback"}
    BY <1>1, <1>4, InstructionFacts, CallMutations
  <2>2. at_call(c, s, t, l) \subseteq Link /\ register(s, c.mutations, l) \subseteq Link
    BY <2>1, RegisterType DEF at_call
  <2> QED BY <1>4, <2>1, <2>2 DEF registered, c
<1>5. CASE c.kind \notin {"switch", "call"}
  <2>1. register(s, c.mutations, l) \subseteq Link
    BY <1>1, <1>5, InstructionFacts, RegisterType
  <2> QED BY <1>5, <2>1 DEF registered, c
<1> QED BY <1>2, <1>3, <1>4, <1>5

LEMMA ControlType ==
    ASSUME body \in Bodies, NEW l
    PROVE  find_control_inputs(l) \subseteq Node
<1> SUFFICES ASSUME NEW d \in Block, terminator(d).kind = "switch", terminator(d).discr # None
             PROVE  node(terminator(d).discr, terminator_loc(d)) \in Node
  BY DEF find_control_inputs
<1>1. terminator(d) \in Instruction /\ terminator_loc(d) \in Location
  BY CodeFacts DEF terminator, terminator_loc
<1> QED BY <1>1, InstructionFacts, NodeFacts

-----------------------------------------------------------------------------
LEMMA ApplyType ==
    ASSUME NEW s \in State, NEW l \in Location
    PROVE  apply_mutation(s, l) \in State
  BY DEF apply_mutation, State

LEMMA InitType == Init => TypeOK
<1> SUFFICES ASSUME Init PROVE TypeOK
  OBVIOUS
<1>1. Nowhere \in State
  BY DEF Nowhere, State
<1> QED BY <1>1 DEF Init, TypeOK, reachable_blocks

\* The next location, or the end of the block.
LEMMA AdvanceType ==
    ASSUME TypeOK, within_block, advance
    PROVE  /\ cursor' \in Location \cup {<<b, Len(code(b)) + 1>> : b \in Block}
           /\ state' \in State /\ cursor \in Location
<1>1. cursor \in Location /\ cursor[1] \in Block /\ cursor[2] \in 1 .. Len(code(cursor[1]))
  BY CursorFacts, LocationFacts DEF TypeOK, within_block
<1>2. state' \in State
  BY <1>1, ApplyType DEF TypeOK, advance
<1>3. \A n \in Nat : \A i \in 1 .. n : i + 1 \in 1 .. n \/ i + 1 = n + 1
  OBVIOUS
<1>4. CASE cursor[2] + 1 \in 1 .. Len(code(cursor[1]))
  BY <1>1, <1>2, <1>4, CodeFacts DEF advance, TypeOK
<1>5. CASE cursor[2] + 1 = Len(code(cursor[1])) + 1
  BY <1>1, <1>2, <1>5 DEF advance
<1> QED BY <1>1, <1>3, <1>4, <1>5, CodeFacts DEF TypeOK

\* No step of the analysis takes a variable out of its type.
LEMMA TypeStep == TypeOK /\ [Next]_vars => TypeOK'
<1> SUFFICES ASSUME TypeOK, [Next]_vars PROVE TypeOK'
  OBVIOUS
<1>1. body' = body
  BY DEF Next, Begin, Apply, Propagate, Visit, Visited, ConnectEnd, NextPhase, advance, vars
<1>2. Location' = Location /\ Node' = Node /\ Edge' = Edge /\ State' = State
      /\ \A b : code(b)' = code(b)
  BY <1>1 DEF Location, Node, Edge, State, Where, code
<1>3. ASSUME NEW b \in Block, Begin(b) PROVE TypeOK'
  <2>1. <<b, 1>> \in Location
    <3>1. \A n \in Nat : n # 0 => 1 \in 1 .. n
      OBVIOUS
    <3> QED BY <3>1, CodeFacts DEF TypeOK
  <2> QED BY <1>2, <1>3, <2>1 DEF Begin, TypeOK
<1>4. CASE Apply
  BY <1>2, <1>4, AdvanceType DEF Apply, advance, TypeOK
<1>5. CASE Propagate
  <2>1. \A b \in Block : join(entry[b], state) \in State
    BY DEF join, State, TypeOK
  <2>2. entry' \in [Block -> State]
    <3>1. entry' = [b \in Block |-> IF b \in Successors(Block, body.cfg, cursor[1])
                                    THEN join(entry[b], state) ELSE entry[b]]
      BY <1>5 DEF Propagate
    <3> QED BY <2>1, <3>1 DEF TypeOK
  <2>3. todo' \subseteq Block /\ cursor' = <<>> /\ UNCHANGED <<body, phase, state, nodes, edges>>
    BY <1>5 DEF Propagate, TypeOK, Successors
  <2> QED BY <1>2, <2>2, <2>3 DEF TypeOK
<1>6. CASE Visit
  <2> DEFINE R == registered(cursor, state, state')
  <2>1. /\ cursor' \in Location \cup {<<b, Len(code(b)) + 1>> : b \in Block}
        /\ state' \in State /\ cursor \in Location
        /\ UNCHANGED <<body, phase, entry, todo>>
    BY <1>6, AdvanceType DEF Visit, advance
  <2>2. R \subseteq Link
    BY <2>1, RegisteredType DEF TypeOK
  <2>3. child_nodes(cursor) \subseteq Node
    BY <2>1, NodeFacts DEF child_nodes
  <2>4. child_edges(cursor) \subseteq Edge
    <3> SUFFICES ASSUME at(cursor).kind = "call", at(cursor).handling = "ready",
                        NEW f \in at(cursor).flows
                 PROVE  [from |-> child(f[1], cursor, Start), to |-> child(f[2], cursor, End),
                         kind |-> "Data", tentative |-> FALSE] \in Edge
      BY DEF child_edges
    <3>1. f[1] \in Place /\ f[2] \in Place
      BY <2>1, LocationFacts, InstructionFacts DEF TypeOK
    <3> QED BY <2>1, <3>1, NodeFacts DEF Edge
  <2> HIDE DEF R
  <2>5. nodes' \subseteq Node
    BY <1>6, <2>2, <2>3 DEF Visit, TypeOK, Link, R
  <2>6. ASSUME NEW r \in R, NEW b \in BOOLEAN
        PROVE  data_edges(r, b) \cup control_edges(r, cursor) \subseteq Edge
    <3>1. r.inputs \subseteq Node /\ r.outputs \subseteq Node
      BY <2>2 DEF Link
    <3>2. find_control_inputs(cursor) \subseteq Node
      BY ControlType DEF TypeOK
    <3>3. data_edges(r, b) \subseteq Edge
      <4>1. \A n \in Node, o \in Node :
              [from |-> n, to |-> o, kind |-> "Data", tentative |-> b] \in Edge
        BY DEF Edge
      <4> QED BY <3>1, <4>1 DEF data_edges
    <3>4. control_edges(r, cursor) \subseteq Edge
      <4>1. \A n \in Node, o \in Node :
              [from |-> n, to |-> o, kind |-> "Control", tentative |-> FALSE] \in Edge
        BY DEF Edge
      <4> QED BY <3>1, <3>2, <4>1 DEF control_edges
    <3> QED BY <3>3, <3>4
  <2>7. edges' \subseteq Edge
    <3>1. PICK t \in [R -> BOOLEAN] :
            edges' = edges \cup child_edges(cursor)
                        \cup UNION {data_edges(r, t[r]) \cup control_edges(r, cursor) : r \in R}
      BY <1>6 DEF Visit, R
    <3>2. \A r \in R : t[r] \in BOOLEAN
      OBVIOUS
    <3> QED BY <2>4, <2>6, <3>1, <3>2 DEF TypeOK
  <2> QED BY <1>2, <2>1, <2>5, <2>7 DEF TypeOK
<1>7. CASE Visited
  BY <1>2, <1>7 DEF Visited, TypeOK
<1>8. CASE ConnectEnd
  <2>1. ASSUME NEW p \in Exposed, NEW l \in state[p]
        PROVE  [from |-> node(p, l), to |-> node(p, End),
                kind |-> "Data", tentative |-> FALSE] \in Edge
    <3>1. p \in Place /\ l \in Location
      BY PlacesAssumption DEF TypeOK, State
    <3> QED BY <3>1, NodeFacts DEF Edge
  <2>2. edges' \subseteq Edge
    BY <1>8, <2>1 DEF ConnectEnd, TypeOK
  <2> QED BY <1>2, <1>8, <2>2 DEF ConnectEnd, TypeOK
<1>9. CASE NextPhase
  <2>1. todo' \subseteq Block
    BY <1>9 DEF NextPhase, reachable_blocks
  <2>2. phase' \in {"iterate", "visit", "returns", "done", "panic"}
    BY <1>9 DEF NextPhase
  <2> QED BY <1>2, <1>9, <2>1, <2>2 DEF NextPhase, TypeOK
<1>10. CASE UNCHANGED vars
  BY <1>2, <1>10 DEF vars, TypeOK
<1> QED BY <1>3, <1>4, <1>5, <1>6, <1>7, <1>8, <1>9, <1>10 DEF Next

(***************************************************************************)
(* Every variable keeps its type: no location outside the body, no node    *)
(* for a place that is not there.                                          *)
(***************************************************************************)
THEOREM Typing == Spec => []TypeOK
  BY InitType, TypeStep, PTL DEF Spec
-----------------------------------------------------------------------------
(***************************************************************************)
(* The dataflow analysis.                                                  *)
(***************************************************************************)
\* Instruction j of block b is the last before index i that mutates k.
Latest(b, i, k, j) ==
    k \in written(<<b, j>>) /\ \A m \in j + 1 .. i - 1 : k \notin written(<<b, m>>)

\* None of the instructions of b before index i mutates k.
Untouched(b, i, k) == \A j \in 1 .. i - 1 : k \notin written(<<b, j>>)

\* What block b makes of the state it starts with, before index i.
Through(b, i, k) ==
    {<<b, j>> : j \in {j \in 1 .. i - 1 : Latest(b, i, k, j)}}
    \cup (IF Untouched(b, i, k) THEN entry[b][k] ELSE {})

Leaving(b, k) == Through(b, Len(code(b)) + 1, k)

\* The blocks whose state has not been passed on.
Pending ==
    IF phase = "iterate" THEN todo \cup (IF cursor = <<>> THEN {} ELSE {cursor[1]}) ELSE {}

Queued == phase = "iterate" => Pending \subseteq reachable_blocks

\* Nothing is in a state that no execution takes there.
EntrySound == \A b \in Block, k \in Place : entry[b][k] \subseteq Arriving(b, k)

\* The state within a block is what the block makes of its entry.
StateRight ==
    cursor # <<>> => \A k \in Place : state[k] = Through(cursor[1], cursor[2], k)

\* What leaves a block that is not pending has arrived.
PassedOn ==
    \A b \in reachable_blocks \ Pending : \A c \in Successors(Block, body.cfg, b), k \in Place :
        Leaving(b, k) \subseteq entry[c][k]

FlowInv == TypeOK /\ Queued /\ EntrySound /\ StateRight /\ PassedOn

-----------------------------------------------------------------------------
\* What an instruction does to the state of its block.
LEMMA ThroughNext ==
    ASSUME NEW b, NEW i \in Nat \ {0}, NEW k
    PROVE  Through(b, i + 1, k) = IF k \in written(<<b, i>>) THEN {<<b, i>>} ELSE Through(b, i, k)
<1>5. i + 1 - 1 = i /\ i \in 1 .. i /\ 1 .. i = 1 .. i - 1 \cup {i} /\ i + 1 .. i = {}
      /\ \A j \in 1 .. i - 1 : i \in j + 1 .. i /\ j + 1 .. i = j + 1 .. i - 1 \cup {i}
  OBVIOUS
<1>6. CASE k \in written(<<b, i>>)
  <2>1. {j \in 1 .. i : Latest(b, i + 1, k, j)} = {i}
    BY <1>5, <1>6 DEF Latest
  <2>2. ~Untouched(b, i + 1, k)
    BY <1>5, <1>6 DEF Untouched
  <2> QED BY <1>5, <1>6, <2>1, <2>2 DEF Through
<1>7. CASE k \notin written(<<b, i>>)
  <2>1. {j \in 1 .. i : Latest(b, i + 1, k, j)} = {j \in 1 .. i - 1 : Latest(b, i, k, j)}
    BY <1>5, <1>7 DEF Latest
  <2>2. Untouched(b, i + 1, k) <=> Untouched(b, i, k)
    BY <1>5, <1>7 DEF Untouched
  <2> QED BY <1>5, <1>7, <2>1, <2>2 DEF Through
<1> QED BY <1>6, <1>7

\* What an instruction does to a state is what Through says.
LEMMA ThroughStep ==
    ASSUME TypeOK, within_block, StateRight, advance
    PROVE  StateRight'
<1>1. PICK b \in Block, i \in 1 .. Len(code(cursor[1])) :
        cursor = <<b, i>> /\ i \in 1 .. Len(code(b)) /\ Len(code(b)) \in Nat /\ i \in Nat
  BY CursorFacts, LocationFacts, CodeFacts DEF TypeOK, within_block
<1>2. /\ cursor' = <<b, i + 1>> /\ cursor'[1] = b /\ cursor'[2] = i + 1
      /\ body' = body /\ entry' = entry
      /\ \A k \in Place : state'[k] = IF k \in written(<<b, i>>) THEN {<<b, i>>} ELSE state[k]
  BY <1>1 DEF advance, apply_mutation
<1>3. \A l : written(l)' = written(l)
  BY <1>2 DEF written, at, code
<1>4. \A k \in Place : state[k] = Through(b, i, k)
  BY <1>1 DEF StateRight, within_block
<1> SUFFICES ASSUME NEW k \in Place PROVE state'[k] = Through(b, i + 1, k)'
  BY <1>2 DEF StateRight
<1>5. Through(b, i + 1, k) = IF k \in written(<<b, i>>) THEN {<<b, i>>} ELSE Through(b, i, k)
  <2>1. i \in Nat \ {0}
    BY <1>1
  <2> QED BY <2>1, ThroughNext
<1>6. Through(b, i + 1, k)' = Through(b, i + 1, k)
  BY <1>2, <1>3 DEF Through, Latest, Untouched
<1> QED BY <1>2, <1>4, <1>5, <1>6

\* The notions that depend on the body alone.
LEMMA BodyKept ==
    ASSUME body' = body
    PROVE  /\ reachable_blocks' = reachable_blocks
           /\ \A l : written(l)' = written(l)
           /\ \A b : code(b)' = code(b)
           /\ \A b \in Block, k \in Place : Arriving(b, k)' = Arriving(b, k)
<1>1. reachable_blocks' = reachable_blocks /\ \A b : code(b)' = code(b)
  BY DEF reachable_blocks, code
<1>2. Location' = Location
  BY DEF Location, code
<1>3. \A l : written(l)' = written(l)
  BY DEF written, at, code
<1>4. \A l, k : last_in_block(l, k)' <=> last_in_block(l, k)
  BY <1>1, <1>3 DEF last_in_block
<1>5. \A k : passing(k)' = passing(k)
  BY <1>1, <1>3 DEF passing
<1>6. \A b \in Block, k \in Place : Arriving(b, k)' = Arriving(b, k)
  BY <1>1, <1>2, <1>4, <1>5 DEF Arriving
<1> QED BY <1>1, <1>3, <1>6

\* While entries stay as they are, so does what blocks make of them.
LEMMA ThroughKept ==
    ASSUME body' = body, NEW b, entry'[b] = entry[b]
    PROVE  \A i, k : Through(b, i, k)' = Through(b, i, k)
<1>1. \A i, k, j : Latest(b, i, k, j)' <=> Latest(b, i, k, j)
  BY BodyKept DEF Latest
<1>2. \A i, k : Untouched(b, i, k)' <=> Untouched(b, i, k)
  BY BodyKept DEF Untouched
<1> QED BY <1>1, <1>2 DEF Through

\* What leaves a block was last mutated in it, or passes through it.
LEMMA LeavingFacts ==
    ASSUME body \in Bodies, NEW b \in Block, NEW k \in Place
    PROVE  /\ \A l \in Leaving(b, k) :
                 \/ l \in Location /\ l[1] = b /\ last_in_block(l, k)
                 \/ l \in entry[b][k] /\ Untouched(b, Len(code(b)) + 1, k)
           /\ \A l \in Location : l[1] = b /\ last_in_block(l, k) => l \in Leaving(b, k)
           /\ Untouched(b, Len(code(b)) + 1, k) => entry[b][k] \subseteq Leaving(b, k)
<1> DEFINE n == Len(code(b))
<1>1. n \in Nat /\ n + 1 - 1 = n
  BY CodeFacts
<1>2. ASSUME NEW j \in 1 .. n
      PROVE  <<b, j>> \in Location /\ (Latest(b, n + 1, k, j) <=> last_in_block(<<b, j>>, k))
  <2>1. <<b, j>> \in Location
    BY CodeFacts
  <2>2. Latest(b, n + 1, k, j) <=> last_in_block(<<b, j>>, k)
    BY <1>1 DEF Latest, last_in_block
  <2> QED BY <2>1, <2>2
<1>3. Leaving(b, k) = {<<b, j>> : j \in {j \in 1 .. n : Latest(b, n + 1, k, j)}}
                      \cup (IF Untouched(b, n + 1, k) THEN entry[b][k] ELSE {})
  BY <1>1 DEF Leaving, Through
<1>4. ASSUME NEW l \in Location, l[1] = b, last_in_block(l, k) PROVE l \in Leaving(b, k)
  <2>1. l = <<b, l[2]>> /\ l[2] \in 1 .. n
    BY <1>4, LocationFacts
  <2> QED BY <1>2, <1>3, <1>4, <2>1
<1>5. ASSUME NEW l \in Leaving(b, k)
      PROVE  \/ l \in Location /\ l[1] = b /\ last_in_block(l, k)
             \/ l \in entry[b][k] /\ Untouched(b, n + 1, k)
  BY <1>2, <1>3
<1> QED BY <1>3, <1>4, <1>5

\* What leaves a reachable block arrives in its successors.
LEMMA LeavingArrives ==
    ASSUME FlowInv, NEW b \in reachable_blocks, NEW c \in Successors(Block, body.cfg, b),
           NEW k \in Place, NEW l \in Leaving(b, k)
    PROVE  l \in Arriving(c, k)
<1>1. body \in Bodies /\ b \in Block /\ c \in Block /\ <<b, c>> \in body.cfg
  BY DEF FlowInv, TypeOK, reachable_blocks, Successors
<1>2. CASE l \in Location /\ l[1] = b /\ last_in_block(l, k)
  <2>1. Reaches(Block, passing(k), c, c)
    BY <1>1 DEF Reaches
  <2> QED BY <1>2, <2>1 DEF Arriving
<1>3. CASE l \in entry[b][k] /\ Untouched(b, Len(code(b)) + 1, k)
  <2>1. l \in Arriving(b, k)
    BY <1>1, <1>3 DEF FlowInv, EntrySound
  <2>2. PICK d \in Successors(Block, body.cfg, l[1]) : Reaches(Block, passing(k), d, b)
    BY <2>1 DEF Arriving
  <2>3. Len(code(b)) \in Nat /\ Len(code(b)) + 1 - 1 = Len(code(b))
    BY <1>1, CodeFacts
  <2>4. <<b, c>> \in passing(k)
    BY <1>1, <1>3, <2>3 DEF passing, Untouched
  <2>5. Reaches(Block, passing(k), d, c)
    BY <1>1, <2>2, <2>4, LongerPath DEF Successors
  <2> QED BY <2>1, <2>5 DEF Arriving
<1> QED BY <1>1, <1>2, <1>3, LeavingFacts

\* At the start of a block its state is its entry.
LEMMA ThroughStart ==
    ASSUME NEW b, NEW k
    PROVE  Through(b, 1, k) = entry[b][k]
<1>1. 1 .. 1 - 1 = {}
  OBVIOUS
<1> QED BY <1>1 DEF Through, Untouched

LEMMA InitFlow == Init => FlowInv
<1> SUFFICES ASSUME Init PROVE FlowInv
  OBVIOUS
<1>1. TypeOK
  BY InitType
<1>2. Pending = reachable_blocks /\ cursor = <<>>
  BY DEF Init, Pending
<1>3. Queued /\ StateRight /\ PassedOn
  BY <1>2 DEF Queued, StateRight, PassedOn
<1>4. EntrySound
  BY DEF Init, Nowhere, EntrySound
<1> QED BY <1>1, <1>3, <1>4 DEF FlowInv

LEMMA FlowStep == FlowInv /\ [Next]_vars => FlowInv'
<1> SUFFICES ASSUME FlowInv, [Next]_vars PROVE FlowInv'
  OBVIOUS
<1>1. TypeOK /\ TypeOK' /\ body \in Bodies
  BY TypeStep DEF FlowInv, TypeOK
<1>2. body' = body
  BY DEF Next, Begin, Apply, Propagate, Visit, Visited, ConnectEnd, NextPhase, advance, vars
<1>3. ASSUME entry' = entry, Pending' = Pending, phase' = phase
      PROVE  Queued' /\ EntrySound' /\ PassedOn'
  <2>1. Queued'
    BY <1>2, <1>3, BodyKept DEF FlowInv, Queued
  <2>2. EntrySound'
    BY <1>2, <1>3, BodyKept DEF FlowInv, EntrySound
  <2>3. \A b, k : Leaving(b, k)' = Leaving(b, k)
    BY <1>2, <1>3, BodyKept, ThroughKept DEF Leaving
  <2>4. PassedOn'
    BY <1>2, <1>3, <2>3, BodyKept DEF FlowInv, PassedOn
  <2> QED BY <2>1, <2>2, <2>4
<1>4. ASSUME NEW b \in Block, Begin(b) PROVE FlowInv'
  <2>1. /\ entry' = entry /\ phase' = phase /\ cursor = <<>> /\ cursor' # <<>>
        /\ cursor'[1] = b /\ cursor'[2] = 1 /\ state' = entry[b]
        /\ b \in todo /\ todo' = todo \ {b}
    BY <1>4 DEF Begin
  <2>2. Pending' = Pending
    BY <2>1 DEF Pending
  <2>3. StateRight'
    BY <1>2, <2>1, ThroughStart, ThroughKept DEF StateRight
  <2> QED BY <1>1, <1>3, <2>1, <2>2, <2>3 DEF FlowInv
<1>5. ASSUME within_block, advance PROVE FlowInv'
  <2>1. StateRight'
    BY <1>1, <1>5, ThroughStep DEF FlowInv
  <2>2. cursor # <<>> /\ cursor' # <<>> /\ cursor'[1] = cursor[1]
    BY <1>5 DEF within_block, advance
  <2>3. Pending' = Pending
    BY <1>5, <2>2 DEF Pending, advance
  <2> QED BY <1>1, <1>3, <1>5, <2>1, <2>3 DEF FlowInv, advance
<1>6. CASE Apply
  BY <1>5, <1>6 DEF Apply
<1>7. CASE Visit
  BY <1>5, <1>7 DEF Visit
<1>8. CASE Propagate
  <2> DEFINE b == cursor[1]
             reached == Successors(Block, body.cfg, b)
  <2>1. /\ cursor # <<>> /\ b \in Block /\ cursor[2] = Len(code(b)) + 1
        /\ phase = "iterate" /\ phase' = "iterate" /\ cursor' = <<>>
    BY <1>1, <1>8, CursorFacts DEF Propagate, past_block
  <2>2. b \in reachable_blocks /\ todo \subseteq reachable_blocks
    BY <2>1 DEF FlowInv, Queued, Pending
  <2>3. \A k \in Place : state[k] = Leaving(b, k)
    BY <2>1 DEF FlowInv, StateRight, Leaving
  <2>4. \A c \in Block : entry'[c] = IF c \in reached THEN join(entry[c], state) ELSE entry[c]
    BY <1>8 DEF Propagate
  <2>5. todo' = todo \cup {c \in reached : entry'[c] # entry[c]} /\ Pending' = todo'
    BY <1>8, <2>1 DEF Propagate, Pending
  <2> HIDE DEF b, reached
  <2>6. \A c \in Block, k \in Place :
            entry'[c][k] = IF c \in reached THEN entry[c][k] \cup Leaving(b, k) ELSE entry[c][k]
    BY <2>3, <2>4 DEF join
  <2>7. \A c \in Block, k \in Place : entry[c][k] \subseteq entry'[c][k]
    BY <2>6
  <2>8. \A c \in reached, k \in Place : c \in Block => Leaving(b, k) \subseteq entry'[c][k]
    BY <2>6
  <2>9. reached \subseteq reachable_blocks
    <3> SUFFICES ASSUME NEW c \in reached PROVE Reaches(Block, body.cfg, Entry, c) /\ c \in Block
      BY DEF reachable_blocks
    <3>1. c \in Block /\ <<b, c>> \in body.cfg
      BY DEF reached, Successors
    <3> QED BY <2>1, <2>2, <3>1, LongerPath, PlacesAssumption DEF reachable_blocks
  <2>10. Queued'
    BY <1>2, <2>2, <2>5, <2>9, BodyKept DEF Queued
  <2>11. EntrySound'
    <3> SUFFICES ASSUME NEW c \in Block, NEW k \in Place, NEW l \in entry'[c][k]
                 PROVE  l \in Arriving(c, k)
      BY <1>2, BodyKept DEF EntrySound
    <3>1. l \in entry[c][k] \/ (c \in reached /\ l \in Leaving(b, k))
      BY <2>6
    <3> QED BY <2>2, <3>1, LeavingArrives DEF FlowInv, EntrySound, reached
  <2>12. PassedOn'
    <3> SUFFICES ASSUME NEW c \in reachable_blocks, c \notin todo',
                        NEW d \in Successors(Block, body.cfg, c), NEW k \in Place
                 PROVE  Leaving(c, k)' \subseteq entry'[d][k]
      BY <1>2, <2>5, BodyKept DEF PassedOn
    <3>1. c \in Block /\ d \in Block
      BY DEF reachable_blocks, Successors
    <3>2. entry'[c] = entry[c]
      BY <2>4, <2>5, <3>1
    <3>3. Leaving(c, k)' = Leaving(c, k)
      BY <1>2, <3>2, BodyKept, ThroughKept DEF Leaving
    <3>4. CASE c = b
      <4>1. Leaving(b, k) \subseteq entry'[d][k]
        BY <2>8, <3>1, <3>4 DEF reached
      <4> QED BY <3>3, <3>4, <4>1
    <3>5. CASE c # b
      <4>1. c \notin Pending
        BY <2>1, <2>5, <3>5 DEF Pending, b
      <4>2. Leaving(c, k) \subseteq entry[d][k]
        BY <4>1 DEF FlowInv, PassedOn
      <4>3. entry[d][k] \subseteq entry'[d][k]
        BY <2>7, <3>1
      <4> QED BY <3>3, <4>2, <4>3
    <3> QED BY <3>4, <3>5
  <2>13. StateRight'
    BY <2>1 DEF StateRight
  <2> QED BY <1>1, <2>10, <2>11, <2>12, <2>13 DEF FlowInv
<1>9. CASE Visited \/ ConnectEnd
  <2>1. /\ entry' = entry /\ phase' = phase /\ phase # "iterate" /\ cursor' = <<>>
    BY <1>9 DEF Visited, ConnectEnd
  <2>2. Pending' = Pending
    BY <2>1 DEF Pending
  <2>3. StateRight'
    BY <2>1 DEF StateRight
  <2> QED BY <1>1, <1>3, <2>1, <2>2, <2>3 DEF FlowInv
<1>10. CASE NextPhase
  <2>1. /\ entry' = entry /\ cursor = <<>> /\ cursor' = <<>> /\ todo = {} /\ phase' # "iterate"
    BY <1>10 DEF NextPhase
  <2>2. Pending = {} /\ Pending' = {}
    BY <2>1 DEF Pending
  <2>3. Queued' /\ StateRight'
    BY <2>1 DEF Queued, StateRight
  <2>4. EntrySound'
    BY <1>2, <2>1, BodyKept DEF FlowInv, EntrySound
  <2>5. \A b, k : Leaving(b, k)' = Leaving(b, k)
    BY <1>2, <2>1, BodyKept, ThroughKept DEF Leaving
  <2>6. PassedOn'
    BY <1>2, <2>1, <2>2, <2>5, BodyKept DEF FlowInv, PassedOn
  <2> QED BY <1>1, <2>3, <2>4, <2>6 DEF FlowInv
<1>11. CASE UNCHANGED vars
  <2>1. Pending' = Pending
    BY <1>11 DEF Pending, vars
  <2>2. StateRight'
    BY <1>2, <1>11, ThroughKept DEF FlowInv, StateRight, vars
  <2> QED BY <1>1, <1>3, <1>11, <2>1, <2>2 DEF FlowInv, vars
<1> QED BY <1>4, <1>6, <1>7, <1>8, <1>9, <1>10, <1>11 DEF Next

\* After the fixed point the blocks that have a mutation are closed.
LEMMA EntryRight ==
    ASSUME FlowInv, phase # "iterate"
    PROVE  \A b \in Block, k \in Place : entry[b][k] = Arriving(b, k)
<1> SUFFICES ASSUME NEW b \in Block, NEW k \in Place, NEW l \in Arriving(b, k)
             PROVE  l \in entry[b][k]
  BY DEF FlowInv, EntrySound
<1> DEFINE arrived == {c \in reachable_blocks : l \in entry[c][k]}
<1>1. body \in Bodies /\ reachable_blocks \subseteq Block
  BY DEF FlowInv, TypeOK, reachable_blocks
<1>2. \A c \in reachable_blocks : \A d \in Successors(Block, body.cfg, c) :
        Leaving(c, k) \subseteq entry[d][k] /\ d \in reachable_blocks
  <2> SUFFICES ASSUME NEW c \in reachable_blocks, NEW d \in Successors(Block, body.cfg, c)
               PROVE  Leaving(c, k) \subseteq entry[d][k] /\ d \in reachable_blocks
    OBVIOUS
  <2>1. Leaving(c, k) \subseteq entry[d][k]
    BY DEF FlowInv, PassedOn, Pending
  <2>2. d \in Block /\ <<c, d>> \in body.cfg
    BY DEF Successors
  <2>3. d \in reachable_blocks
    BY <1>1, <2>2, LongerPath, PlacesAssumption DEF reachable_blocks
  <2> QED BY <2>1, <2>3
<1>3. PICK s \in Successors(Block, body.cfg, l[1]) : Reaches(Block, passing(k), s, b)
  BY DEF Arriving
<1>4. s \in arrived
  <2>1. l \in Location /\ l[1] \in reachable_blocks /\ last_in_block(l, k)
    BY DEF Arriving
  <2>2. l \in Leaving(l[1], k)
    BY <1>1, <2>1, LeavingFacts
  <2> QED BY <1>2, <1>3, <2>1, <2>2
<1>5. ClosedUnder(Block, passing(k), arrived)
  <2> SUFFICES ASSUME NEW c \in arrived, NEW d \in Block, <<c, d>> \in passing(k)
               PROVE  d \in arrived
    BY DEF ClosedUnder
  <2>1. c \in Block /\ Len(code(c)) \in Nat /\ Len(code(c)) + 1 - 1 = Len(code(c))
    BY <1>1, CodeFacts
  <2>2. Untouched(c, Len(code(c)) + 1, k) /\ d \in Successors(Block, body.cfg, c)
    BY <2>1 DEF passing, Untouched, Successors
  <2>3. l \in Leaving(c, k)
    BY <1>1, <2>1, <2>2, LeavingFacts
  <2> QED BY <1>2, <2>2, <2>3
<1>6. arrived \in SUBSET Block
  BY <1>1
<1> HIDE DEF arrived
<1>7. b \in arrived
  BY <1>3, <1>4, <1>5, <1>6 DEF Reaches
<1> QED BY <1>7 DEF arrived

LEMMA FlowInvariance == Spec => []FlowInv
  BY InitFlow, FlowStep, PTL DEF Spec

(***************************************************************************)
(* The analysis computes the meet over all paths: a block starts with      *)
(* exactly the mutations some execution takes to it, for every body and    *)
(* every order in which the engine takes blocks from its queue.            *)
(***************************************************************************)
THEOREM MeetOverAllPaths == Spec => []FixpointRight
<1>1. FlowInv => FixpointRight
  BY EntryRight DEF FixpointRight
<1> QED BY <1>1, FlowInvariance, PTL

-----------------------------------------------------------------------------
(***************************************************************************)
(* The pass over the results.                                              *)
(***************************************************************************)
\* Branches are on places that are among their own aliases, as those without
\* a dereference are.
DirectBranches ==
    \A l \in Location : at(l).kind = "switch" /\ at(l).discr # None =>
        at(l).discr \in Aliases[at(l).discr]

\* The places for which the instruction at l has a node.
Registers(l) ==
    written(l) \cup (IF at(l).kind = "switch" /\ at(l).discr # None THEN {at(l).discr} ELSE {})

Shown(l) == \A q \in Registers(l) : node(q, l) \in nodes

\* The locations the second pass has yet to come to.
Ahead(l) ==
    phase = "visit" /\ (l[1] \in todo \/ (cursor # <<>> /\ cursor[1] = l[1] /\ l[2] >= cursor[2]))

AllShown == phase # "iterate" => \A l \in reachable_locations : Ahead(l) \/ Shown(l)

\* An edge leaves from a place that the instruction there registers.
FromRegistered(n) == n.at \in Location => n.place \in Registers(n.at)

EdgesRegistered == \A e \in edges : FromRegistered(e.from)

NodeInv == FlowInv /\ DirectBranches /\ AllShown /\ EdgesRegistered

\* A state in which places are said to be mutated where they are.
Truthful(s) == \A k \in Place : \A l \in s[k] : k \in written(l)

-----------------------------------------------------------------------------
LEMMA Start_End == \A l \in Location : l # Start /\ l # End
<1> SUFFICES ASSUME NEW l \in Location PROVE l # Start /\ l # End
  OBVIOUS
<1>1. PICK b \in Block : l \in {b} \X (1 .. Len(code(b)))
  BY DEF Location
<1>2. l \in Block \X Nat
  BY <1>1
<1> QED BY <1>2, LocationsAssumption

\* The nodes of a callee are at no location of the body.
LEMMA ChildNodes ==
    ASSUME NEW p, NEW l, NEW e \in {Start, End}
    PROVE  child(p, l, e).at \notin Location
<1> SUFFICES ASSUME <<l, e>> \in Location PROVE FALSE
  BY DEF child
<1>1. PICK b \in Block : <<l, e>> \in {b} \X (1 .. Len(code(b)))
  BY DEF Location
<1>2. e \in Nat
  BY <1>1
<1> QED BY <1>2, LocationsAssumption

\* What is read at p was brought by an argument or mutated in the state.
LEMMA InputsFrom ==
    ASSUME NEW s, NEW p, NEW n \in find_data_inputs(s, p)
    PROVE  \/ \E a \in Arg : n = node(a, Start)
           \/ \E k \in Place : \E l \in s[k] : n = node(k, l)
<1> DEFINE argument(a) == IF a \in Arg THEN {node(a, Start)} ELSE {}
           at_place(k) == {node(k, l) : l \in s[k]}
           mutations(a) == UNION {at_place(k) : k \in {k \in Place : <<k, a>> \in Conflicts}}
           found(a) == argument(a) \cup mutations(a)
           A == UNION {Aliases[q] : q \in {p} \cup Refs[p]}
<1>1. n \in UNION {found(a) : a \in A}
  BY DEF find_data_inputs
<1> HIDE DEF A, found
<1>2. PICK a : n \in found(a)
  BY <1>1
<1> HIDE DEF argument, mutations
<1>3. n \in argument(a) \/ n \in mutations(a)
  BY <1>2 DEF found
<1>4. CASE n \in argument(a)
  BY <1>4 DEF argument
<1> HIDE DEF at_place
<1>5. CASE n \in mutations(a)
  <2>1. PICK k \in Place : n \in at_place(k)
    BY <1>5 DEF mutations
  <2> QED BY <2>1 DEF at_place
<1> QED BY <1>3, <1>4, <1>5

LEMMA InputsRegistered ==
    ASSUME NEW s, Truthful(s), NEW p, NEW n \in find_data_inputs(s, p)
    PROVE  FromRegistered(n)
<1>1. \/ \E a \in Arg : n = node(a, Start)
      \/ \E k \in Place : \E l \in s[k] : n = node(k, l)
  BY InputsFrom
<1>2. ASSUME NEW a, n = node(a, Start) PROVE FromRegistered(n)
  BY <1>2, Start_End DEF node, FromRegistered
<1>3. ASSUME NEW k \in Place, NEW l \in s[k], n = node(k, l) PROVE FromRegistered(n)
  BY <1>3 DEF node, FromRegistered, Truthful, Registers
<1> QED BY <1>1, <1>2, <1>3

LEMMA LinkRegistered ==
    ASSUME NEW s, Truthful(s), NEW places, NEW outputs, NEW n \in link(s, places, outputs).inputs
    PROVE  FromRegistered(n)
<1>1. PICK i \in DOMAIN places : n \in find_data_inputs(s, places[i])
  BY DEF link
<1> QED BY <1>1, InputsRegistered

\* Each input of what is registered comes from a place registered there.
LEMMA RegisteredInputs ==
    ASSUME body \in Bodies, NEW l \in Location, NEW s, NEW t, Truthful(s), Truthful(t),
           NEW r \in registered(l, s, t), NEW n \in r.inputs
    PROVE  FromRegistered(n)
<1>1. ASSUME NEW u, Truthful(u), NEW M, r \in register(u, M, l) PROVE FromRegistered(n)
  <2>1. PICK m \in M : r = link(u, m.inputs, find_outputs(m.mutated, l))
    BY <1>1 DEF register
  <2> QED BY <1>1, <2>1, LinkRegistered
<1>2. ASSUME r \in inlined(at(l), s, l) PROVE FromRegistered(n)
  <2>1. CASE \E p \in at(l).reads : r = link(s, <<p>>, {child(p, l, Start)})
    BY <2>1, LinkRegistered
  <2>2. CASE \E p \in at(l).writes : r.inputs = {child(p, l, End)}
    BY <2>2, ChildNodes DEF FromRegistered
  <2> QED BY <1>2, <2>1, <2>2 DEF inlined
<1>3. ASSUME r \in at_call(at(l), s, t, l) PROVE FromRegistered(n)
  BY <1>1, <1>3 DEF at_call
<1> QED BY <1>1, <1>2, <1>3 DEF registered

\* Each place registered at a location is among the outputs there.
LEMMA RegisteredOutputs ==
    ASSUME body \in Bodies, DirectBranches, NEW l \in Location, NEW s, NEW t, NEW q \in Registers(l)
    PROVE  \E r \in registered(l, s, t) : node(q, l) \in r.outputs
<1> DEFINE c == at(l)
<1>1. c \in Instruction
  BY LocationFacts
<1>2. \A u, places, outputs : link(u, places, outputs).outputs = outputs
  BY DEF link
<1>3. ASSUME NEW u, NEW M, NEW m \in M, q \in Aliases[m.mutated]
      PROVE  \E r \in register(u, M, l) : node(q, l) \in r.outputs
  <2>1. link(u, m.inputs, find_outputs(m.mutated, l)) \in register(u, M, l)
    BY DEF register
  <2>2. node(q, l) \in find_outputs(m.mutated, l)
    BY <1>3 DEF find_outputs
  <2> QED BY <1>2, <2>1, <2>2
<1>4. q \in written(l) \/ (c.kind = "switch" /\ c.discr # None /\ q = c.discr)
  BY DEF Registers
<1>5. q \in written(l) => \E p \in mutated(c) : q \in Aliases[p]
  BY DEF written
<1> HIDE DEF c
<1>6. CASE c.kind = "switch"
  <2>1. c.discr # None /\ q = c.discr
    BY <1>4, <1>5, <1>6 DEF mutated
  <2>2. q \in Aliases[q]
    BY <1>6, <2>1 DEF DirectBranches, c
  <2> DEFINE m == [mutated |-> q, inputs |-> <<q>>]
  <2>3. \E r \in register(s, {m}, l) : node(q, l) \in r.outputs
    BY <1>3, <2>2
  <2> QED BY <1>6, <2>1, <2>3 DEF registered, c
<1>7. CASE c.kind # "switch"
  <2>1. PICK p \in mutated(c) : q \in Aliases[p]
    BY <1>4, <1>5, <1>7
  <2>2. CASE c.kind = "call" /\ c.handling = "ready"
    <3>1. p \in c.writes
      BY <2>1, <2>2 DEF mutated
    <3> DEFINE end == {child(p, l, End)}
               r == [inputs |-> end, heads |-> end, outputs |-> find_outputs(p, l)]
    <3>2. r \in inlined(c, s, l)
      BY <3>1 DEF inlined
    <3>3. node(q, l) \in r.outputs
      BY <2>1 DEF find_outputs
    <3> QED BY <2>2, <3>2, <3>3 DEF registered, c
  <2>3. CASE c.kind = "call" /\ c.handling = "fallback"
    <3>1. PICK m \in before(c) \cup after(c) : p = m.mutated
      BY <2>1, <2>3 DEF mutated
    <3>2. \E r \in register(s, before(c), l) \cup register(t, after(c), l) : node(q, l) \in r.outputs
      BY <1>3, <2>1, <3>1
    <3> QED BY <2>3, <3>2 DEF registered, at_call, c
  <2>4. CASE c.kind = "call" /\ c.handling = "approximate"
    <3>1. PICK m \in c.mutations : p = m.mutated
      BY <2>1, <2>4 DEF mutated
    <3>2. \E r \in register(s, c.mutations, l) : node(q, l) \in r.outputs
      BY <1>3, <2>1, <3>1
    <3> QED BY <2>4, <3>2 DEF registered, c
  <2>5. CASE c.kind # "call"
    <3>1. PICK m \in c.mutations : p = m.mutated
      BY <1>7, <2>1, <2>5 DEF mutated
    <3>2. \E r \in register(s, c.mutations, l) : node(q, l) \in r.outputs
      BY <1>3, <2>1, <3>1
    <3> QED BY <1>7, <2>5, <3>2 DEF registered, c
  <2>6. c.kind = "call" => c.handling \in {"ready", "approximate", "fallback"}
    BY <1>1 DEF Instruction
  <2> QED BY <2>2, <2>3, <2>4, <2>5, <2>6
<1> QED BY <1>6, <1>7

\* The states of the analysis are truthful.
LEMMA StateTruthful ==
    ASSUME FlowInv, cursor # <<>>
    PROVE  Truthful(state)
<1> SUFFICES ASSUME NEW k \in Place, NEW l \in state[k] PROVE k \in written(l)
  BY DEF Truthful
<1>1. cursor[1] \in Block
  BY CursorFacts DEF FlowInv
<1>2. l \in Through(cursor[1], cursor[2], k)
  BY DEF FlowInv, StateRight
<1>3. ASSUME l \in entry[cursor[1]][k] PROVE k \in written(l)
  BY <1>1, <1>3 DEF FlowInv, EntrySound, Arriving, last_in_block
<1> QED BY <1>2, <1>3 DEF Through, Latest

LEMMA ControlRegistered ==
    ASSUME body \in Bodies, NEW l, NEW n \in find_control_inputs(l)
    PROVE  FromRegistered(n)
<1>1. PICK d \in Block : /\ terminator(d).kind = "switch" /\ terminator(d).discr # None
                        /\ n = node(terminator(d).discr, terminator_loc(d))
  BY DEF find_control_inputs
<1>2. at(terminator_loc(d)) = terminator(d)
  BY DEF at, terminator_loc, terminator
<1> QED BY <1>1, <1>2 DEF FromRegistered, Registers, node

\* What the second pass does at a location.
LEMMA VisitRegisters ==
    ASSUME NodeInv, Visit
    PROVE  /\ nodes \subseteq nodes' /\ \A q \in Registers(cursor) : node(q, cursor) \in nodes'
           /\ \A e \in edges' : FromRegistered(e.from)
<1> DEFINE l == cursor
           R == registered(l, state, state')
<1>1. body \in Bodies /\ l \in Location /\ cursor # <<>>
  BY CursorFacts DEF NodeInv, FlowInv, TypeOK, Visit, within_block
<1>2. Truthful(state)
  BY <1>1, StateTruthful DEF NodeInv
<1>3. Truthful(state')
  <2> SUFFICES ASSUME NEW k \in Place, NEW m \in state'[k] PROVE k \in written(m)
    BY DEF Truthful
  <2>1. state'[k] = IF k \in written(l) THEN {l} ELSE state[k]
    BY DEF Visit, advance, apply_mutation
  <2> QED BY <1>2, <2>1 DEF Truthful
<1>4. nodes' = nodes \cup child_nodes(l) \cup UNION {r.outputs : r \in R}
  BY DEF Visit
<1> HIDE DEF R
<1>5. ASSUME NEW q \in Registers(l) PROVE node(q, l) \in nodes'
  <2>1. PICK r \in R : node(q, l) \in r.outputs
    BY <1>1, RegisteredOutputs DEF NodeInv, R
  <2> QED BY <1>4, <2>1
<1>6. PICK u \in [R -> BOOLEAN] :
        edges' = edges \cup child_edges(l)
                    \cup UNION {data_edges(r, u[r]) \cup control_edges(r, l) : r \in R}
  BY DEF Visit, R
<1>7. ASSUME NEW e \in edges' PROVE FromRegistered(e.from)
  <2>1. CASE e \in edges
    BY <2>1 DEF NodeInv, EdgesRegistered
  <2>2. CASE e \in child_edges(l)
    <3>1. \E p : e.from = child(p, l, Start)
      BY <2>2 DEF child_edges
    <3> QED BY <3>1, ChildNodes DEF FromRegistered
  <2>3. ASSUME NEW r \in R, e \in data_edges(r, u[r]) PROVE FromRegistered(e.from)
    <3>1. e.from \in r.inputs
      BY <2>3 DEF data_edges
    <3> QED BY <1>1, <1>2, <1>3, <3>1, RegisteredInputs DEF R
  <2>4. ASSUME NEW r \in R, e \in control_edges(r, l) PROVE FromRegistered(e.from)
    <3>1. e.from \in find_control_inputs(l)
      BY <2>4 DEF control_edges
    <3> QED BY <1>1, <3>1, ControlRegistered
  <2> QED BY <1>6, <2>1, <2>2, <2>3, <2>4
<1> QED BY <1>4, <1>5, <1>7

LEMMA RegistersKept ==
    ASSUME body' = body
    PROVE  /\ \A l : Registers(l)' = Registers(l)
           /\ \A n : FromRegistered(n)' <=> FromRegistered(n)
           /\ reachable_locations' = reachable_locations /\ (DirectBranches' <=> DirectBranches)
<1>1. Location' = Location
  BY DEF Location, code
<1>2. \A l : at(l)' = at(l)
  BY DEF at, code
<1>3. \A l : Registers(l)' = Registers(l)
  BY <1>2, BodyKept DEF Registers
<1>4. reachable_locations' = reachable_locations
  BY <1>1, BodyKept DEF reachable_locations
<1>5. DirectBranches' <=> DirectBranches
  BY <1>1, <1>2 DEF DirectBranches
<1>6. \A n : FromRegistered(n)' <=> FromRegistered(n)
  BY <1>1, <1>3 DEF FromRegistered
<1> QED BY <1>3, <1>4, <1>5, <1>6

LEMMA NodeStep == NodeInv /\ [Next]_vars => NodeInv'
<1> SUFFICES ASSUME NodeInv, [Next]_vars PROVE NodeInv'
  OBVIOUS
<1>1. FlowInv' /\ TypeOK /\ FlowInv
  BY FlowStep DEF NodeInv, FlowInv
<1>2. body' = body
  BY DEF Next, Begin, Apply, Propagate, Visit, Visited, ConnectEnd, NextPhase, advance, vars
<1>3. DirectBranches'
  BY <1>2, RegistersKept DEF NodeInv
<1>4. ASSUME nodes' = nodes, edges' = edges,
             \A l \in reachable_locations : Ahead(l) => Ahead(l)', phase' = phase \/ phase # "iterate"
      PROVE  NodeInv'
  <2>1. EdgesRegistered'
    BY <1>2, <1>4, RegistersKept DEF NodeInv, EdgesRegistered
  <2>2. \A l : Shown(l)' <=> Shown(l)
    BY <1>2, <1>4, RegistersKept DEF Shown, node
  <2>3. AllShown'
    BY <1>2, <1>4, <2>2, RegistersKept DEF NodeInv, AllShown
  <2> QED BY <1>1, <1>3, <2>1, <2>3 DEF NodeInv
<1>5. ASSUME NEW b \in Block, Begin(b) PROVE NodeInv'
  <2>1. ASSUME NEW l \in reachable_locations, Ahead(l) PROVE Ahead(l)'
    <3>1. phase' = phase /\ cursor = <<>> /\ cursor' = <<b, 1>> /\ todo' = todo \ {b} /\ cursor' # <<>>
      BY <1>5 DEF Begin
    <3>2. l[1] \in todo
      BY <2>1, <3>1 DEF Ahead
    <3>3. l[2] >= 1
      BY <1>1, LocationFacts DEF reachable_locations, TypeOK
    <3> QED BY <2>1, <3>1, <3>2, <3>3 DEF Ahead
  <2> QED BY <1>4, <1>5, <2>1 DEF Begin
<1>6. CASE Apply
  <2>1. ASSUME NEW l \in reachable_locations, Ahead(l) PROVE Ahead(l)'
    BY <1>6, <2>1 DEF Apply, Ahead
  <2> QED BY <1>4, <1>6, <2>1 DEF Apply, advance
<1>7. CASE Propagate
  BY <1>4, <1>7 DEF Propagate, Ahead
<1>8. CASE Visit
  <2>1. /\ cursor # <<>> /\ cursor' = <<cursor[1], cursor[2] + 1>> /\ cursor' # <<>>
        /\ phase = "visit" /\ phase' = "visit" /\ todo' = todo
    BY <1>8 DEF Visit, within_block, advance
  <2>2. cursor = <<cursor[1], cursor[2]>> /\ cursor[2] \in Nat
    BY <1>1, <2>1, CursorFacts, CodeFacts DEF TypeOK
  <2>3. EdgesRegistered'
    BY <1>2, <1>8, VisitRegisters, RegistersKept DEF EdgesRegistered
  <2>4. ASSUME NEW l \in reachable_locations PROVE Ahead(l)' \/ Shown(l)'
    <3>1. Shown(l) => Shown(l)'
      BY <1>2, <1>8, VisitRegisters, RegistersKept DEF Shown, node
    <3>2. l = <<l[1], l[2]>> /\ l[2] \in Nat
      BY <1>1, LocationFacts, CodeFacts DEF reachable_locations, TypeOK
    <3>3. CASE l = cursor
      BY <1>2, <1>8, <3>3, VisitRegisters, RegistersKept DEF Shown, node
    <3>4. CASE l # cursor /\ Ahead(l)
      <4>1. l[1] \in todo \/ (cursor[1] = l[1] /\ l[2] >= cursor[2])
        BY <3>4 DEF Ahead
      <4>2. \A i, j \in Nat : i >= j /\ i # j => i >= j + 1
        OBVIOUS
      <4>3. cursor[1] = l[1] /\ l[2] >= cursor[2] => l[2] >= cursor[2] + 1
        BY <2>2, <3>2, <3>4, <4>2
      <4> QED BY <2>1, <4>1, <4>3 DEF Ahead
    <3>5. Ahead(l) \/ Shown(l)
      BY <2>1 DEF NodeInv, AllShown
    <3> QED BY <3>1, <3>3, <3>4, <3>5
  <2>5. AllShown'
    BY <1>2, <2>4, RegistersKept DEF AllShown
  <2> QED BY <1>1, <1>3, <2>3, <2>5 DEF NodeInv
<1>9. CASE Visited
  <2>1. ASSUME NEW l \in reachable_locations, Ahead(l) PROVE Ahead(l)'
    <3>1. phase' = phase /\ todo' = todo /\ past_block
      BY <1>9 DEF Visited
    <3>2. l[1] \in Block /\ l[2] \in 1 .. Len(code(l[1])) /\ Len(code(l[1])) \in Nat
      BY <1>1, LocationFacts, CodeFacts DEF reachable_locations, TypeOK
    <3>3. \A n \in Nat : \A i \in 1 .. n : ~(i >= n + 1)
      OBVIOUS
    <3>4. ~(cursor # <<>> /\ cursor[1] = l[1] /\ l[2] >= cursor[2])
      BY <1>1, <3>1, <3>2, <3>3, CursorFacts DEF past_block
    <3> QED BY <2>1, <3>1, <3>4 DEF Ahead
  <2> QED BY <1>4, <1>9, <2>1 DEF Visited
<1>10. CASE ConnectEnd
  <2>1. /\ nodes' = nodes /\ phase = "returns" /\ phase' = phase /\ cursor # <<>>
    BY <1>10 DEF ConnectEnd, past_block
  <2>2. Truthful(state)
    BY <1>1, <2>1, StateTruthful
  <2>3. ASSUME NEW e \in edges' PROVE FromRegistered(e.from)
    <3>1. e \in edges \/ \E p \in Exposed : \E l \in state[p] : e.from = node(p, l)
      BY <1>10 DEF ConnectEnd
    <3>2. ASSUME NEW p \in Exposed, NEW l \in state[p], e.from = node(p, l) PROVE FromRegistered(e.from)
      <4>1. p \in written(l)
        BY <2>2, PlacesAssumption DEF Truthful
      <4> QED BY <3>2, <4>1 DEF FromRegistered, node, Registers
    <3> QED BY <3>1, <3>2 DEF NodeInv, EdgesRegistered
  <2>4. EdgesRegistered'
    BY <1>2, <2>3, RegistersKept DEF EdgesRegistered
  <2>5. \A l : Shown(l)' <=> Shown(l)
    BY <1>2, <2>1, RegistersKept DEF Shown, node
  <2>6. AllShown'
    BY <1>2, <2>1, <2>5, RegistersKept DEF NodeInv, AllShown, Ahead
  <2> QED BY <1>1, <1>3, <2>4, <2>6 DEF NodeInv
<1>11. CASE NextPhase
  <2>1. /\ nodes' = nodes /\ edges' = edges /\ todo = {} /\ cursor = <<>>
        /\ phase = "iterate" => phase' = "visit" /\ todo' = reachable_blocks
    BY <1>11 DEF NextPhase
  <2>2. EdgesRegistered'
    BY <1>2, <2>1, RegistersKept DEF NodeInv, EdgesRegistered
  <2>3. \A l : Shown(l)' <=> Shown(l)
    BY <1>2, <2>1, RegistersKept DEF Shown, node
  <2>4. ASSUME NEW l \in reachable_locations PROVE Ahead(l)' \/ Shown(l)'
    <3>1. CASE phase = "iterate"
      BY <2>1, <3>1 DEF Ahead, reachable_locations
    <3>2. CASE phase # "iterate"
      BY <2>1, <2>3, <3>2 DEF Ahead, NodeInv, AllShown
    <3> QED BY <3>1, <3>2
  <2>5. AllShown'
    BY <1>2, <2>4, RegistersKept DEF AllShown
  <2> QED BY <1>1, <1>3, <2>2, <2>5 DEF NodeInv
<1>12. CASE UNCHANGED vars
  <2>1. \A l : Ahead(l)' <=> Ahead(l)
    BY <1>12 DEF vars, Ahead
  <2> QED BY <1>4, <1>12, <2>1 DEF vars
<1> QED BY <1>5, <1>6, <1>7, <1>8, <1>9, <1>10, <1>11, <1>12 DEF Next

LEMMA InitNode == Init /\ DirectBranches => NodeInv
<1> SUFFICES ASSUME Init, DirectBranches PROVE NodeInv
  OBVIOUS
<1>1. AllShown /\ EdgesRegistered
  BY DEF Init, AllShown, EdgesRegistered
<1> QED BY <1>1, InitFlow DEF NodeInv

LEMMA AllRegistered == NodeInv => MutationsRegistered
<1> SUFFICES ASSUME NodeInv, phase = "done", NEW e \in edges, e.from.at \in reachable_locations
             PROVE  e.from \in nodes
  BY DEF MutationsRegistered
<1>1. e.from.place \in Registers(e.from.at)
  BY DEF NodeInv, EdgesRegistered, FromRegistered, reachable_locations
<1>2. Shown(e.from.at)
  BY DEF NodeInv, AllShown, Ahead
<1>3. e.from = node(e.from.place, e.from.at)
  BY DEF NodeInv, FlowInv, TypeOK, Edge, Node, node
<1> QED BY <1>1, <1>2, <1>3 DEF Shown

(***************************************************************************)
(* Every mutation an edge of the finished graph refers to has its node:    *)
(* the pass that registers nodes misses none of the mutations that the     *)
(* dataflow analysis has seen, provided branches are on places that are    *)
(* among their own aliases.                                                *)
(***************************************************************************)
THEOREM Registration == Spec /\ DirectBranches => []MutationsRegistered
<1>1. Init /\ DirectBranches /\ [][Next]_vars => []NodeInv
  BY InitNode, NodeStep, PTL
<1> QED BY <1>1, AllRegistered, PTL DEF Spec

-----------------------------------------------------------------------------
(***************************************************************************)
(* The graph: what accounts for its nodes and edges, and what is in it.    *)
(***************************************************************************)
\* The states of the second pass before and after the instruction at l.
Before(l) == [k \in Place |-> Through(l[1], l[2], k)]
After(l) == apply_mutation(Before(l), l)
Links(l) == registered(l, Before(l), After(l))

DataOf(e) ==
    \E l \in Location : \E r \in Links(l) : \E t \in tentativeness(r) :
        data_edges(r, t) \subseteq edges /\ e \in data_edges(r, t)
ControlOf(e) == \E l \in Location : \E r \in Links(l) : e \in control_edges(r, l)
ChildOf(e) == \E l \in Location : e \in child_edges(l)
EndOf(e) ==
    \E b \in Block : \E p \in Exposed : \E l \in Leaving(b, p) :
        /\ terminator(b).kind = "return"
        /\ e = [from |-> node(p, l), to |-> node(p, End), kind |-> "Data", tentative |-> FALSE]

\* An edge is one that is registered at a location, of a callee, or to the end.
Explained(e) == DataOf(e) \/ ControlOf(e) \/ ChildOf(e) \/ EndOf(e)
EdgesExplained == \A e \in edges : Explained(e)

NodeOf(n) == \E r \in Links(n.at) : n \in r.outputs /\ control_edges(r, n.at) \subseteq edges
NodesExplained == \A n \in nodes : n.at \in Location => NodeOf(n)

Linked(l) ==
    /\ child_edges(l) \subseteq edges
    /\ \A r \in Links(l) : \E t \in BOOLEAN : data_edges(r, t) \subseteq edges
AllLinked == phase # "iterate" => \A l \in reachable_locations : Ahead(l) \/ Linked(l)

EndEdges(b) ==
    UNION {{[from |-> node(p, l), to |-> node(p, End),
             kind |-> "Data", tentative |-> FALSE] : l \in Leaving(b, p)} : p \in Exposed}
Returns == {b \in Block : terminator(b).kind = "return"}
\* The blocks that wait in a phase, or have begun.
Waiting == todo \cup (IF cursor = <<>> THEN {} ELSE {cursor[1]})
Returning == phase = "returns" => Waiting \subseteq Returns
AllConnected ==
    phase \in {"returns", "done", "panic"} =>
        \A b \in Returns : b \in Waiting \/ EndEdges(b) \subseteq edges

Fresh == phase = "iterate" => nodes = {} /\ edges = {}
Settled == phase \in {"done", "panic"} => todo = {} /\ cursor = <<>>

LinkInv ==
    FlowInv /\ Fresh /\ Settled /\ EdgesExplained /\ NodesExplained /\ AllLinked
    /\ Returning /\ AllConnected

-----------------------------------------------------------------------------
\* The notions that depend on the body and the fixed point alone.
LEMMA LinksKept ==
    ASSUME body' = body, entry' = entry
    PROVE  /\ \A l : Links(l)' = Links(l)
           /\ Location' = Location /\ Returns' = Returns
           /\ \A b, k : Leaving(b, k)' = Leaving(b, k)
           /\ \A r, l : control_edges(r, l)' = control_edges(r, l)
           /\ \A l : child_edges(l)' = child_edges(l)
<1>1. \A l : at(l)' = at(l)
  BY DEF at, code
<1>2. \A b, i, k : Through(b, i, k)' = Through(b, i, k)
  BY ThroughKept
<1>3. \A l : Before(l)' = Before(l)
  BY <1>2 DEF Before
<1>4. \A l : After(l)' = After(l)
  BY <1>3, BodyKept DEF After, apply_mutation
<1>5. \A l : Links(l)' = Links(l)
  BY <1>1, <1>3, <1>4 DEF Links, registered
<1>6. Location' = Location
  BY DEF Location, code
<1>7. Returns' = Returns
  BY DEF Returns, terminator, code
<1>8. \A b, k : Leaving(b, k)' = Leaving(b, k)
  BY <1>2, BodyKept DEF Leaving
<1>9. \A l : find_control_inputs(l)' = find_control_inputs(l)
  BY DEF find_control_inputs, terminator, terminator_loc, code, queued
<1>10. \A r, l : control_edges(r, l)' = control_edges(r, l)
  BY <1>9 DEF control_edges
<1>11. \A l : child_edges(l)' = child_edges(l)
  BY <1>1 DEF child_edges
<1> QED BY <1>5, <1>6, <1>7, <1>8, <1>10, <1>11

\* What is explained remains so when edges are added.
LEMMA ExplainedKept ==
    ASSUME body' = body, entry' = entry, edges \subseteq edges'
    PROVE  /\ \A e : Explained(e) => Explained(e)'
           /\ \A n : NodeOf(n) => NodeOf(n)'
           /\ \A l : Linked(l) => Linked(l)'
           /\ \A b : EndEdges(b)' = EndEdges(b)
<1>1. \A e : DataOf(e) => DataOf(e)'
  BY LinksKept DEF DataOf
<1>2. \A e : ControlOf(e) => ControlOf(e)'
  BY LinksKept DEF ControlOf
<1>3. \A e : ChildOf(e) => ChildOf(e)'
  BY LinksKept DEF ChildOf
<1>4. \A e : EndOf(e) => EndOf(e)'
  BY LinksKept DEF EndOf, Returns, terminator, code
<1>5. \A n : NodeOf(n) => NodeOf(n)'
  BY LinksKept DEF NodeOf
<1>6. \A l : Linked(l) => Linked(l)'
  BY LinksKept DEF Linked
<1>7. \A b : EndEdges(b)' = EndEdges(b)
  BY LinksKept DEF EndEdges
<1> QED BY <1>1, <1>2, <1>3, <1>4, <1>5, <1>6, <1>7 DEF Explained

\* A node that an instruction registers in the body is at its location.
LEMMA OutputsAt ==
    ASSUME body \in Bodies, NEW l \in Location, NEW s, NEW t, NEW r \in registered(l, s, t),
           NEW n \in r.outputs
    PROVE  n.at = l \/ (n.at \notin Location /\ n.at = <<l, Start>>)
<1>1. \A p : \A m \in find_outputs(p, l) : m.at = l
  BY DEF find_outputs, node
<1>2. \A u, places, outputs : link(u, places, outputs).outputs = outputs
  BY DEF link
<1>3. ASSUME NEW u, NEW M, r \in register(u, M, l) PROVE n.at = l
  BY <1>1, <1>2, <1>3 DEF register
<1>4. ASSUME r \in inlined(at(l), s, l) PROVE n.at = l \/ (n.at \notin Location /\ n.at = <<l, Start>>)
  <2>1. CASE \E p \in at(l).reads : r = link(s, <<p>>, {child(p, l, Start)})
    <3>1. \E p : n = child(p, l, Start)
      BY <1>2, <2>1
    <3>2. \A p : child(p, l, Start).at = <<l, Start>>
      BY DEF child
    <3> QED BY <3>1, <3>2, ChildNodes
  <2>2. CASE \E p \in at(l).writes : r.outputs = find_outputs(p, l)
    BY <1>1, <2>2
  <2> QED BY <1>4, <2>1, <2>2 DEF inlined
<1> QED BY <1>3, <1>4 DEF registered, at_call

\* What the second pass does at a location.
LEMMA VisitLinks ==
    ASSUME LinkInv, Visit
    PROVE  /\ edges \subseteq edges' /\ cursor \in Location
           /\ \A l : l = cursor => Linked(l)'
           /\ \A e \in edges' : Explained(e)'
           /\ \A n \in nodes' : n.at \in Location => NodeOf(n)'
<1> DEFINE l == cursor
           R == registered(l, state, state')
<1>1. body \in Bodies /\ l \in Location /\ cursor # <<>> /\ cursor = <<cursor[1], cursor[2]>>
      /\ body' = body /\ entry' = entry /\ state \in State
  BY CursorFacts DEF LinkInv, FlowInv, TypeOK, Visit, within_block, advance
<1>2. state = Before(l)
  <2>1. state = [k \in Place |-> state[k]]
    BY <1>1 DEF State
  <2> QED BY <1>1, <2>1 DEF LinkInv, FlowInv, StateRight, Before
<1>3. state' = After(l)
  BY <1>2 DEF Visit, advance, After
<1>4. R = Links(l)
  BY <1>2, <1>3 DEF Links
<1>5. nodes' = nodes \cup child_nodes(l) \cup UNION {r.outputs : r \in R}
  BY DEF Visit
<1>6. PICK t \in [R -> BOOLEAN] :
        /\ \A r \in R : t[r] \in tentativeness(r)
        /\ edges' = edges \cup child_edges(l)
                    \cup UNION {data_edges(r, t[r]) \cup control_edges(r, l) : r \in R}
  BY DEF Visit
<1> HIDE DEF R
<1>7. edges \subseteq edges'
  BY <1>6
<1>8. /\ \A h : Links(h)' = Links(h)
       /\ Location' = Location
       /\ \A r, k : control_edges(r, k)' = control_edges(r, k)
       /\ \A m : child_edges(m)' = child_edges(m)
  BY <1>1, LinksKept
<1>9. \A r \in R : data_edges(r, t[r]) \subseteq edges' /\ control_edges(r, l) \subseteq edges' /\ t[r] \in BOOLEAN
  BY <1>6
<1>10. child_edges(l) \subseteq edges'
  BY <1>6
<1>11. ASSUME NEW e \in edges' PROVE Explained(e)'
  <2>1. CASE e \in edges
    BY <1>1, <1>7, <2>1, ExplainedKept DEF LinkInv, EdgesExplained
  <2>2. CASE e \in child_edges(l)
    <3>1. ChildOf(e)'
      BY <1>1, <1>8, <2>2 DEF ChildOf
    <3> QED BY <3>1 DEF Explained
  <2>3. ASSUME NEW r \in R, e \in data_edges(r, t[r]) PROVE Explained(e)'
    <3>1. DataOf(e)'
      BY <1>1, <1>4, <1>6, <1>8, <1>9, <2>3 DEF DataOf
    <3> QED BY <3>1 DEF Explained
  <2>4. ASSUME NEW r \in R, e \in control_edges(r, l) PROVE Explained(e)'
    <3>1. ControlOf(e)'
      BY <1>1, <1>4, <1>8, <2>4 DEF ControlOf
    <3> QED BY <3>1 DEF Explained
  <2> QED BY <1>6, <2>1, <2>2, <2>3, <2>4
<1>12. ASSUME NEW n \in nodes', n.at \in Location PROVE NodeOf(n)'
  <2>1. CASE n \in nodes
    BY <1>1, <1>7, <1>12, <2>1, ExplainedKept DEF LinkInv, NodesExplained
  <2>2. CASE n \in child_nodes(l)
    BY <1>12, <2>2, ChildNodes DEF child_nodes
  <2>3. ASSUME NEW r \in R, n \in r.outputs PROVE NodeOf(n)'
    <3>1. n.at = l
      BY <1>1, <1>12, <2>3, OutputsAt DEF R
    <3> QED BY <1>4, <1>8, <1>9, <2>3, <3>1 DEF NodeOf
  <2> QED BY <1>5, <2>1, <2>2, <2>3
<1>13. ASSUME NEW k, k = cursor PROVE Linked(k)'
  BY <1>4, <1>8, <1>9, <1>10, <1>13 DEF Linked
<1> QED BY <1>1, <1>7, <1>11, <1>12, <1>13

LEMMA InitLinks == Init => LinkInv
<1> SUFFICES ASSUME Init PROVE LinkInv
  OBVIOUS
<1>1. FlowInv
  BY InitFlow
<1>2. phase = "iterate" /\ nodes = {} /\ edges = {}
  BY DEF Init
<1> QED BY <1>1, <1>2
  DEF LinkInv, Fresh, Settled, EdgesExplained, NodesExplained, AllLinked, Returning, AllConnected

\* A step that adds neither nodes nor edges after the fixed point.
LEMMA QuietLinks ==
    ASSUME LinkInv, FlowInv', body' = body, entry' = entry, nodes' = nodes, edges' = edges
    PROVE  EdgesExplained' /\ NodesExplained' /\ (\A l : Linked(l) => Linked(l)')
           /\ reachable_locations' = reachable_locations /\ Returns' = Returns
           /\ \A b : EndEdges(b)' = EndEdges(b)
<1>1. EdgesExplained'
  BY ExplainedKept DEF LinkInv, EdgesExplained
<1>2. NodesExplained'
  BY ExplainedKept, LinksKept DEF LinkInv, NodesExplained
<1> QED BY <1>1, <1>2, ExplainedKept, LinksKept, RegistersKept

LEMMA LinkStep == LinkInv /\ [Next]_vars => LinkInv'
<1> SUFFICES ASSUME LinkInv, [Next]_vars PROVE LinkInv'
  OBVIOUS
<1>1. FlowInv /\ FlowInv' /\ TypeOK /\ TypeOK'
  BY FlowStep DEF LinkInv, FlowInv
<1>2. body' = body
  BY DEF Next, Begin, Apply, Propagate, Visit, Visited, ConnectEnd, NextPhase, advance, vars
<1>3. ASSUME entry' = entry, nodes' = nodes, edges' = edges, phase' = phase, Waiting' = Waiting,
             \A l \in reachable_locations : Ahead(l) => Ahead(l)', phase \notin {"done", "panic"}
      PROVE  LinkInv'
  <2>1. EdgesExplained' /\ NodesExplained' /\ (\A l : Linked(l) => Linked(l)')
        /\ reachable_locations' = reachable_locations /\ Returns' = Returns
        /\ \A b : EndEdges(b)' = EndEdges(b)
    BY <1>1, <1>2, <1>3, QuietLinks
  <2>2. AllLinked'
    BY <1>3, <2>1 DEF LinkInv, AllLinked
  <2>3. Returning' /\ AllConnected'
    BY <1>3, <2>1 DEF LinkInv, Returning, AllConnected
  <2>4. Fresh' /\ Settled'
    BY <1>3 DEF LinkInv, Fresh, Settled
  <2> QED BY <1>1, <2>1, <2>2, <2>3, <2>4 DEF LinkInv
<1>4. ASSUME NEW b \in Block, Begin(b) PROVE LinkInv'
  <2>1. /\ phase' = phase /\ cursor = <<>> /\ cursor' = <<b, 1>> /\ cursor' # <<>>
        /\ b \in todo /\ todo' = todo \ {b} /\ cursor'[1] = b
    BY <1>4 DEF Begin
  <2>2. Waiting' = Waiting
    BY <2>1 DEF Waiting
  <2>3. ASSUME NEW l \in reachable_locations, Ahead(l) PROVE Ahead(l)'
    <3>1. l[1] \in todo
      BY <2>1, <2>3 DEF Ahead
    <3>2. l[2] >= 1
      BY <1>1, LocationFacts DEF reachable_locations, TypeOK
    <3> QED BY <2>1, <2>3, <3>1, <3>2 DEF Ahead
  <2>4. phase \notin {"done", "panic"}
    BY <2>1 DEF LinkInv, Settled
  <2> QED BY <1>3, <1>4, <2>1, <2>2, <2>3, <2>4 DEF Begin
<1>5. CASE Apply
  <2>1. Waiting' = Waiting
    BY <1>5 DEF Apply, advance, within_block, Waiting
  <2>2. \A l \in reachable_locations : Ahead(l) => Ahead(l)'
    BY <1>5 DEF Apply, Ahead
  <2> QED BY <1>3, <1>5, <2>1, <2>2 DEF Apply, advance
<1>6. CASE Propagate
  <2>1. phase = "iterate" /\ phase' = "iterate" /\ nodes' = nodes /\ edges' = edges
    BY <1>6 DEF Propagate
  <2>2. nodes' = {} /\ edges' = {}
    BY <2>1 DEF LinkInv, Fresh
  <2> QED BY <1>1, <2>1, <2>2
    DEF LinkInv, Fresh, Settled, EdgesExplained, NodesExplained, AllLinked, Returning, AllConnected
<1>7. CASE Visit
  <2>1. /\ cursor # <<>> /\ cursor' = <<cursor[1], cursor[2] + 1>> /\ cursor' # <<>>
        /\ phase = "visit" /\ phase' = "visit" /\ todo' = todo /\ entry' = entry
    BY <1>7 DEF Visit, within_block, advance
  <2>2. cursor = <<cursor[1], cursor[2]>> /\ cursor[2] \in Nat
    BY <1>1, <2>1, CursorFacts, CodeFacts DEF TypeOK
  <2>3. EdgesExplained' /\ NodesExplained'
    <3>1. EdgesExplained'
      BY <1>7, VisitLinks DEF EdgesExplained
    <3>2. Location' = Location
      BY <1>2, <2>1, LinksKept
    <3>3. NodesExplained'
      BY <1>7, <3>2, VisitLinks DEF NodesExplained
    <3> QED BY <3>1, <3>3
  <2>4. ASSUME NEW l \in reachable_locations PROVE Ahead(l)' \/ Linked(l)'
    <3>1. Linked(l) => Linked(l)'
      BY <1>2, <1>7, <2>1, VisitLinks, ExplainedKept
    <3>2. l = <<l[1], l[2]>> /\ l[2] \in Nat
      BY <1>1, LocationFacts, CodeFacts DEF reachable_locations, TypeOK
    <3>3. CASE l = cursor
      BY <1>7, <3>3, VisitLinks
    <3>4. CASE l # cursor /\ Ahead(l)
      <4>1. l[1] \in todo \/ (cursor[1] = l[1] /\ l[2] >= cursor[2])
        BY <3>4 DEF Ahead
      <4>2. \A i, j \in Nat : i >= j /\ i # j => i >= j + 1
        OBVIOUS
      <4>3. cursor[1] = l[1] /\ l[2] >= cursor[2] => l[2] >= cursor[2] + 1
        BY <2>2, <3>2, <3>4, <4>2
      <4> QED BY <2>1, <4>1, <4>3 DEF Ahead
    <3>5. Ahead(l) \/ Linked(l)
      BY <2>1 DEF LinkInv, AllLinked
    <3> QED BY <3>1, <3>3, <3>4, <3>5
  <2>5. AllLinked'
    BY <1>2, <2>4, RegistersKept DEF AllLinked
  <2>6. Fresh' /\ Settled' /\ Returning' /\ AllConnected'
    BY <2>1 DEF Fresh, Settled, Returning, AllConnected
  <2> QED BY <1>1, <2>3, <2>5, <2>6 DEF LinkInv
<1>8. CASE Visited
  <2>1. /\ phase' = phase /\ phase = "visit" /\ todo' = todo /\ past_block /\ entry' = entry
        /\ cursor' = <<>> /\ nodes' = nodes /\ edges' = edges
    BY <1>8 DEF Visited
  <2>2. ASSUME NEW l \in reachable_locations, Ahead(l) PROVE Ahead(l)'
    <3>1. l[1] \in Block /\ l[2] \in 1 .. Len(code(l[1])) /\ Len(code(l[1])) \in Nat
      BY <1>1, LocationFacts, CodeFacts DEF reachable_locations, TypeOK
    <3>2. \A n \in Nat : \A i \in 1 .. n : ~(i >= n + 1)
      OBVIOUS
    <3>3. ~(cursor # <<>> /\ cursor[1] = l[1] /\ l[2] >= cursor[2])
      BY <1>1, <2>1, <3>1, <3>2, CursorFacts DEF past_block
    <3> QED BY <2>1, <2>2, <3>3 DEF Ahead
  <2>3. EdgesExplained' /\ NodesExplained' /\ (\A l : Linked(l) => Linked(l)')
        /\ reachable_locations' = reachable_locations
    BY <1>1, <1>2, <2>1, QuietLinks
  <2>4. AllLinked'
    BY <2>1, <2>2, <2>3 DEF LinkInv, AllLinked
  <2>5. Fresh' /\ Settled' /\ Returning' /\ AllConnected'
    BY <2>1 DEF Fresh, Settled, Returning, AllConnected
  <2> QED BY <1>1, <2>3, <2>4, <2>5 DEF LinkInv
<1>9. CASE ConnectEnd
  <2> DEFINE b == cursor[1]
  <2>1. /\ nodes' = nodes /\ phase = "returns" /\ phase' = phase /\ past_block /\ entry' = entry
        /\ cursor # <<>> /\ cursor' = <<>> /\ todo' = todo
        /\ edges' = edges \cup
              UNION {{[from |-> node(p, l), to |-> node(p, End),
                       kind |-> "Data", tentative |-> FALSE] : l \in state[p]} : p \in Exposed}
    BY <1>9 DEF ConnectEnd, past_block
  <2>2. b \in Block /\ cursor[2] = Len(code(b)) + 1
    BY <1>1, <2>1, CursorFacts
  <2>3. \A p \in Exposed : state[p] = Leaving(b, p)
    BY <2>1, <2>2, PlacesAssumption DEF LinkInv, FlowInv, StateRight, Leaving
  <2>4. edges' = edges \cup EndEdges(b)
    BY <2>1, <2>3 DEF EndEdges
  <2>5. b \in Returns
    BY <2>1 DEF LinkInv, Returning, Waiting
  <2>6. EdgesExplained'
    <3> SUFFICES ASSUME NEW e \in edges' PROVE Explained(e)'
      BY DEF EdgesExplained
    <3>1. CASE e \in edges
      BY <1>2, <2>1, <3>1, ExplainedKept DEF LinkInv, EdgesExplained
    <3>2. CASE e \in EndEdges(b)
      <4>1. PICK p \in Exposed : \E l \in Leaving(b, p) :
              e = [from |-> node(p, l), to |-> node(p, End), kind |-> "Data", tentative |-> FALSE]
        BY <3>2 DEF EndEdges
      <4>2. \A k, q : Leaving(k, q)' = Leaving(k, q)
        BY <1>2, <2>1, LinksKept
      <4>3. \A k \in Block : k \in Returns => (terminator(k).kind = "return")'
        BY <1>2 DEF Returns, terminator, code
      <4> HIDE DEF b
      <4>4. EndOf(e)'
        BY <2>2, <2>5, <4>1, <4>2, <4>3 DEF EndOf
      <4> QED BY <4>4 DEF Explained
    <3> QED BY <2>4, <3>1, <3>2
  <2>7. NodesExplained' /\ \A k : Linked(k) => Linked(k)'
    BY <1>2, <2>1, ExplainedKept, LinksKept DEF LinkInv, NodesExplained
  <2>8. AllLinked'
    BY <1>2, <2>1, <2>7, RegistersKept DEF LinkInv, AllLinked, Ahead
  <2>9. Returning'
    BY <1>2, <2>1, LinksKept DEF LinkInv, Returning, Waiting
  <2>10. AllConnected'
    <3>1. \A k : EndEdges(k)' = EndEdges(k)
      BY <1>2, <2>1, ExplainedKept
    <3>2. Waiting \subseteq Waiting' \cup {b}
      BY <2>1 DEF Waiting
    <3>3. Returns' = Returns
      BY <1>2, <2>1, LinksKept
    <3>4. \A k \in Returns : k \in Waiting \/ EndEdges(k) \subseteq edges
      BY <2>1 DEF LinkInv, AllConnected
    <3> SUFFICES ASSUME NEW k \in Returns, k \notin Waiting' PROVE EndEdges(k) \subseteq edges'
      BY <3>1, <3>3 DEF AllConnected
    <3>5. k = b \/ EndEdges(k) \subseteq edges
      BY <3>2, <3>4
    <3> QED BY <2>4, <3>5
  <2>11. Fresh' /\ Settled'
    BY <2>1 DEF Fresh, Settled
  <2> QED BY <1>1, <2>6, <2>7, <2>8, <2>9, <2>10, <2>11 DEF LinkInv
<1>10. CASE NextPhase
  <2>1. /\ nodes' = nodes /\ edges' = edges /\ todo = {} /\ cursor = <<>> /\ cursor' = <<>> /\ entry' = entry
        /\ phase = "iterate" => phase' = "visit" /\ todo' = reachable_blocks
        /\ phase = "visit" => phase' = "returns" /\ todo' = Returns
        /\ phase = "returns" => phase' \in {"done", "panic"} /\ todo' = {}
        /\ phase \in {"iterate", "visit", "returns"}
    BY <1>10 DEF NextPhase, Returns
  <2>2. EdgesExplained' /\ NodesExplained' /\ (\A l : Linked(l) => Linked(l)')
        /\ reachable_locations' = reachable_locations /\ Returns' = Returns
        /\ \A b : EndEdges(b)' = EndEdges(b)
    BY <1>1, <1>2, <2>1, QuietLinks
  <2>3. AllLinked'
    <3> SUFFICES ASSUME NEW l \in reachable_locations PROVE Ahead(l)' \/ Linked(l)'
      BY <2>2 DEF AllLinked
    <3>1. CASE phase = "iterate"
      BY <2>1, <3>1 DEF Ahead, reachable_locations
    <3>2. CASE phase # "iterate"
      BY <2>1, <2>2, <3>2 DEF Ahead, LinkInv, AllLinked
    <3> QED BY <3>1, <3>2
  <2>4. Fresh' /\ Settled'
    BY <2>1 DEF Fresh, Settled
  <2>5. Waiting = {} /\ Waiting' = todo'
    BY <2>1 DEF Waiting
  <2>6. Returning'
    BY <2>1, <2>2, <2>5 DEF Returning
  <2>7. AllConnected'
    <3>1. CASE phase = "iterate"
      BY <2>1, <3>1 DEF AllConnected
    <3>2. CASE phase = "visit"
      BY <2>1, <2>2, <2>5, <3>2 DEF AllConnected
    <3>3. CASE phase = "returns"
      BY <2>1, <2>2, <2>5, <3>3 DEF LinkInv, AllConnected
    <3> QED BY <2>1, <3>1, <3>2, <3>3
  <2> QED BY <1>1, <2>2, <2>3, <2>4, <2>6, <2>7 DEF LinkInv
<1>11. CASE UNCHANGED vars
  <2>1. \A l : Ahead(l)' <=> Ahead(l)
    BY <1>11 DEF vars, Ahead
  <2>2. Waiting' = Waiting
    BY <1>11 DEF vars, Waiting
  <2>3. EdgesExplained' /\ NodesExplained' /\ (\A l : Linked(l) => Linked(l)')
        /\ reachable_locations' = reachable_locations /\ Returns' = Returns
        /\ \A b : EndEdges(b)' = EndEdges(b)
    BY <1>1, <1>2, <1>11, QuietLinks DEF vars
  <2>4. AllLinked'
    BY <1>11, <2>1, <2>3 DEF LinkInv, AllLinked, vars
  <2>5. Returning' /\ AllConnected'
    BY <1>11, <2>2, <2>3 DEF LinkInv, Returning, AllConnected, vars
  <2>6. Fresh' /\ Settled'
    BY <1>11 DEF LinkInv, Fresh, Settled, vars
  <2> QED BY <1>1, <2>3, <2>4, <2>5, <2>6 DEF LinkInv
<1> QED BY <1>4, <1>5, <1>6, <1>7, <1>8, <1>9, <1>10, <1>11 DEF Next

LEMMA LinkInvariance == Spec => []LinkInv
  BY InitLinks, LinkStep, PTL DEF Spec

-----------------------------------------------------------------------------
(***************************************************************************)
(* Tentative edges.                                                        *)
(***************************************************************************)
LEMMA HeadsFacts ==
    ASSUME NEW l, NEW s, NEW t, NEW r \in registered(l, s, t)
    PROVE  r.heads \subseteq r.inputs
<1>1. ASSUME NEW u, NEW places, NEW outputs
      PROVE  link(u, places, outputs).heads \subseteq link(u, places, outputs).inputs
  <2> DEFINE found == [i \in DOMAIN places |-> find_data_inputs(u, places[i])]
  <2>1. link(u, places, outputs) =
          [inputs |-> UNION {found[i] : i \in DOMAIN places},
           heads |-> UNION {found[i] : i \in {i \in DOMAIN places :
                          found[i] # {} /\ \A j \in 1 .. i - 1 : found[j] = {}}},
           outputs |-> outputs]
    BY DEF link
  <2> HIDE DEF found
  <2> QED BY <2>1
<1>2. ASSUME NEW u, NEW M, r \in register(u, M, l) PROVE r.heads \subseteq r.inputs
  BY <1>1, <1>2 DEF register
<1>3. ASSUME r \in inlined(at(l), s, l) PROVE r.heads \subseteq r.inputs
  <2>1. CASE \E p \in at(l).reads : r = link(s, <<p>>, {child(p, l, Start)})
    BY <1>1, <2>1
  <2>2. CASE r.heads = r.inputs
    BY <2>2
  <2>3. (\E p \in at(l).reads : r = link(s, <<p>>, {child(p, l, Start)})) \/ r.heads = r.inputs
    BY <1>3 DEF inlined
  <2> QED BY <2>1, <2>2, <2>3
<1> QED BY <1>2, <1>3 DEF registered, at_call

\* Each edge between an input and an output is a data edge.
LEMMA DataEdges ==
    ASSUME NEW r, NEW t, data_edges(r, t) \subseteq edges, NEW n \in r.inputs, NEW o \in r.outputs
    PROVE  \E e \in data : e.from = n /\ e.to = o /\ e.tentative = t
<1> DEFINE e == [from |-> n, to |-> o, kind |-> "Data", tentative |-> t]
<1>1. e \in data_edges(r, t) /\ e.from = n /\ e.to = o /\ e.kind = "Data" /\ e.tentative = t
  BY DEF data_edges
<1>2. e \in data
  BY <1>1 DEF data
<1> QED BY <1>1, <1>2

LEMMA TentativeOverlap ==
    ASSUME LinkInv, NEW e \in edges, e.tentative
    PROVE  \E f, g \in data : f.to = e.to /\ g.to = e.to /\ f.from # g.from /\ overlap(f, g)
<1>1. Explained(e)
  BY DEF LinkInv, EdgesExplained
<1>2. ~ControlOf(e) /\ ~ChildOf(e) /\ ~EndOf(e)
  BY DEF ControlOf, ChildOf, EndOf, control_edges, child_edges
<1>3. PICK l \in Location : \E r \in Links(l) : \E t \in tentativeness(r) :
        data_edges(r, t) \subseteq edges /\ e \in data_edges(r, t)
  BY <1>1, <1>2 DEF Explained, DataOf
<1>4. PICK r \in Links(l) : \E t \in tentativeness(r) :
        data_edges(r, t) \subseteq edges /\ e \in data_edges(r, t)
  BY <1>3
<1>5. PICK t \in tentativeness(r) : data_edges(r, t) \subseteq edges /\ e \in data_edges(r, t)
  BY <1>4
<1>6. PICK n \in r.inputs, o \in r.outputs :
        e = [from |-> n, to |-> o, kind |-> "Data", tentative |-> t]
  BY <1>5 DEF data_edges
<1>7. e.to = o /\ t /\ r.inputs # {}
  BY <1>6
<1>8. PICK x \in r.heads : t = \E y \in r.inputs \ {x} : <<x.place, y.place>> \notin Distinct
  BY <1>7 DEF tentativeness
<1>9. PICK y \in r.inputs \ {x} : <<x.place, y.place>> \notin Distinct
  BY <1>7, <1>8
<1>10. x \in r.inputs
  BY HeadsFacts DEF Links
<1>11. PICK f \in data : f.from = x /\ f.to = o
  BY <1>5, <1>10, DataEdges
<1>12. PICK g \in data : g.from = y /\ g.to = o
  BY <1>5, <1>9, DataEdges
<1> QED BY <1>7, <1>9, <1>11, <1>12 DEF overlap

\* The data edges to a node of a statement with one mutation leave from the
\* inputs of that mutation.
LEMMA InputsOf ==
    ASSUME LinkInv, NEW n, NEW e \in inputs_of(n)
    PROVE  \E r, t : /\ Links(n.at) = {r} /\ t \in tentativeness(r) /\ data_edges(r, t) \subseteq edges
                     /\ e \in data_edges(r, t) /\ e.to = n /\ e.tentative = t
<1>1. /\ n.at \in Location /\ at(n.at).kind = "statement" /\ (\A m, o \in at(n.at).mutations : m = o)
      /\ e \in edges /\ e.kind = "Data" /\ e.to = n /\ body \in Bodies
  BY DEF inputs_of, data, LinkInv, FlowInv, TypeOK
<1>2. Explained(e) /\ ~ControlOf(e)
  BY <1>1 DEF LinkInv, EdgesExplained, ControlOf, control_edges
<1>3. ~ChildOf(e)
  <2> SUFFICES ASSUME NEW l \in Location, e \in child_edges(l) PROVE FALSE
    BY DEF ChildOf
  <2>1. \E p : e.to = child(p, l, End)
    BY DEF child_edges
  <2> QED BY <1>1, <2>1, ChildNodes
<1>4. ~EndOf(e)
  BY <1>1, Start_End DEF EndOf, node
<1>5. PICK l \in Location : \E r \in Links(l) : \E t \in tentativeness(r) :
        data_edges(r, t) \subseteq edges /\ e \in data_edges(r, t)
  BY <1>2, <1>3, <1>4 DEF Explained, DataOf
<1>6. PICK r \in Links(l) : \E t \in tentativeness(r) :
        data_edges(r, t) \subseteq edges /\ e \in data_edges(r, t)
  BY <1>5
<1>7. PICK t \in tentativeness(r) : data_edges(r, t) \subseteq edges /\ e \in data_edges(r, t)
  BY <1>6
<1>8. e.to \in r.outputs /\ e.tentative = t
  BY <1>7 DEF data_edges
<1>9. l = n.at
  BY <1>1, <1>8, OutputsAt DEF Links
<1>10. Links(l) = register(Before(l), at(l).mutations, l)
  BY <1>1, <1>9 DEF Links, registered
<1>11. \A p, q \in Links(l) : p = q
  BY <1>1, <1>9, <1>10 DEF register
<1>12. Links(l) = {r}
  BY <1>7, <1>11
<1> QED BY <1>1, <1>7, <1>8, <1>9, <1>12

\* Two of the inputs of a node are told apart by nothing.
LEMMA TentativeInputs ==
    ASSUME LinkInv, NEW n,
           \A e, f \in inputs_of(n) :
               /\ Projects(e.from.place, f.from.place) \/ Projects(f.from.place, e.from.place)
               /\ ~is_direct_deref(e.from.place, f.from.place),
           Cardinality({e.from : e \in inputs_of(n)}) > 1, NEW e \in inputs_of(n)
    PROVE  e.tentative
<1> DEFINE I == inputs_of(n)
<1>1. PICK r : \E t : /\ Links(n.at) = {r} /\ t \in tentativeness(r) /\ data_edges(r, t) \subseteq edges
                     /\ e \in data_edges(r, t) /\ e.to = n /\ e.tentative = t
  BY InputsOf
<1>2. PICK t : /\ Links(n.at) = {r} /\ t \in tentativeness(r) /\ data_edges(r, t) \subseteq edges
               /\ e \in data_edges(r, t) /\ e.to = n /\ e.tentative = t
  BY <1>1
<1>3. \A f \in I : f.from \in r.inputs
  <2> SUFFICES ASSUME NEW f \in I PROVE f.from \in r.inputs
    OBVIOUS
  <2>1. \E q, u : Links(n.at) = {q} /\ f \in data_edges(q, u)
    BY InputsOf
  <2>2. \E u : f \in data_edges(r, u)
    BY <1>2, <2>1
  <2> QED BY <2>2 DEF data_edges
<1>4. r.inputs # {} /\ n \in r.outputs
  BY <1>2 DEF data_edges
<1>5. \A m \in r.inputs : \E f \in I : f.from = m
  <2> SUFFICES ASSUME NEW m \in r.inputs PROVE \E f \in I : f.from = m
    OBVIOUS
  <2>1. PICK f \in data : f.from = m /\ f.to = n
    BY <1>2, <1>4, DataEdges
  <2> QED BY <2>1 DEF inputs_of
<1>6. PICK f, g \in I : f.from # g.from
  <2> SUFFICES ASSUME \A f, g \in I : f.from = g.from PROVE FALSE
    OBVIOUS
  <2> DEFINE F == {f.from : f \in I}
  <2>1. F = {e.from}
    OBVIOUS
  <2>2. Cardinality(F) = 1
    BY <2>1, FS_Singleton
  <2> QED BY <2>2
<1>7. \A i, j \in I : <<i.from.place, j.from.place>> \notin Distinct
  <2> SUFFICES ASSUME NEW i \in I, NEW j \in I PROVE ~places_distinct(i.from.place, j.from.place)
    BY DEF Distinct
  <2>1. ~is_direct_deref(i.from.place, j.from.place)
    OBVIOUS
  <2> QED BY <2>1 DEF places_distinct, i_elem, j_elem
<1>8. \A x \in r.heads : \E y \in r.inputs \ {x} : <<x.place, y.place>> \notin Distinct
  <2> SUFFICES ASSUME NEW x \in r.heads
               PROVE  \E y \in r.inputs \ {x} : <<x.place, y.place>> \notin Distinct
    OBVIOUS
  <2>1. x \in r.inputs
    <3>1. r \in registered(n.at, Before(n.at), After(n.at))
      BY <1>2 DEF Links
    <3> QED BY <3>1, HeadsFacts
  <2>2. PICK h \in I : h.from = x
    BY <1>5, <2>1
  <2>3. CASE f.from # x
    BY <1>3, <1>7, <2>2, <2>3
  <2>4. CASE g.from # x
    BY <1>3, <1>7, <2>2, <2>4
  <2> QED BY <1>6, <2>3, <2>4
<1>9. PICK x \in r.heads : t = \E y \in r.inputs \ {x} : <<x.place, y.place>> \notin Distinct
  BY <1>2, <1>4 DEF tentativeness
<1>10. t = TRUE
  BY <1>8, <1>9
<1> QED BY <1>2, <1>10

(***************************************************************************)
(* Edges are tentative where a node has inputs that cannot be told apart,  *)
(* and only there: always of the statements with one mutation whose inputs *)
(* are all the same place or parts of each other, whichever input the loop *)
(* over them starts with.                                                  *)
(***************************************************************************)
THEOREM TentativenessFound == Spec => []TentativeRight
<1>1. LinkInv => TentativeRight
  <2> SUFFICES ASSUME LinkInv PROVE TentativeRight
    OBVIOUS
  <2>1. \A e \in edges : e.tentative =>
          \E f, g \in data : f.to = e.to /\ g.to = e.to /\ f.from # g.from /\ overlap(f, g)
    BY TentativeOverlap
  <2>2. phase = "done" =>
          \A n \in nodes :
              (\A e, f \in inputs_of(n) :
                  /\ Projects(e.from.place, f.from.place) \/ Projects(f.from.place, e.from.place)
                  /\ ~is_direct_deref(e.from.place, f.from.place))
              /\ Cardinality({e.from : e \in inputs_of(n)}) > 1
              => \A e \in inputs_of(n) : e.tentative
    BY TentativeInputs
  <2> QED BY <2>1, <2>2 DEF TentativeRight
<1> QED BY <1>1, LinkInvariance, PTL

-----------------------------------------------------------------------------
(***************************************************************************)
(* Data edges leave from the most recent mutations.                        *)
(***************************************************************************)
\* Points, and the values that may be at them.
LEMMA PointFacts ==
    ASSUME body \in Bodies, NEW b \in Block, NEW i \in 1 .. Len(code(b)) + 1
    PROVE  /\ <<b, i>> \in Point
           /\ is_location(<<b, i>>) <=> i \in 1 .. Len(code(b))
           /\ is_location(<<b, i>>) => <<b, i>> \in Location /\ <<b, i + 1>> \in Point
                                       /\ successors(<<b, i>>) = {<<b, i + 1>>}
           /\ ~is_location(<<b, i>>) => i = Len(code(b)) + 1
                /\ successors(<<b, i>>) = {<<c, 1>> : c \in Successors(Block, body.cfg, b)}
           /\ successors(<<b, i>>) \subseteq Point
<1>1. <<b, i>> \in Point
  BY DEF Point
<1>2. Len(code(b)) \in Nat /\ i \in Nat
  BY CodeFacts
<1>3. is_location(<<b, i>>) <=> i <= Len(code(b))
  BY DEF is_location
<1>4. i <= Len(code(b)) <=> i \in 1 .. Len(code(b))
  BY <1>2
<1>5. i <= Len(code(b)) => i + 1 \in 1 .. Len(code(b)) + 1
  BY <1>2
<1>6. ~(i <= Len(code(b))) => i = Len(code(b)) + 1
  BY <1>2
<1>7. \A c \in Block : <<c, 1>> \in Point
  <2> SUFFICES ASSUME NEW c \in Block PROVE 1 \in 1 .. Len(code(c)) + 1
    BY DEF Point
  <2>1. Len(code(c)) \in Nat
    BY CodeFacts
  <2> QED BY <2>1
<1>8. is_location(<<b, i>>) => <<b, i>> \in Location /\ <<b, i + 1>> \in Point
                               /\ successors(<<b, i>>) = {<<b, i + 1>>}
  BY <1>3, <1>4, <1>5 DEF Location, Point, successors, behind
<1>9. ~is_location(<<b, i>>) => successors(<<b, i>>) = {<<c, 1>> : c \in Successors(Block, body.cfg, b)}
  BY DEF successors
<1>10. successors(<<b, i>>) \subseteq Point
  BY <1>7, <1>8, <1>9 DEF Successors
<1> QED BY <1>1, <1>3, <1>4, <1>6, <1>8, <1>9, <1>10

LEMMA PointParts ==
    ASSUME body \in Bodies, NEW pt \in Point
    PROVE  pt = <<pt[1], pt[2]>> /\ pt[1] \in Block /\ pt[2] \in 1 .. Len(code(pt[1])) + 1
<1>1. PICK b \in Block : pt \in {b} \X (1 .. Len(code(b)) + 1)
  BY DEF Point
<1> QED BY <1>1

LEMMA FinitePoints ==
    ASSUME body \in Bodies
    PROVE  IsFiniteSet(Point) /\ IsFiniteSet(Location) /\ IsFiniteSet(Value)
<1>1. ASSUME NEW b \in Block
      PROVE  IsFiniteSet({b} \X (1 .. Len(code(b)) + 1)) /\ IsFiniteSet({b} \X (1 .. Len(code(b))))
  <2>1. Len(code(b)) \in Nat /\ Len(code(b)) + 1 \in Nat
    BY CodeFacts
  <2>2. IsFiniteSet(1 .. Len(code(b)) + 1) /\ IsFiniteSet(1 .. Len(code(b)))
    BY <2>1, FS_Interval
  <2>3. IsFiniteSet({b})
    BY FS_Singleton
  <2> QED BY <2>2, <2>3, FS_Product
<1> DEFINE P(b) == {b} \X (1 .. Len(code(b)) + 1)
           L(b) == {b} \X (1 .. Len(code(b)))
<1>2. IsFiniteSet({P(b) : b \in Block}) /\ IsFiniteSet({L(b) : b \in Block})
  <2> DEFINE p == [b \in Block |-> P(b)]
             l == [b \in Block |-> L(b)]
  <2>1. {P(b) : b \in Block} = {p[b] : b \in Block} /\ {L(b) : b \in Block} = {l[b] : b \in Block}
    OBVIOUS
  <2> HIDE DEF P, L, p, l
  <2>2. IsFiniteSet({p[b] : b \in Block})
    BY FiniteAssumption, FiniteImage
  <2>3. IsFiniteSet({l[b] : b \in Block})
    BY FiniteAssumption, FiniteImage
  <2> QED BY <2>1, <2>2, <2>3, Zenon
<1>3. \A b \in Block : IsFiniteSet(P(b)) /\ IsFiniteSet(L(b))
  BY <1>1
<1>4. Point = UNION {P(b) : b \in Block} /\ Location = UNION {L(b) : b \in Block}
  BY DEF Point, Location
<1> HIDE DEF P, L
<1>5. IsFiniteSet(Point) /\ IsFiniteSet(Location)
  <2> DEFINE PP == {P(b) : b \in Block}
             LL == {L(b) : b \in Block}
  <2>1. (\A T \in PP : IsFiniteSet(T)) /\ (\A T \in LL : IsFiniteSet(T))
    BY <1>3
  <2>2. IsFiniteSet(PP) /\ IsFiniteSet(LL)
    BY <1>2
  <2>3. Point = UNION PP /\ Location = UNION LL
    BY <1>4
  <2> HIDE DEF PP, LL
  <2> QED BY <2>1, <2>2, <2>3, FS_UNION
<1>6. IsFiniteSet(Value)
  BY <1>5, FiniteAssumption, FS_Product DEF Value
<1> QED BY <1>5, <1>6

\* What a value kept comes to.
KeepRel == UNION {{v} \X keep(v) : v \in Value}

LEMMA KeptIs ==
    ASSUME body \in Bodies, NEW V \in SUBSET Value
    PROVE  /\ Kept(V) = From(Value, KeepRel, V)
           /\ V \subseteq Kept(V) /\ Kept(V) \subseteq Value
           /\ \A v \in Kept(V) : keep(v) \subseteq Kept(V)
<1>1. ASSUME NEW v \in Value PROVE keep(v) \subseteq Value
  <2>1. v[1] \in Point /\ v[2] \in Place
    BY DEF Value
  <2>2. v[1] = <<v[1][1], v[1][2]>> /\ v[1][1] \in Block /\ v[1][2] \in 1 .. Len(code(v[1][1])) + 1
    BY <2>1, PointParts
  <2>3. successors(v[1]) \subseteq Point
    BY <2>2, PointFacts
  <2> QED BY <2>1, <2>3 DEF keep, Value
<1>2. \A p \in KeepRel : p = <<p[1], p[2]>> /\ p[2] \in Value
  BY <1>1 DEF KeepRel
<1>3. Kept(V) = ReachedFrom(Value, KeepRel, V)
  BY DEF Kept, KeepRel
<1>4. IsFiniteSet(Value)
  BY FinitePoints
<1>5. Kept(V) = From(Value, KeepRel, V)
  <2> HIDE DEF Value, KeepRel
  <2> QED BY <1>2, <1>3, <1>4, ReachedIs
<1>6. V \subseteq Kept(V) /\ Kept(V) \subseteq Value /\ ClosedUnder(Value, KeepRel, Kept(V))
  BY <1>2, <1>5, FromFacts
<1>7. ASSUME NEW v \in Kept(V), NEW w \in keep(v) PROVE w \in Kept(V)
  <2>1. v \in Value /\ w \in Value
    BY <1>1, <1>6
  <2>2. <<v, w>> \in KeepRel
    BY <2>1 DEF KeepRel
  <2> QED BY <1>6, <2>1, <2>2 DEF ClosedUnder
<1> QED BY <1>5, <1>6, <1>7

\* From the end of a block a value goes on to its successors.
LEMMA EndPoint ==
    ASSUME body \in Bodies, NEW b \in Block
    PROVE  /\ <<b, Len(code(b)) + 1>> \in Point /\ ~is_location(<<b, Len(code(b)) + 1>>)
           /\ successors(<<b, Len(code(b)) + 1>>) = {<<c, 1>> : c \in Successors(Block, body.cfg, b)}
<1> DEFINE n == Len(code(b)) + 1
<1>1. n \in 1 .. n /\ n \notin 1 .. Len(code(b))
  <2>1. Len(code(b)) \in Nat
    BY CodeFacts
  <2> QED BY <2>1
<1>2. n \in 1 .. Len(code(b)) + 1
  BY <1>1
<1> HIDE DEF n
<1>3. <<b, n>> \in Point /\ ~is_location(<<b, n>>)
      /\ successors(<<b, n>>) = {<<c, 1>> : c \in Successors(Block, body.cfg, b)}
  BY <1>1, <1>2, PointFacts
<1> QED BY <1>3 DEF n

LEMMA KeptFrom ==
    ASSUME body \in Bodies, NEW pt \in Point, NEW k \in Place
    PROVE  /\ Kept({<<pt, k>>}) \subseteq Value /\ <<pt, k>> \in Kept({<<pt, k>>})
           /\ \A v \in Kept({<<pt, k>>}) : keep(v) \subseteq Kept({<<pt, k>>})
<1> DEFINE V == {<<pt, k>>}
<1>1. V \in SUBSET Value /\ <<pt, k>> \in V
  BY DEF Value
<1> HIDE DEF V
<1>2. /\ Kept(V) \subseteq Value /\ <<pt, k>> \in Kept(V)
      /\ \A v \in Kept(V) : keep(v) \subseteq Kept(V)
  BY <1>1, KeptIs
<1> QED BY <1>2 DEF V

\* A value that no instruction between two points of a block mutates is kept.
LEMMA KeepWalk ==
    ASSUME body \in Bodies, NEW U, \A v \in U : keep(v) \subseteq U,
           NEW b \in Block, NEW k, NEW i \in 1 .. Len(code(b)) + 1, NEW j \in 1 .. Len(code(b)) + 1,
           i <= j, \A m \in i .. j - 1 : k \notin written(<<b, m>>), <<<<b, i>>, k>> \in U
    PROVE  <<<<b, j>>, k>> \in U
<1> DEFINE S == {d \in Nat : i + d <= j => <<<<b, i + d>>, k>> \in U}
<1>1. Len(code(b)) \in Nat /\ i \in Nat /\ j \in Nat
  BY CodeFacts
<1>2. 0 \in S
  BY <1>1
<1>3. ASSUME NEW d \in Nat, d \in S PROVE d + 1 \in S
  <2> SUFFICES ASSUME i + (d + 1) <= j PROVE <<<<b, i + (d + 1)>>, k>> \in U
    OBVIOUS
  <2> DEFINE m == i + d
  <2>1. m \in i .. j - 1 /\ m \in 1 .. Len(code(b)) /\ m \in 1 .. Len(code(b)) + 1
        /\ m + 1 = i + (d + 1) /\ m <= j
    BY <1>1
  <2>2. <<<<b, m>>, k>> \in U
    BY <1>3, <2>1
  <2> HIDE DEF m
  <2>3. is_location(<<b, m>>) /\ successors(<<b, m>>) = {<<b, m + 1>>}
    BY <2>1, PointFacts
  <2>4. <<<<b, m + 1>>, k>> \in keep(<<<<b, m>>, k>>)
    BY <2>1, <2>3 DEF keep
  <2> QED BY <2>1, <2>2, <2>4
<1>4. Nat \subseteq S
  <2> HIDE DEF S
  <2> QED BY <1>2, <1>3, Induction
<1>5. j - i \in Nat /\ i + (j - i) = j /\ j <= j
  BY <1>1
<1> QED BY <1>4, <1>5

\* A mutation in the state of a block at a point is kept on some path to it.
LEMMA MutationKept ==
    ASSUME FlowInv, NEW b \in Block, NEW k \in Place, NEW i \in 1 .. Len(code(b)) + 1,
           NEW l \in Through(b, i, k)
    PROVE  l \in Location /\ <<<<b, i>>, k>> \in Kept({<<behind(l), k>>})
<1>1. body \in Bodies /\ Len(code(b)) \in Nat /\ i \in Nat
  BY CodeFacts DEF FlowInv, TypeOK
<1> DEFINE U == Kept({<<behind(l), k>>})
<1>2. CASE \E j \in 1 .. i - 1 : Latest(b, i, k, j) /\ l = <<b, j>>
  <2>1. PICK j \in 1 .. i - 1 : Latest(b, i, k, j) /\ l = <<b, j>>
    BY <1>2
  <2>2. j \in 1 .. Len(code(b)) /\ j + 1 \in 1 .. Len(code(b)) + 1 /\ j + 1 <= i
    BY <1>1
  <2>3. l \in Location /\ behind(l) = <<b, j + 1>> /\ behind(l) \in Point
    BY <1>1, <2>1, <2>2, CodeFacts DEF behind, Point
  <2>4. U \subseteq Value /\ <<<<b, j + 1>>, k>> \in U /\ \A v \in U : keep(v) \subseteq U
    BY <1>1, <2>3, KeptFrom
  <2>5. \A m \in j + 1 .. i - 1 : k \notin written(<<b, m>>)
    BY <2>1 DEF Latest
  <2> HIDE DEF U
  <2>6. <<<<b, i>>, k>> \in U
    BY <1>1, <2>2, <2>4, <2>5, KeepWalk
  <2> QED BY <2>3, <2>6 DEF U
<1>3. CASE Untouched(b, i, k) /\ l \in entry[b][k]
  <2>1. l \in Arriving(b, k)
    BY <1>3 DEF FlowInv, EntrySound
  <2> DEFINE c == l[1]
             j == l[2]
             n == Len(code(c))
  <2>2. l \in Location /\ last_in_block(l, k)
    BY <2>1 DEF Arriving
  <2>3. l = <<c, j>> /\ c \in Block /\ j \in 1 .. n /\ n \in Nat
    BY <1>1, <2>2, LocationFacts, CodeFacts
  <2>4. PICK d \in Successors(Block, body.cfg, c) : Reaches(Block, passing(k), d, b)
    BY <2>1 DEF Arriving
  <2>5. j + 1 \in 1 .. n + 1 /\ n + 1 \in 1 .. n + 1 /\ j + 1 <= n + 1 /\ (n + 1) - 1 = n
    BY <2>3
  <2>6. behind(l) = <<c, j + 1>> /\ behind(l) \in Point
    BY <2>3, <2>5 DEF behind, Point
  <2>7. U \subseteq Value /\ <<<<c, j + 1>>, k>> \in U /\ \A v \in U : keep(v) \subseteq U
    BY <1>1, <2>6, KeptFrom
  <2>8. \A m \in j + 1 .. n : k \notin written(<<c, m>>)
    BY <2>2 DEF last_in_block
  <2> HIDE DEF U, c, j
  <2>9. \A x \in Block : \A y \in Successors(Block, body.cfg, x) :
          <<<<x, Len(code(x)) + 1>>, k>> \in U => <<<<y, 1>>, k>> \in U
    <3> SUFFICES ASSUME NEW x \in Block, NEW y \in Successors(Block, body.cfg, x),
                        <<<<x, Len(code(x)) + 1>>, k>> \in U
                 PROVE  <<<<y, 1>>, k>> \in U
      OBVIOUS
    <3>1. ~is_location(<<x, Len(code(x)) + 1>>) /\ <<y, 1>> \in successors(<<x, Len(code(x)) + 1>>)
      BY <1>1, EndPoint
    <3>2. <<<<y, 1>>, k>> \in keep(<<<<x, Len(code(x)) + 1>>, k>>)
      BY <3>1 DEF keep
    <3> QED BY <2>7, <3>2
  <2>10. <<<<c, n + 1>>, k>> \in U
    BY <1>1, <2>3, <2>5, <2>7, <2>8, KeepWalk
  <2> DEFINE T == {x \in Block : <<<<x, 1>>, k>> \in U}
  <2>11. d \in T
    BY <2>3, <2>4, <2>9, <2>10 DEF Successors
  <2>12. ClosedUnder(Block, passing(k), T)
    <3> SUFFICES ASSUME NEW x \in T, NEW y \in Block, <<x, y>> \in passing(k) PROVE y \in T
      BY DEF ClosedUnder
    <3>1. Len(code(x)) \in Nat /\ 1 \in 1 .. Len(code(x)) + 1 /\ 1 <= Len(code(x)) + 1
          /\ Len(code(x)) + 1 \in 1 .. Len(code(x)) + 1 /\ (Len(code(x)) + 1) - 1 = Len(code(x))
      <4>1. Len(code(x)) \in Nat
        BY <1>1, CodeFacts
      <4> QED BY <4>1
    <3>2. y \in Successors(Block, body.cfg, x) /\ \A m \in 1 .. Len(code(x)) : k \notin written(<<x, m>>)
      BY DEF passing, Successors
    <3>3. <<<<x, Len(code(x)) + 1>>, k>> \in U
      BY <1>1, <2>7, <3>1, <3>2, KeepWalk
    <3> QED BY <2>9, <3>2, <3>3
  <2>13. b \in T
    <3>1. T \in SUBSET Block
      OBVIOUS
    <3> HIDE DEF T
    <3> QED BY <2>4, <2>11, <2>12, <3>1 DEF Reaches
  <2>14. 1 \in 1 .. Len(code(b)) + 1 /\ 1 <= i
    BY <1>1
  <2>15. \A m \in 1 .. i - 1 : k \notin written(<<b, m>>)
    BY <1>3 DEF Untouched
  <2>16. <<<<b, i>>, k>> \in U
    BY <1>1, <2>7, <2>13, <2>14, <2>15, KeepWalk
  <2> QED BY <2>2, <2>16 DEF U
<1> QED BY <1>2, <1>3 DEF Through

LEMMA LinkInputs ==
    ASSUME NEW s, NEW places, NEW outputs, NEW n \in link(s, places, outputs).inputs, n.at \in Location
    PROVE  n.place \in Place /\ n.at \in s[n.place]
<1>1. PICK i \in DOMAIN places : n \in find_data_inputs(s, places[i])
  BY DEF link
<1>2. \A a : node(a, Start).at = Start
  BY DEF node
<1>3. PICK k \in Place : \E l \in s[k] : n = node(k, l)
  BY <1>1, <1>2, InputsFrom, Start_End
<1> QED BY <1>3 DEF node

LEMMA RegisterInputs ==
    ASSUME NEW s, NEW M, NEW l, NEW r \in register(s, M, l), NEW n \in r.inputs, n.at \in Location
    PROVE  n.place \in Place /\ n.at \in s[n.place]
<1>1. PICK m \in M : r = link(s, m.inputs, find_outputs(m.mutated, l))
  BY DEF register
<1> QED BY <1>1, LinkInputs

\* What is registered at l reads the state before l, the second half of a call
\* that is not inlined the state after it.
LEMMA LinksInputs ==
    ASSUME body \in Bodies, NEW l \in Location, NEW r \in Links(l), NEW n \in r.inputs, n.at \in Location
    PROVE  /\ n.place \in Place
           /\ \/ n.at \in Through(l[1], l[2], n.place)
              \/ /\ n.at = l /\ at(l).kind = "call"
                 /\ \A o \in r.outputs : o.at = l
<1>1. ASSUME n.place \in Place, n.at \in Before(l)[n.place]
      PROVE  n.at \in Through(l[1], l[2], n.place)
  BY <1>1 DEF Before
<1>2. ASSUME n.place \in Place, n.at \in After(l)[n.place]
      PROVE  n.at \in Before(l)[n.place] \/ n.at = l
  BY <1>2 DEF After, apply_mutation
<1>3. ASSUME NEW M, r \in register(Before(l), M, l)
      PROVE  n.place \in Place /\ n.at \in Through(l[1], l[2], n.place)
  BY <1>1, <1>3, RegisterInputs
<1>4. ASSUME r \in inlined(at(l), Before(l), l)
      PROVE  n.place \in Place /\ n.at \in Through(l[1], l[2], n.place)
  <2>1. ASSUME NEW p, r = link(Before(l), <<p>>, {child(p, l, Start)})
        PROVE  n.place \in Place /\ n.at \in Through(l[1], l[2], n.place)
    BY <1>1, <2>1, LinkInputs
  <2>2. \A p : r.inputs # {child(p, l, End)}
    BY ChildNodes
  <2>3. \/ \E p \in at(l).reads : r = link(Before(l), <<p>>, {child(p, l, Start)})
        \/ \E p \in at(l).writes : r.inputs = {child(p, l, End)}
    BY <1>4 DEF inlined
  <2> QED BY <2>1, <2>2, <2>3
<1>5. ASSUME NEW M, r \in register(After(l), M, l), at(l).kind = "call"
      PROVE  /\ n.place \in Place
             /\ \/ n.at \in Through(l[1], l[2], n.place)
                \/ n.at = l /\ at(l).kind = "call" /\ \A o \in r.outputs : o.at = l
  <2>1. n.place \in Place /\ n.at \in After(l)[n.place]
    BY <1>5, RegisterInputs
  <2>2. \A o \in r.outputs : o.at = l
    <3>1. \E m \in M : r = link(After(l), m.inputs, find_outputs(m.mutated, l))
      BY <1>5 DEF register
    <3> QED BY <3>1 DEF link, find_outputs, node
  <2> QED BY <1>1, <1>2, <1>5, <2>1, <2>2
<1>6. ASSUME r \in at_call(at(l), Before(l), After(l), l), at(l).kind = "call"
      PROVE  /\ n.place \in Place
             /\ \/ n.at \in Through(l[1], l[2], n.place)
                \/ n.at = l /\ at(l).kind = "call" /\ \A o \in r.outputs : o.at = l
  BY <1>3, <1>5, <1>6 DEF at_call
<1> QED BY <1>3, <1>4, <1>6 DEF Links, registered

LEMMA MostRecent ==
    ASSUME LinkInv, NEW e \in data, e.from.at \in Location
    PROVE  \/ \E pt \in read_at(e) :
                 <<pt, e.from.place>> \in Kept({<<behind(e.from.at), e.from.place>>})
           \/ e.to.at = e.from.at /\ at(e.to.at).kind = "call"
<1>1. e \in edges /\ e.kind = "Data" /\ body \in Bodies /\ FlowInv
  BY DEF data, LinkInv, FlowInv, TypeOK
<1>2. Explained(e) /\ ~ControlOf(e)
  BY <1>1 DEF LinkInv, EdgesExplained, ControlOf, control_edges
<1>3. ~ChildOf(e)
  <2> SUFFICES ASSUME NEW l \in Location, e \in child_edges(l) PROVE FALSE
    BY DEF ChildOf
  <2>1. \E p : e.from = child(p, l, Start)
    BY DEF child_edges
  <2> QED BY <2>1, ChildNodes
<1>4. CASE DataOf(e)
  <2>1. PICK l \in Location : \E r \in Links(l) : \E t : e \in data_edges(r, t)
    BY <1>4 DEF DataOf
  <2>2. PICK r \in Links(l) : \E t : e \in data_edges(r, t)
    BY <2>1
  <2>3. e.from \in r.inputs /\ e.to \in r.outputs
    BY <2>2 DEF data_edges
  <2>4. e.to.at = l \/ e.to.at = <<l, Start>>
    BY <1>1, <2>3, OutputsAt DEF Links
  <2>5. l = <<l[1], l[2]>> /\ l[1] \in Block /\ l[2] \in 1 .. Len(code(l[1])) + 1 /\ l \in Block \X Nat
    <3>1. l = <<l[1], l[2]>> /\ l[1] \in Block /\ l[2] \in 1 .. Len(code(l[1])) /\ Len(code(l[1])) \in Nat
      BY <1>1, LocationFacts, CodeFacts
    <3> QED BY <3>1
  <2>6. read_at(e) = {l}
    <3>1. <<l, Start>> # End
      BY <2>5, LocationsAssumption
    <3>2. <<l, Start>> \notin Location
      BY ChildNodes DEF child
    <3> QED BY <2>4, <3>1, <3>2, Start_End DEF read_at
  <2>7. e.from.place \in Place
    BY <1>1, <2>3, LinksInputs
  <2>8. CASE e.from.at \in Through(l[1], l[2], e.from.place)
    <3>1. <<<<l[1], l[2]>>, e.from.place>> \in Kept({<<behind(e.from.at), e.from.place>>})
      BY <1>1, <2>5, <2>7, <2>8, MutationKept
    <3> QED BY <2>5, <2>6, <3>1
  <2>9. CASE e.from.at = l /\ at(l).kind = "call" /\ \A o \in r.outputs : o.at = l
    BY <2>3, <2>9
  <2> QED BY <1>1, <2>3, <2>8, <2>9, LinksInputs
<1>5. CASE EndOf(e)
  <2>1. PICK b \in Block, p \in Exposed : \E l \in Leaving(b, p) :
          /\ terminator(b).kind = "return"
          /\ e = [from |-> node(p, l), to |-> node(p, End), kind |-> "Data", tentative |-> FALSE]
    BY <1>5 DEF EndOf
  <2>2. e.from.at \in Leaving(b, p) /\ e.from.place = p /\ e.to.at = End /\ p \in Place
        /\ terminator(b).kind = "return"
    BY <2>1, PlacesAssumption DEF node
  <2> DEFINE n == Len(code(b)) + 1
  <2>3. n \in 1 .. n
    <3>1. Len(code(b)) \in Nat
      BY <1>1, CodeFacts
    <3> QED BY <3>1
  <2>4. <<<<b, n>>, p>> \in Kept({<<behind(e.from.at), p>>})
    BY <1>1, <2>2, <2>3, MutationKept DEF Leaving
  <2>5. <<b, n>> \in read_at(e)
    BY <2>2 DEF read_at
  <2> QED BY <2>2, <2>4, <2>5
<1> QED BY <1>2, <1>3, <1>4, <1>5 DEF Explained

(***************************************************************************)
(* A data edge leaves from a mutation that some path takes to where its    *)
(* target reads, without another mutation of the place: none is stale.     *)
(***************************************************************************)
THEOREM RecentMutations == Spec => []LastMutations
<1>1. LinkInv => LastMutations
  BY MostRecent DEF LastMutations
<1> QED BY <1>1, LinkInvariance, PTL

-----------------------------------------------------------------------------
(***************************************************************************)
(* Decisions: what a mutation depends on.                                  *)
(***************************************************************************)
LEMMA FiniteNodes ==
    ASSUME body \in Bodies
    PROVE  IsFiniteSet(Node)
<1> DEFINE P == Place \cup {None}
           f == [p \in P \X Where |-> [place |-> p[1], at |-> p[2]]]
<1>1. IsFiniteSet(P)
  BY FiniteAssumption, FS_AddElement
<1>2. IsFiniteSet({Start, End})
  <2>1. IsFiniteSet({Start}) /\ IsFiniteSet({End})
    BY FS_Singleton
  <2>2. {Start, End} = {Start} \cup {End}
    OBVIOUS
  <2> QED BY <2>1, <2>2, FS_Union
<1>3. IsFiniteSet(Where)
  <2>1. IsFiniteSet(Location \X {Start, End})
    BY <1>2, FinitePoints, FS_Product
  <2>2. IsFiniteSet(Location \cup {Start, End})
    BY <1>2, FinitePoints, FS_Union
  <2> QED BY <2>1, <2>2, FS_Union DEF Where
<1>4. Node = {f[p] : p \in P \X Where}
  <2>1. ASSUME NEW n \in Node PROVE n \in {f[p] : p \in P \X Where}
    <3>1. n.place \in P /\ n.at \in Where /\ n = [place |-> n.place, at |-> n.at]
      BY DEF Node
    <3>2. <<n.place, n.at>> \in P \X Where /\ f[<<n.place, n.at>>] = n
      BY <3>1
    <3> QED BY <3>2
  <2>2. \A p \in P \X Where : f[p] \in Node
    BY DEF Node
  <2> QED BY <2>1, <2>2
<1>5. IsFiniteSet(P \X Where)
  BY <1>1, <1>3, FS_Product
<1> HIDE DEF P, f
<1> QED BY <1>4, <1>5, FiniteImage

\* What is downstream of nodes is they, and closed under the edges.
LEMMA DownstreamFacts ==
    ASSUME TypeOK, NEW N \in SUBSET Node, NEW E \in SUBSET edges
    PROVE  /\ N \subseteq Downstream(N, E)
           /\ \A e \in E : e.from \in Downstream(N, E) => e.to \in Downstream(N, E)
           /\ \A U : N \subseteq U /\ (\A e \in E : e.from \in U => e.to \in U) => Downstream(N, E) \subseteq U
<1> DEFINE V == N \cup {e.to : e \in E}
           R == {<<e.from, e.to>> : e \in E}
<1>1. V \in SUBSET Node
  BY DEF TypeOK, Edge
<1>2. IsFiniteSet(V)
  BY <1>1, FiniteNodes, FS_Subset DEF TypeOK
<1>3. \A p \in R : p = <<p[1], p[2]>> /\ p[2] \in V
  OBVIOUS
<1>4. N \in SUBSET V
  OBVIOUS
<1>5. Downstream(N, E) = ReachedFrom(V, R, N)
  BY DEF Downstream
<1>6. Downstream(N, E) = From(V, R, N)
  <2> HIDE DEF V, R
  <2> QED BY <1>2, <1>3, <1>4, <1>5, ReachedIs
<1>7. /\ N \subseteq Downstream(N, E) /\ Downstream(N, E) \subseteq V
      /\ ClosedUnder(V, R, Downstream(N, E))
      /\ \A U \in SUBSET V : N \subseteq U /\ ClosedUnder(V, R, U) => Downstream(N, E) \subseteq U
  <2> HIDE DEF V, R
  <2> QED BY <1>3, <1>4, <1>6, FromFacts
<1>8. ASSUME NEW e \in E, e.from \in Downstream(N, E) PROVE e.to \in Downstream(N, E)
  <2>1. e.to \in V /\ <<e.from, e.to>> \in R
    OBVIOUS
  <2> HIDE DEF V, R
  <2> QED BY <1>7, <1>8, <2>1 DEF ClosedUnder
<1>9. ASSUME NEW U, N \subseteq U, \A e \in E : e.from \in U => e.to \in U
      PROVE  Downstream(N, E) \subseteq U
  <2> DEFINE W == U \cap V
  <2>1. W \in SUBSET V /\ N \subseteq W
    BY <1>9
  <2>2. ClosedUnder(V, R, W)
    <3> SUFFICES ASSUME NEW x \in W, NEW y \in V, <<x, y>> \in R PROVE y \in W
      BY DEF ClosedUnder
    <3>1. PICK e \in E : <<x, y>> = <<e.from, e.to>>
      OBVIOUS
    <3> QED BY <1>9, <3>1
  <2> HIDE DEF V, R
  <2> QED BY <1>7, <2>1, <2>2
<1> QED BY <1>7, <1>8, <1>9

\* Downstream of the source of an edge is what is downstream of its target.
LEMMA DownstreamStep ==
    ASSUME TypeOK, NEW E \in SUBSET edges, NEW e \in E
    PROVE  Downstream({e.to}, E) \subseteq Downstream({e.from}, E)
<1> DEFINE M == {e.from}
           N == {e.to}
<1>1. M \in SUBSET Node /\ N \in SUBSET Node
  BY DEF TypeOK, Edge
<1>2. e.from \in M
  OBVIOUS
<1> HIDE DEF M
<1>3. e.to \in Downstream(M, E)
  BY <1>1, <1>2, DownstreamFacts
<1>4. N \subseteq Downstream(M, E)
  BY <1>3
<1> HIDE DEF N
<1>5. Downstream(N, E) \subseteq Downstream(M, E)
  BY <1>1, <1>4, DownstreamFacts
<1> QED BY <1>5 DEF M, N

-----------------------------------------------------------------------------
\* What a reachable block depends on is reachable.
ReachableControl ==
    \A e \in body.control : e[1] \in reachable_blocks => e[2] \in reachable_blocks

Branch(b) == terminator(b).kind = "switch" /\ terminator(b).discr # None
BranchNode(b) == node(terminator(b).discr, terminator_loc(b))

\* A node of the body from which there is a path of edges to n.
Upstream(m, n) == m \in nodes /\ m.at \in reachable_locations /\ n \in Downstream({m}, edges)

\* What decides over a block with such a node is one, or is on the way to one.
LEMMA DecisionStep ==
    ASSUME LinkInv, NodeInv, phase = "done", NEW n, NEW m, Upstream(m, n),
           NEW z \in queued(m.at[1]), NEW w \in Block, <<z, w>> \in body.control,
           w \in reachable_blocks
    PROVE  /\ Branch(w) => Upstream(BranchNode(w), n) /\ w \in queued(BranchNode(w).at[1])
           /\ terminator(w).kind # "switch" => w \in queued(m.at[1])
<1>1. body \in Bodies /\ TypeOK /\ z \in Block
  BY DEF LinkInv, FlowInv, TypeOK, queued
<1> DEFINE passed == {e \in body.control : terminator(e[2]).kind # "switch"}
           b == m.at[1]
<1>2. m.at \in Location /\ b \in Block /\ Reaches(Block, passed, b, z)
  BY <1>1, LocationFacts DEF Upstream, reachable_locations, queued
<1>3. ASSUME terminator(w).kind # "switch" PROVE w \in queued(b)
  <2>1. <<z, w>> \in passed
    BY <1>3
  <2>2. Reaches(Block, passed, b, w)
    <3> HIDE DEF passed, b
    <3> QED BY <1>1, <1>2, <2>1, LongerPath
  <2> QED BY <2>2 DEF queued
<1>4. ASSUME Branch(w) PROVE Upstream(BranchNode(w), n) /\ w \in queued(BranchNode(w).at[1])
  <2>1. BranchNode(w) \in find_control_inputs(m.at)
    BY <1>4 DEF find_control_inputs, Branch, BranchNode
  <2>2. PICK r \in Links(m.at) : m \in r.outputs /\ control_edges(r, m.at) \subseteq edges
    BY <1>2 DEF LinkInv, NodesExplained, NodeOf, Upstream
  <2> DEFINE e == [from |-> BranchNode(w), to |-> m, kind |-> "Control", tentative |-> FALSE]
  <2>3. e \in edges /\ e.from = BranchNode(w) /\ e.to = m
    BY <2>1, <2>2 DEF control_edges
  <2> HIDE DEF e
  <2>4. n \in Downstream({BranchNode(w)}, edges)
    BY <1>1, <2>3, DownstreamStep DEF Upstream
  <2>5. terminator_loc(w) \in reachable_locations /\ terminator_loc(w)[1] = w
    BY <1>1, CodeFacts DEF terminator_loc, reachable_locations
  <2>6. at(terminator_loc(w)) = terminator(w)
    BY DEF at, terminator_loc, terminator
  <2>7. Shown(terminator_loc(w))
    BY <2>5 DEF NodeInv, AllShown, Ahead
  <2>8. BranchNode(w) \in nodes
    BY <1>4, <2>6, <2>7 DEF Shown, Registers, Branch, BranchNode
  <2>9. BranchNode(w).at = terminator_loc(w)
    BY DEF BranchNode, node
  <2>10. w \in queued(w)
    BY DEF queued, Reaches
  <2> QED BY <2>4, <2>5, <2>8, <2>9, <2>10 DEF Upstream
<1> QED BY <1>3, <1>4

LEMMA DecisionsFlow ==
    ASSUME LinkInv, NodeInv, ReachableControl, phase = "done",
           NEW n \in nodes, n.at \in reachable_locations, NEW d \in branches_of(n.at[1])
    PROVE  n \in Downstream({BranchNode(d)}, edges)
<1> DEFINE R == {e \in body.control : terminator(e[2]).kind = "switch" => terminator(e[2]).discr # None}
           b == n.at[1]
           T == {z \in reachable_blocks :
                    \/ Branch(z) /\ Upstream(BranchNode(z), n) /\ z \in queued(BranchNode(z).at[1])
                    \/ terminator(z).kind # "switch" /\ \E m : Upstream(m, n) /\ z \in queued(m.at[1])}
<1>1. TypeOK /\ body \in Bodies /\ reachable_blocks \subseteq Block
  BY DEF LinkInv, FlowInv, TypeOK, reachable_blocks
<1>2. n.at \in Location /\ b \in Block /\ b \in reachable_blocks
  BY <1>1, LocationFacts DEF reachable_locations
<1>3. d \in Block /\ Branch(d) /\ \E x \in Block : <<b, x>> \in R /\ Reaches(Block, R, x, d)
  BY DEF branches_of, Branch
<1>4. PICK x \in Block : <<b, x>> \in R /\ Reaches(Block, R, x, d)
  BY <1>3
<1>5. ASSUME NEW m, Upstream(m, n), NEW z \in queued(m.at[1]), z \in reachable_blocks,
             NEW w \in Block, <<z, w>> \in R
      PROVE  w \in T
  <2>1. <<z, w>> \in body.control /\ (terminator(w).kind = "switch" => Branch(w))
    BY <1>5 DEF Branch
  <2>2. w \in reachable_blocks
    BY <1>5, <2>1 DEF ReachableControl
  <2> QED BY <1>5, <2>1, <2>2, DecisionStep
<1>6. Upstream(n, n) /\ b \in queued(b)
  <2>1. n \in Downstream({n}, edges)
    <3> DEFINE N == {n}
    <3>1. N \in SUBSET Node /\ n \in N
      BY <1>1 DEF TypeOK
    <3> HIDE DEF N
    <3>2. n \in Downstream(N, edges)
      BY <1>1, <3>1, DownstreamFacts
    <3> QED BY <3>2 DEF N
  <2>2. b \in queued(b)
    BY <1>2 DEF queued, Reaches
  <2> QED BY <2>1, <2>2 DEF Upstream
<1>7. x \in T
  <2> HIDE DEF T, R
  <2> QED BY <1>2, <1>4, <1>5, <1>6
<1>8. ClosedUnder(Block, R, T)
  <2> SUFFICES ASSUME NEW z \in T, NEW w \in Block, <<z, w>> \in R PROVE w \in T
    BY DEF ClosedUnder
  <2>1. z \in reachable_blocks /\ \E m : Upstream(m, n) /\ z \in queued(m.at[1])
    OBVIOUS
  <2> HIDE DEF T, R
  <2> QED BY <1>5, <2>1
<1>9. T \in SUBSET Block
  BY <1>1
<1>10. d \in T
  <2> HIDE DEF T, R
  <2> QED BY <1>4, <1>7, <1>8, <1>9 DEF Reaches
<1>11. Upstream(BranchNode(d), n)
  BY <1>3, <1>10 DEF Branch
<1> QED BY <1>11 DEF Upstream

(***************************************************************************)
(* What decides over a mutation, directly or through other decisions, has  *)
(* a path of edges to its node, provided that only reachable blocks decide *)
(* over reachable ones (the others have no nodes) and that branches are on *)
(* places that are among their own aliases.                                *)
(***************************************************************************)
THEOREM DecisionsFound == Spec /\ DirectBranches /\ ReachableControl => []ControlFound
<1>1. LinkInv /\ NodeInv /\ ReachableControl => ControlFound
  BY DecisionsFlow DEF ControlFound, BranchNode
<1>2. Init /\ DirectBranches /\ [][Next]_vars => []NodeInv
  BY InitNode, NodeStep, PTL
<1>3. ReachableControl /\ [Next]_vars => ReachableControl'
  <2>1. [Next]_vars => body' = body
    BY DEF Next, Begin, Apply, Propagate, Visit, Visited, ConnectEnd, NextPhase, advance, vars
  <2> QED BY <2>1, BodyKept DEF ReachableControl
<1> QED BY <1>1, <1>2, <1>3, LinkInvariance, PTL DEF Spec

-----------------------------------------------------------------------------
(***************************************************************************)
(* Flows: what executions carry from place to place.                       *)
(***************************************************************************)
\* What is written has one name, and what inlined callees join they read and write
\* on all their paths.
StrongUpdates ==
    /\ \A l \in Location : \A p \in mutated(at(l)) : \E q \in Place : Aliases[p] = {q}
    /\ \A l \in Location : inlines(at(l)) =>
          at(l).maybe = {} /\ at(l).flows \subseteq at(l).reads \X at(l).writes

Closed(D) == \A e \in data : e.from \in D => e.to \in D

\* A value in k is known by a node of D: of a mutation of k, or of an argument.
HeldBy(s, k, D) ==
    \/ \E j \in s[k] : node(k, j) \in D
    \/ k \in Arg /\ \A b \in Arg : <<k, b>> \in Conflicts => node(b, Start) \in D

\* Where what may be in k is read, a node of it is found.
LEMMA ReadsHeld ==
    ASSUME NEW s, NEW k \in Place, NEW D, HeldBy(s, k, D), NEW p \in Place, touches(k, p)
    PROVE  \E n \in find_data_inputs(s, p) : n \in D
<1> DEFINE A == UNION {Aliases[q] : q \in {p} \cup Refs[p]}
           argument(a) == IF a \in Arg THEN {node(a, Start)} ELSE {}
           mutations(a) == UNION {{node(j, l) : l \in s[j]} : j \in {j \in Place : <<j, a>> \in Conflicts}}
           found(a) == argument(a) \cup mutations(a)
<1>1. PICK a \in A : <<k, a>> \in Conflicts
  BY DEF touches
<1>2. a \in UNION {Aliases[q] : q \in Place}
  BY PlacesAssumption
<1>3. find_data_inputs(s, p) = UNION {found(x) : x \in A}
  BY DEF find_data_inputs
<1>4. found(a) \subseteq find_data_inputs(s, p)
  <2> HIDE DEF A, found
  <2> QED BY <1>1, <1>3
<1>5. ASSUME NEW j \in s[k], node(k, j) \in D PROVE \E n \in find_data_inputs(s, p) : n \in D
  <2>1. node(k, j) \in mutations(a)
    BY <1>1
  <2> HIDE DEF mutations
  <2> QED BY <1>4, <1>5, <2>1
<1>6. ASSUME k \in Arg, \A b \in Arg : <<k, b>> \in Conflicts => node(b, Start) \in D
      PROVE  \E n \in find_data_inputs(s, p) : n \in D
  <2>1. a \in Arg
    BY <1>1, <1>2, <1>6, PlaceInfoAssumption
  <2>2. node(a, Start) \in argument(a)
    BY <2>1
  <2> HIDE DEF argument, A, mutations
  <2> QED BY <1>1, <1>4, <1>6, <2>1, <2>2
<1> QED BY <1>5, <1>6 DEF HeldBy

\* The inputs of a link are those of the places it reads.
LEMMA LinkReads ==
    ASSUME NEW s, NEW places, NEW outputs, NEW i \in DOMAIN places,
           NEW n \in find_data_inputs(s, places[i])
    PROVE  n \in link(s, places, outputs).inputs /\ link(s, places, outputs).outputs = outputs
<1> DEFINE found == [j \in DOMAIN places |-> find_data_inputs(s, places[j])]
           inputs == UNION {found[j] : j \in DOMAIN places}
<1>1. link(s, places, outputs).inputs = inputs /\ link(s, places, outputs).outputs = outputs
  BY DEF link
<1>2. n \in inputs
  BY DEF found
<1> QED BY <1>1, <1>2

\* What is linked at a location flows from each input to each output.
LEMMA LinkFlows ==
    ASSUME LinkInv, phase = "done", NEW l \in reachable_locations, NEW r \in Links(l),
           NEW D, Closed(D), NEW n \in r.inputs, n \in D, NEW o \in r.outputs
    PROVE  o \in D
<1>1. Linked(l)
  BY DEF LinkInv, AllLinked, Ahead
<1>2. PICK t \in BOOLEAN : data_edges(r, t) \subseteq edges
  BY <1>1 DEF Linked
<1>3. PICK e \in data : e.from = n /\ e.to = o
  BY <1>2, DataEdges
<1> QED BY <1>3 DEF Closed

\* A mutation that reads what is in k takes it to the places it mutates.
LEMMA RegisterFlows ==
    ASSUME LinkInv, phase = "done", NEW l \in reachable_locations, NEW D, Closed(D),
           NEW s, NEW M, register(s, M, l) \subseteq Links(l), NEW m \in M,
           NEW i \in DOMAIN m.inputs, m.inputs[i] \in Place,
           NEW k \in Place, touches(k, m.inputs[i]), HeldBy(s, k, D), NEW q \in Aliases[m.mutated]
    PROVE  node(q, l) \in D
<1> DEFINE r == link(s, m.inputs, find_outputs(m.mutated, l))
<1>1. r \in Links(l)
  BY DEF register
<1>2. PICK n \in find_data_inputs(s, m.inputs[i]) : n \in D
  BY ReadsHeld
<1>3. n \in r.inputs /\ r.outputs = find_outputs(m.mutated, l)
  BY LinkReads
<1>4. node(q, l) \in r.outputs
  BY <1>3 DEF find_outputs
<1> HIDE DEF r
<1> QED BY <1>1, <1>2, <1>3, <1>4, LinkFlows

\* Argument a of a call takes up what is in k.
TakenUp(c, a, k) ==
    \E m \in before(c) : m.mutated = a /\ \E i \in DOMAIN m.inputs :
        m.inputs[i] \in Place /\ touches(k, m.inputs[i])

\* What an argument of a call that is not inlined reaches, it takes up.
LEMMA BeforeReads ==
    ASSUME NEW c, c.args \in Seq(Place), NEW k, NEW a \in arguments(c),
           NEW v, v \in {a} \cup {Reachable[a][i] : i \in DOMAIN Reachable[a]}, touches(k, v)
    PROVE  TakenUp(c, a, k)
<1>1. a \in Place
  BY DEF arguments
<1> DEFINE m == [mutated |-> a, inputs |-> Reachable[a]]
<1>2. m \in before(c) /\ m.mutated = a /\ m.inputs = Reachable[a]
  BY DEF before
<1>3. \E i \in DOMAIN Reachable[a] : Reachable[a][i] = v
  BY <1>1, PlaceInfoAssumption
<1>4. \A i \in DOMAIN Reachable[a] : Reachable[a][i] \in Place
  <2>1. Reachable[a] \in Seq(Place)
    BY <1>1, PlacesAssumption
  <2> QED BY <2>1
<1> HIDE DEF m
<1> QED BY <1>2, <1>3, <1>4 DEF TakenUp

\* What an instruction takes a value to, by the kind of the instruction.
LEMMA GainedCases ==
    ASSUME NEW c, NEW k, NEW q \in gained(c, k)
    PROVE  /\ c.kind # "switch"
           /\ inlines(c) => \E f \in c.flows : touches(k, f[1]) /\ q \in Aliases[f[2]]
           /\ modular(c) =>
                 /\ \E v \in accessible(c) : touches(k, v)
                 /\ \E p \in {c.destination} \cup UNION {ReachableMut[a] \ {a} : a \in arguments(c)} :
                       q \in Aliases[p]
           /\ ~inlines(c) /\ ~modular(c) =>
                 \E m \in c.mutations : reads_from(m, k) /\ q \in Aliases[m.mutated]
<1> DEFINE places == CASE c.kind = "switch" -> {}
                       [] inlines(c) -> {f[2] : f \in {f \in c.flows : touches(k, f[1])}}
                       [] modular(c) ->
                              IF \E v \in accessible(c) : touches(k, v)
                              THEN {c.destination} \cup UNION {ReachableMut[a] \ {a} : a \in arguments(c)}
                              ELSE {}
                       [] OTHER -> {m.mutated : m \in {m \in c.mutations : reads_from(m, k)}}
<1>1. q \in UNION {Aliases[p] : p \in places}
  BY DEF gained
<1>2. PICK p \in places : q \in Aliases[p]
  <2> HIDE DEF places
  <2> QED BY <1>1
<1>3. ~(inlines(c) /\ c.kind = "switch") /\ ~(modular(c) /\ c.kind = "switch") /\ ~(inlines(c) /\ modular(c))
  BY DEF inlines, modular
<1>4. c.kind = "switch" => places = {}
  BY <1>3
<1>5. inlines(c) => places = {f[2] : f \in {f \in c.flows : touches(k, f[1])}}
  BY <1>3
<1>6. modular(c) => places = IF \E v \in accessible(c) : touches(k, v)
                             THEN {c.destination} \cup UNION {ReachableMut[a] \ {a} : a \in arguments(c)}
                             ELSE {}
  BY <1>3
<1>7. c.kind # "switch" /\ ~inlines(c) /\ ~modular(c)
      => places = {m.mutated : m \in {m \in c.mutations : reads_from(m, k)}}
  BY <1>3
<1> HIDE DEF places
<1>8. c.kind # "switch"
  BY <1>2, <1>4
<1>9. ASSUME inlines(c) PROVE \E f \in c.flows : touches(k, f[1]) /\ q \in Aliases[f[2]]
  BY <1>2, <1>5, <1>9
<1>10. ASSUME modular(c)
       PROVE  /\ \E v \in accessible(c) : touches(k, v)
              /\ \E x \in {c.destination} \cup UNION {ReachableMut[a] \ {a} : a \in arguments(c)} :
                    q \in Aliases[x]
  <2> DEFINE gains == {c.destination} \cup UNION {ReachableMut[a] \ {a} : a \in arguments(c)}
  <2>1. places = IF \E v \in accessible(c) : touches(k, v) THEN gains ELSE {}
    BY <1>6, <1>10
  <2> HIDE DEF gains
  <2>2. (\E v \in accessible(c) : touches(k, v)) /\ \E x \in gains : q \in Aliases[x]
    BY <1>2, <2>1
  <2> QED BY <2>2 DEF gains
<1>11. ASSUME ~inlines(c), ~modular(c)
       PROVE  \E m \in c.mutations : reads_from(m, k) /\ q \in Aliases[m.mutated]
  BY <1>2, <1>7, <1>8, <1>11
<1> QED BY <1>8, <1>9, <1>10, <1>11

\* What an argument takes up gets to its node, and from there to what the call writes.
LEMMA CallFlows ==
    ASSUME LinkInv, StrongUpdates, phase = "done", NEW l \in reachable_locations, modular(at(l)),
           NEW D, Closed(D), NEW k \in Place, HeldBy(Before(l), k, D),
           NEW a \in arguments(at(l)), TakenUp(at(l), a, k)
    PROVE  /\ \A j \in Aliases[a] : node(j, l) \in D
           /\ \A p \in {at(l).destination} \cup UNION {ReachableMut[x] \ {x} : x \in arguments(at(l))} :
                 \A q \in Aliases[p] : node(q, l) \in D
<1> DEFINE c == at(l)
           gains == {c.destination} \cup UNION {ReachableMut[x] \ {x} : x \in arguments(c)}
<1>1. body \in Bodies /\ l \in Location /\ c \in Instruction
  BY LocationFacts DEF LinkInv, FlowInv, TypeOK, reachable_locations
<1>2. c.kind = "call" /\ c.handling = "fallback" /\ c.args \in Seq(Place) /\ c.destination \in Place
  BY <1>1, InstructionFacts DEF modular
<1>3. register(Before(l), before(c), l) \subseteq Links(l) /\ register(After(l), after(c), l) \subseteq Links(l)
  BY <1>2 DEF Links, registered, at_call
<1>4. mutated(c) = {n.mutated : n \in before(c) \cup after(c)}
  BY <1>2 DEF mutated
<1>5. \A p \in mutated(c) : \E o : Aliases[p] = {o}
  BY <1>1 DEF StrongUpdates
<1>6. TakenUp(c, a, k) /\ a \in arguments(c)
  OBVIOUS
<1>7. \A p \in gains : [mutated |-> p, inputs |-> c.args] \in after(c)
  BY DEF after
<1>8. \A j, q : q \in written(l) <=> \E p \in mutated(c) : q \in Aliases[p]
  BY DEF written
<1> HIDE DEF c, gains
<1>9. PICK m \in before(c) : m.mutated = a /\ \E i \in DOMAIN m.inputs :
          m.inputs[i] \in Place /\ touches(k, m.inputs[i])
  BY <1>6 DEF TakenUp
<1>10. PICK i \in DOMAIN m.inputs : m.inputs[i] \in Place /\ touches(k, m.inputs[i])
  BY <1>9
<1>11. ASSUME NEW j \in Aliases[a] PROVE node(j, l) \in D
  BY <1>3, <1>9, <1>10, <1>11, RegisterFlows
<1>12. a \in mutated(c) /\ a \in Place
  BY <1>2, <1>4, <1>6, <1>9 DEF arguments
<1>13. PICK j : Aliases[a] = {j}
  BY <1>5, <1>12
<1>14. j \in Place /\ j \in written(l) /\ node(j, l) \in D
  BY <1>8, <1>11, <1>12, <1>13, PlacesAssumption
<1>15. HeldBy(After(l), j, D) /\ touches(j, a)
  <2>1. After(l)[j] = {l}
    BY <1>14 DEF After, apply_mutation
  <2>2. touches(j, a)
    BY <1>13, <1>14, PlaceInfoAssumption DEF touches
  <2> QED BY <1>14, <2>1, <2>2 DEF HeldBy
<1>16. PICK x \in DOMAIN c.args : c.args[x] = a
  BY <1>6 DEF arguments
<1>17. ASSUME NEW p \in gains, NEW q \in Aliases[p] PROVE node(q, l) \in D
  <2> DEFINE o == [mutated |-> p, inputs |-> c.args]
  <2>1. o \in after(c) /\ x \in DOMAIN o.inputs /\ o.inputs[x] \in Place /\ touches(j, o.inputs[x])
        /\ q \in Aliases[o.mutated]
    BY <1>7, <1>12, <1>15, <1>16, <1>17
  <2> HIDE DEF o
  <2> QED BY <1>3, <1>14, <1>15, <2>1, RegisterFlows
<1> QED BY <1>11, <1>17 DEF c, gains

\* What an instruction takes a value to has a node there, and it is written.
LEMMA GainedFlows ==
    ASSUME LinkInv, StrongUpdates, phase = "done", NEW l \in reachable_locations,
           NEW D, Closed(D), NEW k \in Place, HeldBy(Before(l), k, D), NEW q \in gained(at(l), k)
    PROVE  node(q, l) \in D /\ q \in written(l)
<1> DEFINE c == at(l)
<1>1. body \in Bodies /\ l \in Location /\ c \in Instruction
  BY LocationFacts DEF LinkInv, FlowInv, TypeOK, reachable_locations
<1>2. \A p \in mutated(c) : q \in Aliases[p] => q \in written(l)
  BY DEF written
<1>3. \A p \in mutated(c) : \E o : Aliases[p] = {o}
  BY <1>1 DEF StrongUpdates
<1> HIDE DEF c
<1>4. q \in gained(c, k)
  BY DEF c
<1>5. c.kind # "switch"
  BY <1>4, GainedCases
<1>6. CASE inlines(c)
  <2>1. c.kind = "call" /\ c.handling = "ready" /\ c.flows \subseteq c.reads \X c.writes
        /\ c.reads \subseteq Place /\ c.writes \subseteq Place
    BY <1>1, <1>6, InstructionFacts DEF inlines, StrongUpdates, c
  <2>2. PICK f \in c.flows : touches(k, f[1]) /\ q \in Aliases[f[2]]
    BY <1>4, <1>6, GainedCases
  <2>3. f[1] \in c.reads /\ f[1] \in Place /\ f[2] \in c.writes
    BY <2>1
  <2> DEFINE start == child(f[1], l, Start)
             end == child(f[2], l, End)
             r == link(Before(l), <<f[1]>>, {start})
             w == [inputs |-> {end}, heads |-> {end}, outputs |-> find_outputs(f[2], l)]
  <2>4. r \in Links(l) /\ w \in Links(l)
    BY <2>1, <2>3 DEF Links, registered, inlined, c
  <2>5. PICK n \in find_data_inputs(Before(l), f[1]) : n \in D
    BY <2>2, <2>3, ReadsHeld
  <2>6. n \in r.inputs /\ r.outputs = {start}
    <3> DEFINE places == <<f[1]>>
    <3>1. 1 \in DOMAIN places /\ places[1] = f[1]
      OBVIOUS
    <3> HIDE DEF places
    <3>2. n \in link(Before(l), places, {start}).inputs /\ link(Before(l), places, {start}).outputs = {start}
      BY <2>5, <3>1, LinkReads
    <3> QED BY <3>2 DEF places
  <2>7. start \in D
    <3> HIDE DEF start, r
    <3> QED BY <2>4, <2>5, <2>6, LinkFlows
  <2>8. end \in D
    <3> DEFINE e == [from |-> start, to |-> end, kind |-> "Data", tentative |-> FALSE]
    <3>1. e \in child_edges(l)
      BY <2>1 DEF child_edges, c
    <3>2. child_edges(l) \subseteq edges
      BY DEF LinkInv, AllLinked, Ahead, Linked
    <3>3. e \in data /\ e.from = start /\ e.to = end
      BY <3>1, <3>2 DEF data
    <3> HIDE DEF e
    <3> QED BY <2>7, <3>3 DEF Closed
  <2>9. node(q, l) \in D
    <3>1. end \in w.inputs /\ node(q, l) \in w.outputs
      BY <2>2 DEF find_outputs
    <3> HIDE DEF end, w
    <3> QED BY <2>4, <2>8, <3>1, LinkFlows
  <2>10. f[2] \in mutated(c)
    BY <2>1, <2>3 DEF mutated
  <2> QED BY <1>2, <2>2, <2>9, <2>10
<1>7. CASE modular(c)
  <2>1. c.kind = "call" /\ c.handling = "fallback" /\ c.args \in Seq(Place)
    BY <1>1, <1>7, InstructionFacts DEF modular
  <2> DEFINE gains == {c.destination} \cup UNION {ReachableMut[a] \ {a} : a \in arguments(c)}
  <2>2. (\E v \in accessible(c) : touches(k, v)) /\ \E p \in gains : q \in Aliases[p]
    BY <1>4, <1>7, GainedCases
  <2>3. PICK p \in gains : q \in Aliases[p]
    BY <2>2
  <2>4. PICK v \in accessible(c) : touches(k, v)
    BY <2>2
  <2>5. PICK a \in arguments(c) : v \in {a} \cup {Reachable[a][i] : i \in DOMAIN Reachable[a]}
    BY <2>4 DEF accessible
  <2>6. TakenUp(c, a, k)
    <3> HIDE DEF gains
    <3> QED BY <2>1, <2>4, <2>5, BeforeReads
  <2>7. node(q, l) \in D
    BY <1>7, <2>3, <2>6, CallFlows DEF c
  <2>8. p \in mutated(c)
    <3>1. [mutated |-> p, inputs |-> c.args] \in after(c)
      BY DEF after
    <3> QED BY <2>1, <3>1 DEF mutated
  <2> QED BY <1>2, <2>3, <2>7, <2>8
<1>8. CASE ~inlines(c) /\ ~modular(c)
  <2>1. PICK m \in c.mutations : reads_from(m, k) /\ q \in Aliases[m.mutated]
    BY <1>4, <1>8, GainedCases
  <2>2. PICK i \in DOMAIN m.inputs : touches(k, m.inputs[i])
    BY <2>1 DEF reads_from
  <2>3. c.mutations \subseteq Mutation /\ (c.kind = "call" => c.handling = "approximate")
    BY <1>1, <1>5, <1>8, InstructionFacts DEF inlines, modular
  <2>4. m.inputs[i] \in Place
    <3>1. m.inputs \in Seq(Place)
      BY <2>3 DEF Mutation
    <3> QED BY <3>1
  <2>5. register(Before(l), c.mutations, l) \subseteq Links(l)
    BY <1>5, <1>8, <2>3 DEF Links, registered, c
  <2>6. node(q, l) \in D
    BY <2>1, <2>2, <2>4, <2>5, RegisterFlows
  <2>7. m.mutated \in mutated(c)
    BY <1>5, <1>8, <2>3 DEF mutated
  <2> QED BY <1>2, <2>1, <2>6, <2>7
<1> QED BY <1>5, <1>6, <1>7, <1>8

\* What is certainly overwritten, by the kind of the instruction.
LEMMA OverwrittenCases ==
    ASSUME NEW c, NEW k, NEW p, Aliases[p] = {k}
    PROVE  /\ inlines(c) /\ p \in c.writes \ c.maybe => k \in overwritten(c)
           /\ modular(c) /\ p = c.destination => k \in overwritten(c)
           /\ c.kind # "switch" /\ ~inlines(c) /\ ~modular(c)
              /\ (\E m \in c.mutations : p = m.mutated) => k \in overwritten(c)
<1> DEFINE places == CASE c.kind = "switch" -> {}
                       [] inlines(c) -> c.writes \ c.maybe
                       [] modular(c) -> {c.destination}
                       [] OTHER -> {m.mutated : m \in c.mutations}
<1>1. overwritten(c) = UNION {Aliases[x] : x \in {x \in places : Cardinality(Aliases[x]) = 1}}
  BY DEF overwritten
<1>2. Cardinality(Aliases[p]) = 1 /\ k \in Aliases[p]
  BY FS_Singleton
<1>3. ~(inlines(c) /\ c.kind = "switch") /\ ~(modular(c) /\ c.kind = "switch") /\ ~(inlines(c) /\ modular(c))
  BY DEF inlines, modular
<1>4. inlines(c) => places = c.writes \ c.maybe
  BY <1>3
<1>5. modular(c) => places = {c.destination}
  BY <1>3
<1>6. c.kind # "switch" /\ ~inlines(c) /\ ~modular(c) => places = {m.mutated : m \in c.mutations}
  BY <1>3
<1> HIDE DEF places
<1>7. p \in places => k \in overwritten(c)
  BY <1>1, <1>2
<1> QED BY <1>4, <1>5, <1>6, <1>7

LEMMA MutatedCases ==
    ASSUME NEW c, c.kind # "switch", ~inlines(c), ~modular(c)
    PROVE  mutated(c) = {m.mutated : m \in c.mutations}
<1>1. ~(c.kind = "call" /\ c.handling = "ready") /\ ~(c.kind = "call" /\ c.handling = "fallback")
  BY DEF inlines, modular
<1> QED BY <1>1 DEF mutated

\* A value that an instruction may leave where it mutates has a node there.
LEMMA Stays ==
    ASSUME LinkInv, StrongUpdates, phase = "done", NEW l \in reachable_locations,
           NEW D, Closed(D), NEW k \in Place, HeldBy(Before(l), k, D),
           k \in written(l), k \notin overwritten(at(l))
    PROVE  node(k, l) \in D
<1> DEFINE c == at(l)
<1>1. body \in Bodies /\ l \in Location /\ c \in Instruction
  BY LocationFacts DEF LinkInv, FlowInv, TypeOK, reachable_locations
<1>2. PICK p \in mutated(c) : k \in Aliases[p]
  BY DEF written
<1>3. Aliases[p] = {k}
  <2>1. \E o : Aliases[p] = {o}
    BY <1>1 DEF StrongUpdates
  <2> QED BY <1>2, <2>1
<1>4. k \notin overwritten(c) /\ (inlines(c) => c.maybe = {})
  BY <1>1 DEF StrongUpdates
<1> HIDE DEF c
<1>5. ~inlines(c)
  <2>1. inlines(c) => mutated(c) = c.writes
    BY DEF inlines, mutated
  <2> QED BY <1>2, <1>3, <1>4, <2>1, OverwrittenCases
<1>6. modular(c)
  <2>1. c.kind = "switch" => mutated(c) = {}
    BY DEF mutated
  <2>2. c.kind # "switch" /\ ~inlines(c) /\ ~modular(c) => mutated(c) = {m.mutated : m \in c.mutations}
    BY MutatedCases
  <2> SUFFICES ASSUME ~modular(c) PROVE FALSE
    OBVIOUS
  <2>3. c.kind # "switch"
    BY <1>2, <2>1
  <2>4. \E m \in c.mutations : p = m.mutated
    BY <1>2, <1>5, <2>2, <2>3
  <2> QED BY <1>3, <1>4, <1>5, <2>3, <2>4, OverwrittenCases
<1>7. c.args \in Seq(Place) /\ c.destination \in Place
      /\ mutated(c) = {m.mutated : m \in before(c) \cup after(c)}
  BY <1>1, <1>6, InstructionFacts DEF modular, mutated
<1>8. p # c.destination
  BY <1>3, <1>4, <1>6, OverwrittenCases
<1>9. PICK a \in arguments(c) : p = a \/ p \in ReachableMut[a] \ {a}
  <2>1. \A m \in before(c) : m.mutated \in arguments(c)
    BY DEF before
  <2>2. \A m \in after(c) : m.mutated = c.destination \/ \E a \in arguments(c) : m.mutated \in ReachableMut[a] \ {a}
    BY DEF after
  <2> QED BY <1>2, <1>7, <1>8, <2>1, <2>2
<1>10. a \in Place
  BY <1>7, <1>9 DEF arguments
<1>11. p \in {a} \cup {Reachable[a][i] : i \in DOMAIN Reachable[a]}
  BY <1>9, <1>10, PlaceInfoAssumption
<1>12. touches(k, p)
  BY <1>2, PlaceInfoAssumption DEF touches
<1>13. TakenUp(c, a, k)
  BY <1>7, <1>9, <1>11, <1>12, BeforeReads
<1>14. /\ \A j \in Aliases[a] : node(j, l) \in D
       /\ \A x \in {c.destination} \cup UNION {ReachableMut[y] \ {y} : y \in arguments(c)} :
             \A j \in Aliases[x] : node(j, l) \in D
  BY <1>6, <1>9, <1>13, CallFlows DEF c
<1>15. CASE p = a
  BY <1>2, <1>14, <1>15
<1>16. CASE p \in ReachableMut[a] \ {a}
  <2>1. p \in {c.destination} \cup UNION {ReachableMut[y] \ {y} : y \in arguments(c)}
    BY <1>9, <1>16
  <2> QED BY <1>2, <1>14, <2>1
<1> QED BY <1>9, <1>15, <1>16

-----------------------------------------------------------------------------
LEMMA GainedType ==
    ASSUME body \in Bodies, NEW l \in Location, NEW k, NEW q \in gained(at(l), k)
    PROVE  q \in Place
<1> DEFINE c == at(l)
<1>1. c \in Instruction /\ q \in gained(c, k)
  BY LocationFacts
<1> HIDE DEF c
<1>2. CASE inlines(c)
  <2>1. PICK f \in c.flows : q \in Aliases[f[2]]
    BY <1>1, <1>2, GainedCases
  <2>2. f[2] \in Place
    BY <1>1, <1>2, InstructionFacts DEF inlines
  <2> QED BY <2>1, <2>2, PlacesAssumption
<1>3. CASE modular(c)
  <2>1. PICK p \in {c.destination} \cup UNION {ReachableMut[a] \ {a} : a \in arguments(c)} : q \in Aliases[p]
    BY <1>1, <1>3, GainedCases
  <2>2. c.args \in Seq(Place) /\ c.destination \in Place
    BY <1>1, <1>3, InstructionFacts DEF modular
  <2>3. arguments(c) \subseteq Place
    BY <2>2 DEF arguments
  <2>4. p \in Place
    BY <2>1, <2>2, <2>3, PlacesAssumption
  <2> QED BY <2>1, <2>4, PlacesAssumption
<1>4. CASE ~inlines(c) /\ ~modular(c)
  <2>1. PICK m \in c.mutations : q \in Aliases[m.mutated]
    BY <1>1, <1>4, GainedCases
  <2>2. c.mutations \subseteq Mutation
    <3>1. c.kind # "switch"
      BY <1>1, GainedCases
    <3> QED BY <1>1, <1>4, <3>1, InstructionFacts DEF inlines, modular
  <2>3. m.mutated \in Place
    BY <2>1, <2>2 DEF Mutation
  <2> QED BY <2>1, <2>3, PlacesAssumption
<1> QED BY <1>2, <1>3, <1>4

\* The value w started as is known in place v[2] at point v[1] by a node of D.
Known(w, v, D) ==
    \/ \E j \in Before(v[1])[v[2]] : node(v[2], j) \in D
    \/ /\ w = <<<<Entry, 1>>, v[2]>> /\ v[2] \in Arg
       /\ \A b \in Arg : <<v[2], b>> \in Conflicts => node(b, Start) \in D

LEMMA KnownHeld ==
    ASSUME NEW w, NEW v, NEW D, Known(w, v, D)
    PROVE  HeldBy(Before(v[1]), v[2], D)
  BY DEF Known, HeldBy

\* Where a value is carried it is known.
LEMMA StepKnown ==
    ASSUME LinkInv, StrongUpdates, phase = "done", NEW D, Closed(D), NEW w,
           NEW v \in Value, v[1][1] \in reachable_blocks, Known(w, v, D), NEW u \in step(v)
    PROVE  u[1][1] \in reachable_blocks /\ Known(w, u, D)
<1> DEFINE b == v[1][1]
           i == v[1][2]
           k == v[2]
           l == v[1]
<1>1. body \in Bodies /\ l \in Point /\ k \in Place /\ b \in Block /\ l = <<b, i>>
      /\ i \in 1 .. Len(code(b)) + 1 /\ Len(code(b)) \in Nat
  <2>1. body \in Bodies /\ l \in Point /\ k \in Place
    BY DEF LinkInv, FlowInv, TypeOK, Value
  <2> QED BY <2>1, PointParts, CodeFacts
<1>2. HeldBy(Before(l), k, D)
  BY KnownHeld
<1>3. Before(l)[k] = Through(b, i, k)
  BY <1>1 DEF Before
<1>4. CASE is_location(l)
  <2>1. l \in reachable_locations /\ successors(l) = {<<b, i + 1>>} /\ i \in Nat \ {0}
    <3>1. l \in Location /\ successors(l) = {<<b, i + 1>>}
      BY <1>1, <1>4, PointFacts
    <3> QED BY <1>1, <3>1 DEF reachable_locations
  <2>2. u[1] = <<b, i + 1>> /\ (u[2] \in gained(at(l), k) \/ (u[2] = k /\ k \notin overwritten(at(l))))
        /\ u[2] \in Place
    <3>1. u \in {<<b, i + 1>>} \X (gained(at(l), k) \cup ({k} \ overwritten(at(l))))
      BY <1>4, <2>1 DEF step
    <3>2. \A q \in gained(at(l), k) : q \in Place
      BY <1>1, <2>1, GainedType DEF reachable_locations
    <3> QED BY <1>1, <3>1, <3>2
  <2> DEFINE q == u[2]
  <2>3. Before(u[1])[q] = IF q \in written(l) THEN {l} ELSE Before(l)[q]
    <3>1. Before(u[1])[q] = Through(b, i + 1, q) /\ Before(l)[q] = Through(b, i, q)
      BY <2>2 DEF Before
    <3> QED BY <1>1, <2>1, <3>1, ThroughNext
  <2>4. q \in written(l) => node(q, l) \in D
    <3>1. CASE q \in gained(at(l), k)
      BY <1>1, <1>2, <2>1, <3>1, GainedFlows
    <3>2. CASE q = k /\ k \notin overwritten(at(l))
      BY <1>1, <1>2, <2>1, <3>2, Stays
    <3> QED BY <2>2, <3>1, <3>2
  <2>5. q \notin written(l) => q = k
    BY <1>1, <1>2, <2>1, <2>2, GainedFlows
  <2>6. Known(w, u, D)
    <3>1. CASE q \in written(l)
      BY <2>3, <2>4, <3>1 DEF Known
    <3>2. CASE q \notin written(l)
      BY <2>3, <2>5, <3>2 DEF Known
    <3> QED BY <3>1, <3>2
  <2> QED BY <2>2, <2>6
<1>5. CASE ~is_location(l)
  <2>1. i = Len(code(b)) + 1 /\ successors(l) = {<<c, 1>> : c \in Successors(Block, body.cfg, b)}
    BY <1>1, <1>5, PointFacts
  <2>2. u \in {<<c, 1>> : c \in Successors(Block, body.cfg, b)} \X {k}
    BY <1>5, <2>1 DEF step
  <2>3. PICK c \in Successors(Block, body.cfg, b) : u[1] = <<c, 1>> /\ u[2] = k
    BY <2>2
  <2>4. c \in reachable_blocks
    BY <1>1, LongerPath DEF Successors, reachable_blocks
  <2>5. Leaving(b, k) \subseteq entry[c][k]
    BY <1>1 DEF LinkInv, FlowInv, PassedOn, Pending
  <2>6. Before(l)[k] \subseteq Before(u[1])[k]
    <3>1. Before(u[1])[k] = entry[c][k]
      BY <1>1, <2>3, ThroughStart DEF Before
    <3> QED BY <1>3, <2>1, <2>5, <3>1 DEF Leaving
  <2>7. Known(w, u, D)
    BY <2>3, <2>6 DEF Known
  <2> QED BY <2>3, <2>4, <2>7
<1> QED BY <1>4, <1>5

\* What a value carried comes to.
StepRel == UNION {{v} \X step(v) : v \in Value}

LEMMA StepType ==
    ASSUME body \in Bodies, NEW v \in Value
    PROVE  step(v) \subseteq Value
<1>1. v[1] \in Point /\ v[2] \in Place
  BY DEF Value
<1>2. v[1] = <<v[1][1], v[1][2]>> /\ v[1][1] \in Block /\ v[1][2] \in 1 .. Len(code(v[1][1])) + 1
  BY <1>1, PointParts
<1>3. successors(v[1]) \subseteq Point /\ (is_location(v[1]) => v[1] \in Location)
  BY <1>2, PointFacts
<1>4. is_location(v[1]) => gained(at(v[1]), v[2]) \subseteq Place
  BY <1>3, GainedType
<1> QED BY <1>1, <1>3, <1>4 DEF step, Value

LEMMA CarriedIs ==
    ASSUME body \in Bodies, NEW V \in SUBSET Value, NEW U \in SUBSET Value, V \subseteq U,
           \A v \in U : step(v) \subseteq U
    PROVE  Carried(V) \subseteq U
<1>1. \A p \in StepRel : p = <<p[1], p[2]>> /\ p[2] \in Value
  BY StepType DEF StepRel
<1>2. Carried(V) = ReachedFrom(Value, StepRel, V)
  BY DEF Carried, StepRel
<1>3. IsFiniteSet(Value)
  BY FinitePoints
<1>4. Carried(V) = From(Value, StepRel, V)
  <2> HIDE DEF Value, StepRel
  <2> QED BY <1>1, <1>2, <1>3, ReachedIs
<1>5. ClosedUnder(Value, StepRel, U)
  <2> SUFFICES ASSUME NEW x \in U, NEW y \in Value, <<x, y>> \in StepRel PROVE y \in U
    BY DEF ClosedUnder
  <2>1. y \in step(x)
    BY DEF StepRel
  <2> QED BY <2>1
<1> QED BY <1>1, <1>4, <1>5, FromFacts

\* The nodes of a value to follow are of the graph, and it is known there.
LEMMA SourceKnown ==
    ASSUME LinkInv, NEW s \in sources, NEW D, s.nodes \subseteq D
    PROVE  /\ s.nodes \subseteq Node /\ s.value \in Value
           /\ s.value[1][1] \in reachable_blocks /\ Known(s.value, s.value, D)
<1>1. body \in Bodies
  BY DEF LinkInv, FlowInv, TypeOK
<1>2. ASSUME NEW l \in reachable_locations, NEW k \in Place, k \in written(l),
             s = [nodes |-> {node(k, l)}, value |-> <<behind(l), k>>]
      PROVE  /\ s.nodes \subseteq Node /\ s.value \in Value
             /\ s.value[1][1] \in reachable_blocks /\ Known(s.value, s.value, D)
  <2>1. l \in Location /\ l[1] \in Block /\ l[2] \in 1 .. Len(code(l[1])) /\ l = <<l[1], l[2]>>
        /\ l[1] \in reachable_blocks /\ Len(code(l[1])) \in Nat /\ l[2] \in Nat \ {0}
    <3>1. l \in Location /\ l[1] \in reachable_blocks
      BY DEF reachable_locations
    <3>2. l = <<l[1], l[2]>> /\ l[1] \in Block /\ l[2] \in 1 .. Len(code(l[1]))
      BY <1>1, <3>1, LocationFacts
    <3>3. Len(code(l[1])) \in Nat
      BY <1>1, <3>2, CodeFacts
    <3> QED BY <3>1, <3>2, <3>3
  <2>2. s.value = <<<<l[1], l[2] + 1>>, k>> /\ s.nodes = {node(k, l)} /\ s.value[1] = <<l[1], l[2] + 1>>
        /\ s.value[2] = k /\ s.value[1][1] = l[1]
    BY <1>2 DEF behind
  <2>3. <<l[1], l[2] + 1>> \in Point
    <3>1. l[2] + 1 \in 1 .. Len(code(l[1])) + 1
      BY <2>1
    <3> QED BY <2>1, <3>1 DEF Point
  <2>4. Before(s.value[1])[k] = {l}
    <3>1. Before(s.value[1])[k] = Through(l[1], l[2] + 1, k)
      BY <2>2 DEF Before
    <3> QED BY <1>2, <2>1, <3>1, ThroughNext
  <2>5. node(k, l) \in D
    BY <2>2
  <2>6. node(k, l) \in Node
    BY <2>1 DEF node, Node, Where
  <2> QED BY <2>1, <2>2, <2>3, <2>4, <2>5, <2>6 DEF Known, Value
<1>3. ASSUME NEW a \in Arg,
             s = [nodes |-> {node(b, Start) : b \in {b \in Arg : <<a, b>> \in Conflicts}},
                  value |-> <<<<Entry, 1>>, a>>]
      PROVE  /\ s.nodes \subseteq Node /\ s.value \in Value
             /\ s.value[1][1] \in reachable_blocks /\ Known(s.value, s.value, D)
  <2>1. s.value = <<<<Entry, 1>>, a>> /\ s.value[1] = <<Entry, 1>> /\ s.value[1][1] = Entry /\ s.value[2] = a
        /\ s.nodes = {node(b, Start) : b \in {b \in Arg : <<a, b>> \in Conflicts}}
    BY <1>3
  <2>2. a \in Place /\ Entry \in Block /\ Arg \subseteq Place
    BY PlacesAssumption
  <2>3. <<Entry, 1>> \in Point
    <3>1. Len(code(Entry)) \in Nat
      BY <1>1, <2>2, CodeFacts
    <3>2. 1 \in 1 .. Len(code(Entry)) + 1
      BY <3>1
    <3> QED BY <2>2, <3>2 DEF Point
  <2>4. Entry \in reachable_blocks
    BY <2>2 DEF reachable_blocks, Reaches
  <2>5. \A b \in Arg : node(b, Start) \in Node
    BY <2>2 DEF node, Node, Where
  <2>6. Known(s.value, s.value, D)
    BY <2>1 DEF Known
  <2> QED BY <2>1, <2>2, <2>3, <2>4, <2>5, <2>6 DEF Value
<1> QED BY <1>2, <1>3 DEF sources

LEMMA FlowsThrough ==
    ASSUME LinkInv, StrongUpdates, phase = "done", NEW s \in sources, NEW v \in Carried({s.value})
    PROVE  /\ is_location(v[1]) =>
                 \A q \in gained(at(v[1]), v[2]) : node(q, v[1]) \in Downstream(s.nodes, data)
           /\ returning(v[1]) /\ v[2] \in Exposed /\ s.value # <<<<Entry, 1>>, v[2]>> =>
                 node(v[2], End) \in Downstream(s.nodes, data)
<1> DEFINE D == Downstream(s.nodes, data)
           U == {u \in Value : u[1][1] \in reachable_blocks /\ Known(s.value, u, D)}
           V == {s.value}
<1>1. TypeOK /\ body \in Bodies /\ data \in SUBSET edges
  BY DEF LinkInv, FlowInv, TypeOK, data
<1>2. s.nodes \in SUBSET Node
  BY SourceKnown
<1>3. s.nodes \subseteq D /\ Closed(D)
  BY <1>1, <1>2, DownstreamFacts DEF Closed
<1> HIDE DEF D
<1>4. V \in SUBSET Value /\ U \in SUBSET Value /\ V \subseteq U /\ v \in Carried(V)
  BY <1>3, SourceKnown
<1>5. ASSUME NEW u \in U PROVE step(u) \subseteq U
  BY <1>1, <1>3, StepType, StepKnown
<1>6. v \in U
  <2> HIDE DEF U, V
  <2> QED BY <1>1, <1>4, <1>5, CarriedIs
<1>7. v \in Value /\ v[1][1] \in reachable_blocks /\ Known(s.value, v, D)
      /\ v[1] \in Point /\ v[2] \in Place
  BY <1>6 DEF Value
<1>8. v[1] = <<v[1][1], v[1][2]>> /\ v[1][1] \in Block /\ v[1][2] \in 1 .. Len(code(v[1][1])) + 1
  BY <1>1, <1>7, PointParts
<1>9. ASSUME is_location(v[1]), NEW q \in gained(at(v[1]), v[2]) PROVE node(q, v[1]) \in D
  <2>1. v[1] \in reachable_locations
    <3>1. v[1] \in Location
      BY <1>1, <1>8, <1>9, PointFacts
    <3> QED BY <1>7, <3>1 DEF reachable_locations
  <2>2. HeldBy(Before(v[1]), v[2], D)
    BY <1>7, KnownHeld
  <2>3. \A l \in reachable_locations, k \in Place : \A x \in gained(at(l), k) :
          HeldBy(Before(l), k, D) => node(x, l) \in D
    BY <1>3, GainedFlows
  <2> QED BY <1>7, <1>9, <2>1, <2>2, <2>3
<1>10. ASSUME returning(v[1]), v[2] \in Exposed, s.value # <<<<Entry, 1>>, v[2]>>
       PROVE  node(v[2], End) \in D
  <2> DEFINE b == v[1][1]
             k == v[2]
  <2>1. ~is_location(v[1]) /\ b \in Returns
    BY <1>8, <1>10 DEF returning, Returns
  <2>2. v[1][2] = Len(code(b)) + 1
    BY <1>1, <1>8, <2>1, PointFacts
  <2>3. PICK j \in Before(v[1])[k] : node(k, j) \in D
    BY <1>7, <1>10 DEF Known
  <2>4. j \in Leaving(b, k)
    BY <1>7, <2>2, <2>3 DEF Before, Leaving
  <2> DEFINE e == [from |-> node(k, j), to |-> node(k, End), kind |-> "Data", tentative |-> FALSE]
  <2>5. e \in EndEdges(b)
    <3> DEFINE ends(p) == {[from |-> node(p, l), to |-> node(p, End),
                            kind |-> "Data", tentative |-> FALSE] : l \in Leaving(b, p)}
    <3>1. EndEdges(b) = UNION {ends(p) : p \in Exposed}
      BY DEF EndEdges
    <3>2. e \in ends(k)
      BY <2>4
    <3> HIDE DEF e, ends
    <3> QED BY <1>10, <3>1, <3>2
  <2>6. EndEdges(b) \subseteq edges
    BY <2>1 DEF LinkInv, AllConnected, Settled, Waiting
  <2>7. e \in data /\ e.from = node(k, j) /\ e.to = node(k, End)
    BY <2>5, <2>6 DEF data
  <2> HIDE DEF e
  <2> QED BY <1>3, <2>3, <2>7 DEF Closed
<1> QED BY <1>9, <1>10 DEF D

(***************************************************************************)
(* Every flow of a value along an execution has a path of data edges, in   *)
(* the body and to its end, provided that what is mutated has one name and *)
(* that inlined callees write on all their paths: where they do not, the   *)
(* code misses flows.                                                      *)
(***************************************************************************)
THEOREM FlowsComplete == Spec /\ StrongUpdates => []FlowsFound
<1>1. LinkInv /\ StrongUpdates => FlowsFound
  BY FlowsThrough DEF FlowsFound
<1>2. StrongUpdates /\ [Next]_vars => StrongUpdates'
  <2> SUFFICES ASSUME StrongUpdates, [Next]_vars PROVE StrongUpdates'
    OBVIOUS
  <2>1. body' = body
    BY DEF Next, Begin, Apply, Propagate, Visit, Visited, ConnectEnd, NextPhase, advance, vars
  <2> QED BY <2>1 DEF StrongUpdates, Location, at, code
<1> QED BY <1>1, <1>2, LinkInvariance, PTL DEF Spec
=============================================================================
