------------------------ MODULE RecursiveCacheProofs ------------------------
(***************************************************************************)
(* What the memoised transitive closure guarantees on every dependency     *)
(* graph and for every sequence of requests, keys that depend on           *)
(* themselves included.                                                    *)
(*                                                                         *)
(* The argument: the stack holds each key under way once, and each of its  *)
(* keys depends on the ones above it.  A key that reads as None is on the  *)
(* stack, so the key that reads it depends on itself; off cycles this      *)
(* cannot happen, and what a key has not asked for yet is the only thing   *)
(* its set can lack.  On cycles what an inner computation lacks is         *)
(* collected further down the stack.                                       *)
(***************************************************************************)
EXTENDS RecursiveCache, SequenceTheorems, TLAPS

-----------------------------------------------------------------------------
\* The empty path leads from a node to itself.
LEMMA ReachesRefl ==
    ASSUME NEW V, NEW R, NEW a \in V
    PROVE  Reaches(V, R, a, a)
  BY DEF Reaches

\* An edge is a path.
LEMMA ReachesEdge ==
    ASSUME NEW V, NEW R, NEW a \in V, NEW b \in V, <<a, b>> \in R
    PROVE  Reaches(V, R, a, b)
  BY DEF Reaches, ClosedUnder

\* A path may be followed by a path.
LEMMA ReachesTrans ==
    ASSUME NEW V, NEW R, NEW a \in V, NEW b \in V, NEW c \in V,
           Reaches(V, R, a, b), Reaches(V, R, b, c)
    PROVE  Reaches(V, R, a, c)
  BY DEF Reaches

(***************************************************************************)
(* A closed set of nodes that holds a holds everything a reaches.          *)
(***************************************************************************)
LEMMA ClosedHoldsReached ==
    ASSUME NEW V, NEW R, NEW T \in SUBSET V, NEW a \in T, NEW b,
           ClosedUnder(V, R, T), Reaches(V, R, a, b)
    PROVE  b \in T
  BY DEF Reaches

\* The numbers 1 .. n without the last.
LEMMA Predecessor ==
    ASSUME NEW n \in Nat, n # 0
    PROVE  /\ n - 1 \in Nat /\ n - 1 \in Int
           /\ n # 1 => n - 1 \in 1 .. n - 1
           /\ (IF 1 <= n - 1 THEN (n - 1) - 1 + 1 ELSE 0) = n - 1
           /\ \A i \in 1 .. n - 1 : i \in 1 .. (n - 1) - 1 + 1 /\ 1 + i - 1 = i /\ i \in 1 .. n
  OBVIOUS

\* A stack without its last level.
LEMMA Popped ==
    ASSUME NEW S, NEW s \in Seq(S), s # <<>>
    PROVE  LET t == SubSeq(s, 1, Len(s) - 1)
           IN  /\ t \in Seq(S) /\ Len(t) = Len(s) - 1
               /\ \A i \in 1 .. Len(s) - 1 : t[i] = s[i]
<1>1. Len(s) \in Nat /\ Len(s) # 0
  OBVIOUS
<1>2. \A i \in 1 .. Len(s) - 1 : s[i] \in S
  BY <1>1, Predecessor
<1>3. 1 \in Int /\ Len(s) - 1 \in Int
  BY <1>1, Predecessor
<1>4. /\ SubSeq(s, 1, Len(s) - 1) \in Seq(S)
      /\ Len(SubSeq(s, 1, Len(s) - 1)) =
            IF 1 <= Len(s) - 1 THEN (Len(s) - 1) - 1 + 1 ELSE 0
      /\ \A i \in 1 .. (Len(s) - 1) - 1 + 1 : SubSeq(s, 1, Len(s) - 1)[i] = s[1 + i - 1]
  BY ONLY <1>2, <1>3, SubSeqProperties
<1> QED BY <1>1, <1>4, Predecessor

-----------------------------------------------------------------------------
(***************************************************************************)
(* The parts of the inductive invariant.                                   *)
(***************************************************************************)
\* The levels of the stack, the innermost one last.
Levels == 1 .. Len(stack)

\* None marks exactly the keys under way.
NoneOnStack == \A k \in Key : entry[k] = "None" <=> \E i \in Levels : stack[i] = k

\* A key under way depends on the keys above it.
Chain == \A i, j \in Levels : i <= j => DependsOn(stack[i], stack[j])

\* A computation asks for dependencies, and has asked for all when it is done.
TodoRight ==
    \A k \in Key : /\ todo[k] \subseteq deps(k)
                   /\ entry[k] = "Some" => todo[k] = {}

\* The computation of k waits for the one of d.
Waits(k, d) == \E i \in Levels : i + 1 \in Levels /\ stack[i] = k /\ stack[i + 1] = d

OwnHeld == \A k \in Key : entry[k] # "absent" => graph.own[k] \subseteq value[k]

\* Off cycles a set lacks only what it has not asked for or waits for.
Collected ==
    \A k \in Key : entry[k] # "absent" /\ ~ReachesCycle(k) =>
        \A d \in deps(k) : d \in todo[k] \/ Waits(k, d) \/ Transitive(d) \subseteq value[k]

StackInv == TypeOK /\ NoneOnStack /\ NoReentry /\ Chain /\ TodoRight

IInv == StackInv /\ CacheSound /\ OwnHeld /\ Collected

\* Nothing is computed before the first request.
AskedFirst == asked = {} => stack = <<>> /\ \A k \in Key : entry[k] = "absent"

\* A computation has started one for each dependency it has asked for.
OpenedDeps ==
    \A k \in Key : entry[k] # "absent" =>
        \A d \in deps(k) : d \in todo[k] \/ entry[d] # "absent"

\* What key k and the computations under way hold.
Held(k) == value[k] \cup UNION {value[stack[i]] : i \in Levels}

\* Under the first request k, what any opened key contributes is held there.
Gathered ==
    \A k \in Key : asked = {k} =>
        /\ entry[k] # "absent"
        /\ stack # <<>> => stack[1] = k
        /\ \A d \in Key : entry[d] # "absent" => graph.own[d] \subseteq Held(k)

FirstInv == IInv /\ AskedFirst /\ OpenedDeps /\ Gathered

-----------------------------------------------------------------------------
\* The first edge of a path.
LEMMA FirstStep ==
    ASSUME NEW V, NEW R, NEW a \in V, NEW b \in V, Reaches(V, R, a, b), a # b
    PROVE  \E d \in Successors(V, R, a) : Reaches(V, R, d, b)
<1> DEFINE T == {a} \cup {y \in V : \E d \in Successors(V, R, a) : Reaches(V, R, d, y)}
<1>1. T \in SUBSET V /\ a \in T
  OBVIOUS
<1>2. ClosedUnder(V, R, T)
  <2> SUFFICES ASSUME NEW x \in T, NEW y \in V, <<x, y>> \in R PROVE y \in T
    BY DEF ClosedUnder
  <2>1. CASE x = a
    <3>1. y \in Successors(V, R, a)
      BY <2>1 DEF Successors
    <3> QED BY <3>1, ReachesRefl
  <2>2. CASE x # a
    <3>1. x \in V
      BY <1>1
    <3>2. PICK d \in Successors(V, R, a) : Reaches(V, R, d, x)
      BY <2>2
    <3>3. d \in V /\ Reaches(V, R, x, y)
      BY <3>1, ReachesEdge DEF Successors
    <3>4. Reaches(V, R, d, y)
      BY <3>1, <3>2, <3>3, ReachesTrans
    <3> QED BY <3>4
  <2> QED BY <2>1, <2>2
<1>3. b \in T
  BY <1>1, <1>2, ClosedHoldsReached
<1> QED BY <1>3

\* What a key should have is its own and what its dependencies should have.
LEMMA TransitiveStep ==
    ASSUME graph \in Graph, NEW k \in Key
    PROVE  /\ graph.own[k] \subseteq Transitive(k)
           /\ \A d \in Key : DependsOn(k, d) => Transitive(d) \subseteq Transitive(k)
           /\ Transitive(k) \subseteq graph.own[k] \cup UNION {Transitive(d) : d \in deps(k)}
<1>1. DependsOn(k, k)
  BY ReachesRefl DEF DependsOn
<1>2. graph.own[k] \subseteq Transitive(k)
  BY <1>1 DEF Transitive
<1>3. ASSUME NEW d \in Key, DependsOn(k, d) PROVE Transitive(d) \subseteq Transitive(k)
  <2> SUFFICES ASSUME NEW e \in Key, DependsOn(d, e) PROVE DependsOn(k, e)
    BY DEF Transitive
  <2> QED BY <1>3, ReachesTrans DEF DependsOn
<1>4. ASSUME NEW m \in Transitive(k)
      PROVE  m \in graph.own[k] \cup UNION {Transitive(d) : d \in deps(k)}
  <2>1. PICK e \in Key : DependsOn(k, e) /\ m \in graph.own[e]
    BY DEF Transitive
  <2>2. CASE e = k
    BY <2>1, <2>2
  <2>3. CASE e # k
    <3>1. PICK d \in Successors(Key, graph.deps, k) : Reaches(Key, graph.deps, d, e)
      BY <2>1, <2>3, FirstStep DEF DependsOn
    <3>2. d \in deps(k) /\ m \in Transitive(d)
      BY <2>1, <3>1 DEF deps, DependsOn, Transitive
    <3> QED BY <3>2
  <2> QED BY <2>2, <2>3
<1> QED BY <1>2, <1>3, <1>4

\* What a key depends on reaches a cycle only if the key does.
LEMMA OffCycles ==
    ASSUME NEW k \in Key, NEW d \in Key, DependsOn(k, d), ~ReachesCycle(k)
    PROVE  ~ReachesCycle(d)
<1> SUFFICES ASSUME NEW c \in Key, DependsOn(d, c), NEW e \in deps(c), DependsOn(e, c)
             PROVE  FALSE
  BY DEF ReachesCycle
<1>1. DependsOn(k, c)
  BY ReachesTrans DEF DependsOn
<1> QED BY <1>1 DEF ReachesCycle

\* Dependencies are keys, which their key depends on.
LEMMA DepsFacts ==
    ASSUME NEW k \in Key, NEW d \in deps(k)
    PROVE  d \in Key /\ DependsOn(k, d)
<1>1. d \in Key /\ <<k, d>> \in graph.deps
  BY DEF deps, Successors
<1> QED BY <1>1, ReachesEdge DEF DependsOn

\* The notions of the graph do not change while the graph does not.
LEMMA GraphKept ==
    ASSUME graph' = graph
    PROVE  /\ \A k \in Key : /\ deps(k)' = deps(k)
                             /\ Transitive(k)' = Transitive(k)
                             /\ ReachesCycle(k)' <=> ReachesCycle(k)
           /\ \A k, d \in Key : DependsOn(k, d)' <=> DependsOn(k, d)
<1>1. \A k \in Key : deps(k)' = deps(k)
  BY DEF deps
<1>2. \A k, d \in Key : DependsOn(k, d)' <=> DependsOn(k, d)
  BY DEF DependsOn
<1>3. \A k \in Key : Transitive(k)' = Transitive(k)
  BY DEF Transitive, DependsOn
<1>4. \A k \in Key : ReachesCycle(k)' <=> ReachesCycle(k)
  BY DEF ReachesCycle, DependsOn, deps
<1> QED BY <1>1, <1>2, <1>3, <1>4

\* What holds of the innermost computation.
LEMMA TopFacts ==
    ASSUME StackInv, stack # <<>>
    PROVE  /\ Len(stack) \in Levels /\ top \in Key /\ entry[top] = "None"
           /\ \A i \in Levels : stack[i] \in Key /\ DependsOn(stack[i], top)
<1>1. stack \in Seq(Key) /\ Len(stack) \in Nat /\ Len(stack) # 0
  BY DEF StackInv, TypeOK
<1>2. Len(stack) \in Levels /\ \A i \in Levels : stack[i] \in Key
  BY <1>1 DEF Levels
<1>3. top \in Key /\ entry[top] = "None"
  BY <1>2 DEF top, StackInv, NoneOnStack
<1>4. \A i \in Levels : i <= Len(stack)
  BY <1>1 DEF Levels
<1>5. \A i \in Levels : DependsOn(stack[i], top)
  BY <1>2, <1>4 DEF top, StackInv, Chain
<1> QED BY <1>2, <1>3, <1>5

\* A key that has asked for everything, waits for nothing and is off cycles has
\* its complete set.
LEMMA Complete ==
    ASSUME IInv, NEW k \in Key, entry[k] # "absent", ~ReachesCycle(k),
           todo[k] = {}, \A d \in Key : ~Waits(k, d)
    PROVE  value[k] = Transitive(k)
<1>1. graph \in Graph
  BY DEF IInv, StackInv, TypeOK
<1>2. ASSUME NEW d \in deps(k) PROVE Transitive(d) \subseteq value[k]
  BY <1>2, DepsFacts DEF IInv, Collected
<1>3. graph.own[k] \subseteq value[k]
  BY DEF IInv, OwnHeld
<1>4. Transitive(k) \subseteq value[k]
  BY <1>1, <1>2, <1>3, TransitiveStep
<1> QED BY <1>4 DEF IInv, CacheSound

(***************************************************************************)
(* A cached set of a key off cycles is exact.                              *)
(***************************************************************************)
LEMMA Exact == IInv => ExactOffCycles
<1> SUFFICES ASSUME IInv, NEW k \in Key, entry[k] = "Some", ~ReachesCycle(k)
             PROVE  value[k] = Transitive(k)
  BY DEF ExactOffCycles
<1>1. todo[k] = {}
  BY DEF IInv, StackInv, TodoRight
<1>2. \A d \in Key : ~Waits(k, d)
  BY DEF Waits, IInv, StackInv, NoneOnStack
<1> QED BY <1>1, <1>2, Complete

-----------------------------------------------------------------------------
LEMMA InitIInv == Init => IInv
<1> SUFFICES ASSUME Init PROVE IInv
  OBVIOUS
<1>1. Levels = {} /\ \A k \in Key : entry[k] = "absent" /\ value[k] = {} /\ todo[k] = {}
  BY DEF Init, Empty, Levels
<1>2. TypeOK
  BY InputsAssumption DEF Init, Empty, TypeOK
<1>3. NoneOnStack /\ Chain /\ TodoRight
  BY <1>1 DEF NoneOnStack, Chain, TodoRight
<1>4. NoReentry
  BY <1>1 DEF NoReentry, Levels
<1>5. CacheSound /\ OwnHeld /\ Collected
  BY <1>1 DEF CacheSound, OwnHeld, Collected
<1> QED BY <1>2, <1>3, <1>4, <1>5 DEF IInv, StackInv

(***************************************************************************)
(* The computation of k starts: for a request from outside, or for the     *)
(* innermost computation, which then waits for it.                         *)
(***************************************************************************)
LEMMA Opened ==
    ASSUME IInv, NEW k \in Key, start(k), NEW rest, Compute(k, rest),
           graph' = graph, asked' \subseteq Key,
           \/ stack = <<>> /\ rest = todo
           \/ /\ stack # <<>> /\ k \in todo[top]
              /\ rest = [todo EXCEPT ![top] = @ \ {k}]
    PROVE  IInv'
<1> DEFINE n == Len(stack)
<1>1. /\ TypeOK /\ stack \in Seq(Key) /\ n \in Nat
      /\ \A i \in Levels : stack[i] \in Key
  BY DEF IInv, StackInv, TypeOK, Levels
<1>2. /\ stack' \in Seq(Key) /\ Len(stack') = n + 1 /\ stack'[n + 1] = k
      /\ \A i \in Levels : stack'[i] = stack[i]
  BY <1>1 DEF Compute, Levels
<1>3. Levels' = Levels \cup {n + 1} /\ n + 1 \notin Levels
  BY <1>1, <1>2 DEF Levels
<1>4. \A i \in Levels : stack[i] # k
  BY DEF IInv, StackInv, NoneOnStack, start
<1>5. rest \in [Key -> SUBSET Key] /\ \A x \in Key : rest[x] \subseteq todo[x]
  BY <1>1 DEF TypeOK
<1>6. \A x \in Key : /\ todo'[x] = IF x = k THEN deps(k) ELSE rest[x]
                     /\ entry'[x] = IF x = k THEN "None" ELSE entry[x]
                     /\ value'[x] = IF x = k THEN graph.own[k] ELSE value[x]
  BY <1>1, <1>5 DEF Compute, TypeOK
<1>7. stack # <<>> => DependsOn(top, k)
  BY TopFacts, DepsFacts DEF IInv, StackInv, TodoRight
<1>8. TypeOK'
  <2>1. graph.own[k] \in SUBSET Elem
    BY <1>1 DEF TypeOK, Graph
  <2>2. deps(k) \in SUBSET Key
    BY DEF deps, Successors
  <2> QED BY <1>1, <1>2, <1>5, <2>1, <2>2 DEF Compute, TypeOK
<1>9. NoneOnStack'
  BY <1>1, <1>2, <1>3, <1>4, <1>6 DEF IInv, StackInv, NoneOnStack
<1>10. NoReentry'
  <2> SUFFICES ASSUME NEW i \in Levels', NEW j \in Levels', stack'[i] = stack'[j] PROVE i = j
    BY DEF NoReentry, Levels
  <2> QED BY <1>2, <1>3, <1>4 DEF IInv, StackInv, NoReentry, Levels
<1>11. Chain'
  <2> SUFFICES ASSUME NEW i \in Levels', NEW j \in Levels', i <= j
               PROVE  DependsOn(stack'[i], stack'[j])
    BY GraphKept DEF Chain, DependsOn
  <2>1. CASE j \in Levels
    <3>1. i \in Levels
      BY <1>1, <1>3, <2>1 DEF Levels
    <3> QED BY <1>2, <2>1, <3>1 DEF IInv, StackInv, Chain
  <2>2. CASE i \in Levels /\ j = n + 1
    <3>1. stack # <<>>
      BY <1>1, <2>2 DEF Levels
    <3>2. DependsOn(stack[i], top) /\ top \in Key /\ stack[i] \in Key
      BY <2>2, <3>1, TopFacts DEF IInv
    <3> QED BY <1>2, <1>7, <2>2, <3>1, <3>2, ReachesTrans DEF DependsOn
  <2>3. CASE i = n + 1 /\ j = n + 1
    BY <1>2, <2>3, ReachesRefl DEF DependsOn
  <2> QED BY <1>1, <1>3, <2>1, <2>2, <2>3 DEF Levels
<1>12. TodoRight'
  <2> SUFFICES ASSUME NEW x \in Key
               PROVE  todo'[x] \subseteq deps(x) /\ (entry'[x] = "Some" => todo'[x] = {})
    BY GraphKept DEF TodoRight
  <2> QED BY <1>5, <1>6 DEF IInv, StackInv, TodoRight
<1>13. CacheSound'
  BY <1>1, <1>6, GraphKept, TransitiveStep DEF IInv, CacheSound, TypeOK
<1>14. OwnHeld'
  BY <1>6 DEF IInv, OwnHeld
<1>15. Collected'
  <2> SUFFICES ASSUME NEW x \in Key, entry'[x] # "absent", ~ReachesCycle(x), NEW d \in deps(x)
               PROVE  d \in todo'[x] \/ Waits(x, d)' \/ Transitive(d) \subseteq value'[x]
    BY GraphKept, DepsFacts DEF Collected
  <2>1. CASE x = k
    BY <1>6, <2>1
  <2>2. CASE x # k
    <3>1. entry[x] # "absent" /\ value'[x] = value[x] /\ todo'[x] = rest[x]
      BY <1>6, <2>2
    <3>2. d \in todo[x] \/ Waits(x, d) \/ Transitive(d) \subseteq value[x]
      BY <3>1 DEF IInv, Collected
    <3>3. ASSUME Waits(x, d) PROVE Waits(x, d)'
      BY <1>2, <1>3, <3>3 DEF Waits
    <3>4. ASSUME d \in todo[x], d \notin rest[x] PROVE Waits(x, d)'
      <4>1. stack # <<>> /\ x = top /\ d = k
        BY <1>1, <3>4 DEF TypeOK
      <4>2. n \in Levels /\ n + 1 \in Levels'
        BY <1>3, <4>1, TopFacts DEF IInv
      <4>3. n \in Levels' /\ stack'[n] = top /\ stack'[n + 1] = k
        BY <1>2, <1>3, <4>2 DEF top
      <4> QED BY <4>1, <4>2, <4>3 DEF Waits
    <3> QED BY <3>1, <3>2, <3>3, <3>4
  <2> QED BY <2>1, <2>2
<1> QED BY <1>8, <1>9, <1>10, <1>11, <1>12, <1>13, <1>14, <1>15 DEF IInv, StackInv

(***************************************************************************)
(* The innermost computation reads dependency d from the map.  Off cycles  *)
(* d is not under way: it would depend on the key that asks for it.        *)
(***************************************************************************)
LEMMA Read ==
    ASSUME IInv, stack # <<>>, NEW d \in todo[top], ~start(d),
           value' = [value EXCEPT ![top] = @ \cup read(d)],
           todo' = [todo EXCEPT ![top] = @ \ {d}],
           UNCHANGED <<graph, entry, stack>>, asked' \subseteq Key
    PROVE  IInv'
<1>1. /\ TypeOK /\ top \in Key /\ entry[top] = "None"
      /\ \A i \in Levels : stack[i] \in Key /\ DependsOn(stack[i], top)
  BY TopFacts DEF IInv, StackInv
<1>2. d \in Key /\ d \in deps(top) /\ DependsOn(top, d)
  BY <1>1, DepsFacts DEF IInv, StackInv, TodoRight
<1>3. read(d) \subseteq value[d]
  BY DEF read
<1>4. /\ \A x \in Key : value[x] \subseteq value'[x] /\ todo'[x] \subseteq todo[x]
      /\ \A x \in Key \ {top} : value'[x] = value[x] /\ todo'[x] = todo[x]
      /\ value'[top] = value[top] \cup read(d) /\ todo'[top] = todo[top] \ {d}
  BY <1>1 DEF TypeOK
<1>5. TypeOK'
  <2>1. value' \in [Key -> SUBSET Elem]
    BY <1>1, <1>2, <1>3 DEF TypeOK
  <2>2. todo' \in [Key -> SUBSET Key]
    BY <1>1 DEF TypeOK
  <2> QED BY <1>1, <2>1, <2>2 DEF TypeOK
<1>6. NoneOnStack' /\ NoReentry'
  BY DEF IInv, StackInv, NoneOnStack, NoReentry, Levels
<1>7. Chain'
  BY GraphKept DEF IInv, StackInv, Chain, Levels, DependsOn
<1>8. TodoRight'
  <2> SUFFICES ASSUME NEW x \in Key
               PROVE  todo'[x] \subseteq deps(x) /\ (entry'[x] = "Some" => todo'[x] = {})
    BY GraphKept DEF TodoRight
  <2> QED BY <1>4 DEF IInv, StackInv, TodoRight
<1>9. CacheSound'
  <2>1. value[d] \subseteq Transitive(top)
    BY <1>1, <1>2, TransitiveStep DEF IInv, CacheSound, TypeOK
  <2> SUFFICES ASSUME NEW x \in Key PROVE value'[x] \subseteq Transitive(x)
    BY GraphKept DEF CacheSound
  <2> QED BY <1>1, <1>3, <1>4, <2>1 DEF IInv, CacheSound
<1>10. OwnHeld'
  <2> SUFFICES ASSUME NEW x \in Key, entry[x] # "absent" PROVE graph.own[x] \subseteq value'[x]
    BY DEF OwnHeld
  <2> QED BY <1>4 DEF IInv, OwnHeld
<1>11. Collected'
  <2> SUFFICES ASSUME NEW x \in Key, entry[x] # "absent", ~ReachesCycle(x), NEW e \in deps(x)
               PROVE  e \in todo'[x] \/ Waits(x, e)' \/ Transitive(e) \subseteq value'[x]
    BY GraphKept, DepsFacts DEF Collected
  <2>1. e \in todo[x] \/ Waits(x, e) \/ Transitive(e) \subseteq value[x]
    BY DEF IInv, Collected
  <2>2. Waits(x, e) => Waits(x, e)'
    BY DEF Waits, Levels
  <2>3. CASE x = top /\ e = d
    <3>1. entry[d] # "None"
      <4> SUFFICES ASSUME entry[d] = "None" PROVE FALSE
        OBVIOUS
      <4>1. DependsOn(d, top)
        BY <1>1, <1>2 DEF IInv, StackInv, NoneOnStack
      <4>2. DependsOn(top, top)
        BY <1>1, ReachesRefl DEF DependsOn
      <4> QED BY <1>1, <1>2, <2>3, <4>1, <4>2 DEF ReachesCycle
    <3>2. entry[d] = "Some"
      BY <1>1, <1>2, <3>1 DEF TypeOK, start
    <3>3. ~ReachesCycle(d)
      BY <1>1, <1>2, <2>3, OffCycles
    <3>4. value[d] = Transitive(d)
      BY <1>2, <3>2, <3>3, Exact DEF ExactOffCycles
    <3> QED BY <1>4, <2>3, <3>2, <3>4 DEF read
  <2>4. CASE ~(x = top /\ e = d)
    BY <1>4, <2>1, <2>2, <2>4
  <2> QED BY <2>3, <2>4
<1> QED BY <1>5, <1>6, <1>7, <1>8, <1>9, <1>10, <1>11 DEF IInv, StackInv

(***************************************************************************)
(* The innermost computation is complete; the one below collects its set.  *)
(***************************************************************************)
LEMMA Returned ==
    ASSUME IInv, Return
    PROVE  IInv'
<1> DEFINE n == Len(stack)
           c == stack[n - 1]
<1>1. /\ TypeOK /\ stack \in Seq(Key) /\ n \in Nat /\ n # 0 /\ top = stack[n]
      /\ top \in Key /\ entry[top] = "None" /\ todo[top] = {}
      /\ \A i \in Levels : stack[i] \in Key /\ DependsOn(stack[i], top)
  BY TopFacts DEF IInv, StackInv, TypeOK, top, Return
<1>2. /\ stack' \in Seq(Key) /\ Len(stack') = n - 1
      /\ \A i \in 1 .. n - 1 : stack'[i] = stack[i]
  BY <1>1, Popped DEF Return
<1>3. Levels' = 1 .. n - 1 /\ Levels = Levels' \cup {n} /\ n \notin Levels'
  BY <1>1, <1>2 DEF Levels
<1>4. \A i \in Levels' : stack'[i] = stack[i] /\ stack[i] # top
  <2>1. n \in Levels /\ stack[n] = top
    BY <1>1, <1>3
  <2> QED BY <1>2, <1>3, <2>1 DEF IInv, StackInv, NoReentry, Levels
<1>5. /\ graph' = graph /\ todo' = todo /\ asked' = asked
      /\ \A x \in Key : entry'[x] = IF x = top THEN "Some" ELSE entry[x]
  BY <1>1 DEF Return, TypeOK
<1>6. n # 1 => c \in Key /\ DependsOn(c, top) /\ n - 1 \in Levels /\ c # top
  <2>1. n # 1 => n - 1 \in 1 .. n - 1
    BY <1>1, Predecessor
  <2> QED BY <1>1, <1>3, <1>4, <2>1
<1>7. \A x \in Key : value'[x] = IF n # 1 /\ x = c THEN value[x] \cup value[top] ELSE value[x]
  BY <1>1, <1>6 DEF Return, TypeOK
<1>8. TypeOK'
  <2>1. value' \in [Key -> SUBSET Elem]
    BY <1>1, <1>6 DEF Return, TypeOK
  <2>2. entry' \in [Key -> {"absent", "None", "Some"}]
    BY <1>1 DEF Return, TypeOK
  <2> QED BY <1>1, <1>2, <1>5, <2>1, <2>2 DEF TypeOK
<1>9. NoneOnStack'
  <2> SUFFICES ASSUME NEW x \in Key
               PROVE  entry'[x] = "None" <=> \E i \in Levels' : stack'[i] = x
    BY DEF NoneOnStack
  <2>1. CASE x = top
    BY <1>4, <1>5, <2>1
  <2>2. CASE x # top
    <3>1. (\E i \in Levels : stack[i] = x) <=> \E i \in Levels' : stack'[i] = x
      BY <1>1, <1>3, <1>4, <2>2
    <3> QED BY <1>5, <2>2, <3>1 DEF IInv, StackInv, NoneOnStack
  <2> QED BY <2>1, <2>2
<1>10. NoReentry'
  <2> SUFFICES ASSUME NEW i \in Levels', NEW j \in Levels', stack'[i] = stack'[j] PROVE i = j
    BY DEF NoReentry, Levels
  <2> QED BY <1>3, <1>4 DEF IInv, StackInv, NoReentry, Levels
<1>11. Chain'
  <2> SUFFICES ASSUME NEW i \in Levels', NEW j \in Levels', i <= j
               PROVE  DependsOn(stack'[i], stack'[j])
    BY <1>5, GraphKept DEF Chain, DependsOn
  <2> QED BY <1>3, <1>4 DEF IInv, StackInv, Chain
<1>12. TodoRight'
  <2> SUFFICES ASSUME NEW x \in Key
               PROVE  todo'[x] \subseteq deps(x) /\ (entry'[x] = "Some" => todo'[x] = {})
    BY <1>5, GraphKept DEF TodoRight
  <2> QED BY <1>1, <1>5 DEF IInv, StackInv, TodoRight
<1>13. CacheSound'
  <2>1. n # 1 => value[top] \subseteq Transitive(c)
    BY <1>1, <1>6, TransitiveStep DEF IInv, CacheSound, TypeOK
  <2> SUFFICES ASSUME NEW x \in Key PROVE value'[x] \subseteq Transitive(x)
    BY <1>5, GraphKept DEF CacheSound
  <2> QED BY <1>7, <2>1 DEF IInv, CacheSound
<1>14. OwnHeld'
  <2> SUFFICES ASSUME NEW x \in Key, entry'[x] # "absent" PROVE graph.own[x] \subseteq value'[x]
    BY <1>5 DEF OwnHeld
  <2>1. entry[x] # "absent"
    BY <1>1, <1>5
  <2> QED BY <1>7, <2>1 DEF IInv, OwnHeld
<1>15. Collected'
  <2> SUFFICES ASSUME NEW x \in Key, entry'[x] # "absent", ~ReachesCycle(x), NEW d \in deps(x)
               PROVE  d \in todo'[x] \/ Waits(x, d)' \/ Transitive(d) \subseteq value'[x]
    BY <1>5, GraphKept, DepsFacts DEF Collected
  <2>1. entry[x] # "absent"
    BY <1>1, <1>5
  <2>2. d \in todo[x] \/ Waits(x, d) \/ Transitive(d) \subseteq value[x]
    BY <2>1 DEF IInv, Collected
  <2>3. value[x] \subseteq value'[x]
    BY <1>7
  <2>4. ASSUME Waits(x, d) PROVE Waits(x, d)' \/ Transitive(d) \subseteq value'[x]
    <3>1. PICK i \in Levels : i + 1 \in Levels /\ stack[i] = x /\ stack[i + 1] = d
      BY <2>4 DEF Waits
    <3>2. CASE i + 1 \in Levels'
      <4>1. i \in Levels'
        BY <1>1, <1>3, <3>1, <3>2
      <4> QED BY <1>4, <3>1, <3>2, <4>1 DEF Waits
    <3>3. CASE i + 1 = n
      <4>1. n # 1 /\ x = c /\ d = top
        BY <1>1, <1>3, <3>1, <3>3
      <4>2. ~ReachesCycle(top)
        BY <1>1, <1>6, <4>1, OffCycles
      <4>3. ASSUME NEW e \in Key, Waits(top, e) PROVE FALSE
        <5>1. PICK j \in Levels : j + 1 \in Levels /\ stack[j] = top
          BY <4>3 DEF Waits
        <5>2. j \in Levels'
          BY <1>1, <1>3, <5>1
        <5> QED BY <1>4, <5>1, <5>2
      <4>4. value[top] = Transitive(top)
        BY <1>1, <4>2, <4>3, Complete
      <4> QED BY <1>7, <4>1, <4>4
    <3> QED BY <1>3, <3>1, <3>2, <3>3
  <2> QED BY <1>5, <2>2, <2>3, <2>4
<1> QED BY <1>8, <1>9, <1>10, <1>11, <1>12, <1>13, <1>14, <1>15 DEF IInv, StackInv

\* A step that leaves the computations alone preserves the invariant.
LEMMA Idle ==
    ASSUME IInv, UNCHANGED <<graph, entry, value, stack, todo>>, asked' \subseteq Key
    PROVE  IInv'
<1>1. StackInv'
  BY GraphKept DEF IInv, StackInv, TypeOK, NoneOnStack, NoReentry, Chain, TodoRight, Levels, DependsOn
<1>2. CacheSound' /\ OwnHeld'
  BY GraphKept DEF IInv, CacheSound, OwnHeld
<1>3. Collected'
  BY GraphKept, DepsFacts DEF IInv, Collected, Waits, Levels
<1> QED BY <1>1, <1>2, <1>3 DEF IInv

LEMMA IInvStep == IInv /\ [Next]_vars => IInv'
<1> SUFFICES ASSUME IInv, [Next]_vars PROVE IInv'
  OBVIOUS
<1>1. asked \subseteq Key
  BY DEF IInv, StackInv, TypeOK
<1>2. ASSUME NEW k \in Key, Query(k) PROVE IInv'
  BY <1>1, <1>2, Opened DEF Query
<1>3. ASSUME NEW k \in Key, Hit(k) PROVE IInv'
  BY <1>1, <1>3, Idle DEF Hit
<1>4. ASSUME NEW d \in Key, Ask(d) PROVE IInv'
  <2>1. CASE start(d)
    BY <1>1, <1>4, <2>1, Opened DEF Ask
  <2>2. CASE ~start(d)
    BY <1>1, <1>4, <2>2, Read DEF Ask
  <2> QED BY <2>1, <2>2
<1>5. CASE Return
  BY <1>5, Returned
<1>6. CASE UNCHANGED vars
  BY <1>1, <1>6, Idle DEF vars
<1> QED BY <1>2, <1>3, <1>4, <1>5, <1>6 DEF Next, Computing

LEMMA Invariance == Spec => []IInv
  BY InitIInv, IInvStep, PTL DEF Spec

(***************************************************************************)
(* What the first request gathers.                                         *)
(***************************************************************************)
\* Before the first request nothing is opened.
LEMMA InitFirstInv == Init => FirstInv
<1> SUFFICES ASSUME Init PROVE FirstInv
  OBVIOUS
<1>1. AskedFirst /\ OpenedDeps
  BY DepsFacts DEF Init, Empty, AskedFirst, OpenedDeps
<1>2. Gathered
  BY DEF Init, Empty, Gathered
<1> QED BY <1>1, <1>2, InitIInv DEF FirstInv

\* A computation is started for k; r is what its caller has yet to ask for.
LEMMA OpenedFirst ==
    ASSUME FirstInv, IInv', NEW k \in Key, start(k), graph' = graph,
           NEW r \in [Key -> SUBSET Key], Compute(k, r),
           \A x \in Key : r[x] \subseteq todo[x] /\ todo[x] \subseteq r[x] \cup {k},
           \/ asked' = asked \cup {k} /\ stack = <<>>
           \/ asked' = asked /\ stack # <<>>
    PROVE  FirstInv'
<1> DEFINE n == Len(stack)
<1>1. TypeOK /\ stack \in Seq(Key) /\ n \in Nat /\ (stack # <<>> <=> n # 0)
  BY DEF FirstInv, IInv, StackInv, TypeOK
<1>2. /\ Len(stack') = n + 1 /\ stack'[n + 1] = k
      /\ \A i \in 1 .. n : stack'[i] = stack[i]
  BY <1>1 DEF Compute
<1>3. Levels = 1 .. n /\ Levels' = Levels \cup {n + 1} /\ stack' # <<>>
  BY <1>1, <1>2 DEF Levels
<1>4. \A i \in Levels : stack[i] # k /\ stack[i] \in Key
  BY <1>1, <1>3 DEF FirstInv, IInv, StackInv, NoneOnStack, start
<1>5. \A x \in Key : /\ todo'[x] = IF x = k THEN deps(k) ELSE r[x]
                     /\ entry'[x] = IF x = k THEN "None" ELSE entry[x]
                     /\ value'[x] = IF x = k THEN graph.own[k] ELSE value[x]
  BY <1>1 DEF Compute, TypeOK
<1>6. AskedFirst'
  BY DEF FirstInv, AskedFirst
<1>7. OpenedDeps'
  <2> SUFFICES ASSUME NEW x \in Key, entry'[x] # "absent", NEW d \in deps(x)
               PROVE  d \in todo'[x] \/ entry'[d] # "absent"
    BY GraphKept DEF OpenedDeps
  <2>1. d \in Key
    BY DepsFacts
  <2> QED BY <1>5, <2>1 DEF FirstInv, OpenedDeps
<1>8. Gathered'
  <2> SUFFICES ASSUME NEW a \in Key, asked' = {a}
               PROVE  /\ entry'[a] # "absent"
                      /\ stack'[1] = a
                      /\ \A d \in Key : entry'[d] # "absent" => graph.own[d] \subseteq Held(a)'
    BY DEF Gathered
  <2>1. graph.own[k] \subseteq Held(a)'
    BY <1>2, <1>3, <1>5 DEF Held
  <2>2. CASE stack = <<>>
    <3>1. a = k
      BY <2>2
    <3>2. asked = {} \/ asked = {k}
      BY <2>2
    <3>3. \A d \in Key : entry[d] = "absent"
      BY <3>2 DEF FirstInv, AskedFirst, Gathered, start
    <3> QED BY <1>1, <1>2, <1>5, <2>1, <2>2, <3>1, <3>3
  <2>3. CASE stack # <<>>
    <3>1. asked = {a}
      BY <2>3
    <3>2. /\ entry[a] # "absent" /\ stack[1] = a /\ a # k
          /\ \A d \in Key : entry[d] # "absent" => graph.own[d] \subseteq Held(a)
      BY <2>3, <3>1 DEF FirstInv, Gathered, start
    <3>3. Held(a) \subseteq Held(a)'
      BY <1>2, <1>3, <1>4, <1>5, <3>2 DEF Held
    <3>4. 1 \in 1 .. n
      BY <1>1, <2>3
    <3> QED BY <1>2, <1>5, <2>1, <3>2, <3>3, <3>4
  <2> QED BY <2>2, <2>3
<1> QED BY <1>6, <1>7, <1>8 DEF FirstInv

\* Dependency d is read from the map.
LEMMA ReadFirst ==
    ASSUME FirstInv, IInv', stack # <<>>, NEW d \in todo[top], ~start(d),
           value' = [value EXCEPT ![top] = @ \cup read(d)],
           todo' = [todo EXCEPT ![top] = @ \ {d}],
           UNCHANGED <<graph, entry, stack, asked>>
    PROVE  FirstInv'
<1>1. TypeOK /\ top \in Key
  BY TopFacts DEF FirstInv, IInv, StackInv
<1>2. \A x \in Key : value[x] \subseteq value'[x] /\ todo[x] \subseteq todo'[x] \cup {d}
  BY <1>1 DEF TypeOK
<1>3. d \in Key /\ entry[d] # "absent"
  BY <1>1 DEF TypeOK, start
<1>4. AskedFirst'
  BY DEF FirstInv, AskedFirst
<1>5. OpenedDeps'
  <2> SUFFICES ASSUME NEW x \in Key, entry[x] # "absent", NEW e \in deps(x)
               PROVE  e \in todo'[x] \/ entry[e] # "absent"
    BY GraphKept DEF OpenedDeps
  <2> QED BY <1>2, <1>3 DEF FirstInv, OpenedDeps
<1>6. Gathered'
  <2> SUFFICES ASSUME NEW a \in Key, asked = {a}
               PROVE  /\ entry[a] # "absent"
                      /\ stack # <<>> => stack[1] = a
                      /\ \A e \in Key : entry[e] # "absent" => graph.own[e] \subseteq Held(a)'
    BY DEF Gathered
  <2>1. \A i \in Levels : stack[i] \in Key
    BY TopFacts DEF FirstInv, IInv
  <2>2. Held(a) \subseteq Held(a)'
    BY <1>2, <2>1 DEF Held, Levels
  <2> QED BY <2>2 DEF FirstInv, Gathered
<1> QED BY <1>4, <1>5, <1>6 DEF FirstInv

\* The innermost set passes to the level below, or is that of the first request.
LEMMA ReturnedFirst ==
    ASSUME FirstInv, IInv', Return
    PROVE  FirstInv'
<1> DEFINE n == Len(stack)
           c == stack[n - 1]
<1>1. /\ TypeOK /\ stack \in Seq(Key) /\ n \in Nat /\ n # 0 /\ top = stack[n]
      /\ top \in Key /\ entry[top] = "None" /\ todo[top] = {}
      /\ \A i \in Levels : stack[i] \in Key
  BY TopFacts DEF FirstInv, IInv, StackInv, TypeOK, top, Return
<1>2. Len(stack') = n - 1 /\ \A i \in 1 .. n - 1 : stack'[i] = stack[i]
  BY <1>1, Popped DEF Return
<1>3. Levels' = 1 .. n - 1 /\ Levels = Levels' \cup {n}
  BY <1>1, <1>2 DEF Levels
<1>4. /\ graph' = graph /\ todo' = todo /\ asked' = asked
      /\ \A x \in Key : entry'[x] = IF x = top THEN "Some" ELSE entry[x]
  BY <1>1 DEF Return, TypeOK
<1>5. n # 1 => c \in Key /\ n - 1 \in Levels'
  <2>1. n # 1 => n - 1 \in 1 .. n - 1
    BY <1>1, Predecessor
  <2> QED BY <1>1, <1>3, <2>1
<1>6. \A x \in Key : value'[x] = IF n # 1 /\ x = c THEN value[x] \cup value[top] ELSE value[x]
  BY <1>1, <1>5 DEF Return, TypeOK
<1>7. AskedFirst'
  BY <1>4 DEF FirstInv, AskedFirst, Return
<1>8. OpenedDeps'
  <2> SUFFICES ASSUME NEW x \in Key, entry'[x] # "absent", NEW d \in deps(x)
               PROVE  d \in todo[x] \/ entry'[d] # "absent"
    BY <1>4, GraphKept DEF OpenedDeps
  <2>1. d \in Key /\ entry[x] # "absent"
    BY <1>1, <1>4, DepsFacts
  <2> QED BY <1>4, <2>1 DEF FirstInv, OpenedDeps
<1>9. Gathered'
  <2> SUFFICES ASSUME NEW a \in Key, asked = {a}
               PROVE  /\ entry'[a] # "absent"
                      /\ stack' # <<>> => stack'[1] = a
                      /\ \A d \in Key : entry'[d] # "absent" => graph.own[d] \subseteq Held(a)'
    BY <1>4 DEF Gathered
  <2>1. /\ entry[a] # "absent" /\ stack[1] = a
        /\ \A d \in Key : entry[d] # "absent" => graph.own[d] \subseteq Held(a)
    BY DEF FirstInv, Gathered, Return
  <2>2. stack' # <<>> => stack'[1] = a
    <3> SUFFICES ASSUME stack' # <<>> PROVE 1 \in 1 .. n - 1
      BY <1>2, <2>1
    <3>1. stack' \in Seq(Key)
      BY DEF IInv, StackInv, TypeOK
    <3>2. Len(stack') \in Nat /\ Len(stack') # 0
      BY <3>1
    <3> QED BY <1>1, <1>2, <3>2
  <2>3. Held(a) \subseteq Held(a)'
    <3> SUFFICES ASSUME NEW m \in Held(a) PROVE m \in Held(a)'
      OBVIOUS
    <3>1. CASE m \in value[a]
      BY <1>6, <3>1 DEF Held
    <3>2. ASSUME NEW i \in Levels', m \in value[stack[i]] PROVE m \in Held(a)'
      <4>1. m \in value'[stack'[i]]
        BY <1>1, <1>2, <1>3, <1>6, <3>2
      <4> QED BY <4>1 DEF Held
    <3>3. CASE m \in value[top]
      <4>1. CASE n = 1
        BY <1>1, <1>6, <2>1, <3>3, <4>1 DEF Held
      <4>2. CASE n # 1
        <5>1. m \in value'[stack'[n - 1]]
          BY <1>2, <1>3, <1>5, <1>6, <3>3, <4>2
        <5> QED BY <1>5, <4>2, <5>1 DEF Held
      <4> QED BY <4>1, <4>2
    <3> QED BY <1>1, <1>3, <3>1, <3>2, <3>3 DEF Held
  <2>4. \A d \in Key : entry'[d] # "absent" => entry[d] # "absent"
    BY <1>1, <1>4
  <2> QED BY <1>4, <2>1, <2>2, <2>3, <2>4
<1> QED BY <1>7, <1>8, <1>9 DEF FirstInv

LEMMA FirstInvStep == FirstInv /\ [Next]_vars => FirstInv'
<1> SUFFICES ASSUME FirstInv, [Next]_vars PROVE FirstInv'
  OBVIOUS
<1>1. TypeOK /\ IInv'
  BY IInvStep DEF FirstInv, IInv, StackInv
<1>2. ASSUME NEW k \in Key, Query(k) PROVE FirstInv'
  <2>1. todo \in [Key -> SUBSET Key] 
    BY <1>1 DEF TypeOK
  <2>2. /\ start(k) /\ Compute(k, todo) /\ graph' = graph
        /\ asked' = asked \cup {k} /\ stack = <<>>
    BY <1>2 DEF Query
  <2>3. \A x \in Key : todo[x] \subseteq todo[x] /\ todo[x] \subseteq todo[x] \cup {k}
    OBVIOUS
  <2> QED BY ONLY FirstInv, <1>1, <2>1, <2>2, <2>3, OpenedFirst
<1>3. ASSUME UNCHANGED <<graph, entry, value, stack, todo>>,
             asked' = asked \/ \E k \in Key : ~start(k) /\ asked' = asked \cup {k}
      PROVE  FirstInv'
  <2>1. AskedFirst'
    BY <1>3 DEF FirstInv, AskedFirst
  <2>2. OpenedDeps'
    BY <1>3, GraphKept DEF FirstInv, OpenedDeps
  <2>3. \A k \in Key : Held(k)' = Held(k)
    BY <1>3 DEF Held, Levels
  <2>4. \A k \in Key : asked' = {k} => asked = {k}
    BY <1>3 DEF FirstInv, AskedFirst, start
  <2>5. Gathered'
    BY <1>3, <2>3, <2>4 DEF FirstInv, Gathered
  <2> QED BY <1>1, <2>1, <2>2, <2>5 DEF FirstInv
<1>4. ASSUME NEW k \in Key, Hit(k) PROVE FirstInv'
  BY <1>3, <1>4 DEF Hit
<1>5. ASSUME NEW d \in Key, Ask(d) PROVE FirstInv'
  <2>1. top \in Key
    BY <1>5, TopFacts DEF Ask, FirstInv, IInv
  <2>2. CASE start(d)
    <3> DEFINE rest == [todo EXCEPT ![top] = @ \ {d}]
    <3>1. rest \in [Key -> SUBSET Key]
      BY <1>1, <2>1 DEF TypeOK
    <3>2. \A x \in Key : rest[x] \subseteq todo[x] /\ todo[x] \subseteq rest[x] \cup {d}
      BY <1>1, <2>1 DEF TypeOK
    <3>3. Compute(d, rest) /\ stack # <<>> /\ graph' = graph /\ asked' = asked
      BY <1>5, <2>2 DEF Ask
    <3> HIDE DEF rest
    <3> QED BY <1>1, <2>2, <3>1, <3>2, <3>3, OpenedFirst
  <2>3. CASE ~start(d)
    BY <1>1, <1>5, <2>3, ReadFirst DEF Ask
  <2> QED BY <2>2, <2>3
<1>6. CASE Return
  BY <1>1, <1>6, ReturnedFirst
<1>7. CASE UNCHANGED vars
  BY <1>3, <1>7 DEF vars
<1> QED BY <1>2, <1>4, <1>5, <1>6, <1>7 DEF Next, Computing

\* With the first request answered, the opened keys are closed under deps.
LEMMA FirstExact == FirstInv => FirstAnswerExact
<1> SUFFICES ASSUME FirstInv, NEW k \in Key, asked = {k}, stack = <<>>
             PROVE  value[k] = Transitive(k)
  BY DEF FirstAnswerExact
<1> DEFINE opened == {x \in Key : entry[x] # "absent"}
<1>1. TypeOK /\ Levels = {}
  BY DEF FirstInv, IInv, StackInv, Levels
<1>2. \A x \in opened : todo[x] = {}
  BY <1>1 DEF FirstInv, IInv, StackInv, NoneOnStack, TodoRight, TypeOK
<1>3. ClosedUnder(Key, graph.deps, opened)
  <2> SUFFICES ASSUME NEW x \in opened, NEW y \in Key, <<x, y>> \in graph.deps
               PROVE  y \in opened
    BY DEF ClosedUnder
  <2>1. y \in deps(x)
    BY DEF deps, Successors
  <2> QED BY <1>2, <2>1 DEF FirstInv, OpenedDeps
<1>4. k \in opened /\ \A d \in opened : graph.own[d] \subseteq value[k]
  BY <1>1 DEF FirstInv, Gathered, Held
<1>5. \A d \in Key : DependsOn(k, d) => d \in opened
  BY <1>3, <1>4, ClosedHoldsReached DEF DependsOn
<1>6. Transitive(k) \subseteq value[k]
  BY <1>4, <1>5 DEF Transitive
<1> QED BY <1>6 DEF FirstInv, IInv, CacheSound

-----------------------------------------------------------------------------
(***************************************************************************)
(* The variables keep their types.                                         *)
(***************************************************************************)
THEOREM Typing == Spec => []TypeOK
<1>1. IInv => TypeOK
  BY DEF IInv, StackInv
<1> QED BY <1>1, Invariance, PTL

(***************************************************************************)
(* Soundness: no key ever holds a marker that is not transitively there,   *)
(* on any graph and in any order of requests.                              *)
(***************************************************************************)
THEOREM Soundness == Spec => []CacheSound
<1>1. IInv => CacheSound
  BY DEF IInv
<1> QED BY <1>1, Invariance, PTL

(***************************************************************************)
(* Off cycles the cached set is complete, whatever was asked for before.   *)
(***************************************************************************)
THEOREM Completeness == Spec => []ExactOffCycles
  BY Exact, Invariance, PTL

(***************************************************************************)
(* The first request is answered completely, cycles or not: what an inner  *)
(* computation missed is collected on the way back to the request.         *)
(***************************************************************************)
THEOREM FirstRequest == Spec => []FirstAnswerExact
  BY InitFirstInv, FirstInvStep, FirstExact, PTL DEF Spec

(***************************************************************************)
(* Both together.                                                          *)
(***************************************************************************)
THEOREM Exactness == Spec => []AnswersExact
BY Completeness, FirstRequest, PTL DEF AnswersExact

(***************************************************************************)
(* The cache never starts a computation that is under way: the recursion   *)
(* of get_maybe_recursive is as deep as there are keys at most.            *)
(***************************************************************************)
THEOREM NoKeyTwice == Spec => []NoReentry
<1>1. IInv => NoReentry
  BY DEF IInv, StackInv
<1> QED BY <1>1, Invariance, PTL

\* No step touches a cached set.
LEMMA FinalStep ==
    IInv /\ [Next]_vars =>
        \A k \in Key : entry[k] = "Some" => entry'[k] = "Some" /\ value'[k] = value[k]
<1> SUFFICES ASSUME IInv, [Next]_vars, NEW k \in Key, entry[k] = "Some"
             PROVE  entry'[k] = "Some" /\ value'[k] = value[k]
  OBVIOUS
<1>1. TypeOK
  BY DEF IInv, StackInv
<1>2. ASSUME NEW q \in Key, Query(q) PROVE entry'[k] = "Some" /\ value'[k] = value[k]
  BY <1>1, <1>2 DEF Query, Compute, start, TypeOK
<1>3. ASSUME NEW q \in Key, Hit(q) PROVE entry'[k] = "Some" /\ value'[k] = value[k]
  BY <1>3 DEF Hit
<1>4. ASSUME NEW d \in Key, Ask(d) PROVE entry'[k] = "Some" /\ value'[k] = value[k]
  <2>1. top \in Key /\ k # top
    BY <1>4, TopFacts DEF Ask, IInv
  <2> QED BY <1>1, <1>4, <2>1 DEF Ask, Compute, start, TypeOK
<1>5. ASSUME Return PROVE entry'[k] = "Some" /\ value'[k] = value[k]
  <2>1. top \in Key /\ k # top /\ Len(stack) \in Nat
    BY <1>1, <1>5, TopFacts DEF Return, IInv, TypeOK
  <2>2. Len(stack) # 1 => k # stack[Len(stack) - 1]
    <3>1. Len(stack) # 0
      BY <1>1, <1>5 DEF Return, TypeOK
    <3>2. Len(stack) # 1 => Len(stack) - 1 \in Levels
      BY <2>1, <3>1, Predecessor DEF Levels
    <3> QED BY <1>1, <3>2 DEF IInv, StackInv, NoneOnStack, TypeOK, Levels
  <2> QED BY <1>1, <1>5, <2>1, <2>2 DEF Return, TypeOK
<1>6. CASE UNCHANGED vars
  BY <1>6 DEF vars
<1> QED BY <1>2, <1>3, <1>4, <1>5, <1>6 DEF Next, Computing

(***************************************************************************)
(* A cached set never changes again, which references to it rely on.       *)
(***************************************************************************)
THEOREM Finality == Spec => AnswersFinal
<1>1. IInv /\ [Next]_vars =>
        [\A k \in Key : entry[k] = "Some" => entry'[k] = "Some" /\ value'[k] = value[k]]_vars
  BY FinalStep
<1> QED BY <1>1, Invariance, PTL DEF Spec, AnswersFinal
=============================================================================
