----------------------------- MODULE LocalFlows ------------------------------
(***************************************************************************)
(* What the dependence graph of a body has to mean: the flows of values    *)
(* along its executions, stated without the analysis.  A value sits in a   *)
(* place at a point of an execution; an instruction carries it on to the   *)
(* places it mutates from what it reads, and it is gone from a place when  *)
(* that place is certainly overwritten.                                    *)
(***************************************************************************)
EXTENDS LocalAnalysis

\* A point is before a location, or <<b, Len + 1>> at the end of block b.
Point == UNION {{b} \X (1 .. Len(code(b)) + 1) : b \in Block}
is_location(pt) == pt[2] <= Len(code(pt[1]))
behind(l) == <<l[1], l[2] + 1>>
successors(pt) ==
    IF is_location(pt) THEN {behind(pt)}
    ELSE {<<b, 1>> : b \in Successors(Block, body.cfg, pt[1])}
returning(pt) == ~is_location(pt) /\ terminator(pt[1]).kind = "return"

\* A value in k is part of what is read at p.
touches(k, p) == \E a \in UNION {Aliases[q] : q \in {p} \cup Refs[p]} : <<k, a>> \in Conflicts

reads_from(m, k) == \E i \in DOMAIN m.inputs : touches(k, m.inputs[i])

\* What an argument gives an unknown function access to.
accessible(c) ==
    arguments(c) \cup UNION {{Reachable[a][i] : i \in DOMAIN Reachable[a]} : a \in arguments(c)}

inlines(c) == c.kind = "call" /\ c.handling = "ready"
modular(c) == c.kind = "call" /\ c.handling = "fallback"

\* The places a value in k gets to when c is executed.
gained(c, k) ==
    UNION {Aliases[p] : p \in
        CASE c.kind = "switch" -> {}
          [] inlines(c) -> {f[2] : f \in {f \in c.flows : touches(k, f[1])}}
          [] modular(c) ->
                 IF \E v \in accessible(c) : touches(k, v)
                 THEN {c.destination} \cup UNION {ReachableMut[a] \ {a} : a \in arguments(c)}
                 ELSE {}
          [] OTHER -> {m.mutated : m \in {m \in c.mutations : reads_from(m, k)}}}

\* The places that c writes on all its paths and under no other name.
overwritten(c) ==
    UNION {Aliases[p] : p \in {p \in
        CASE c.kind = "switch" -> {}
          [] inlines(c) -> c.writes \ c.maybe
          [] modular(c) -> {c.destination}
          [] OTHER -> {m.mutated : m \in c.mutations} : Cardinality(Aliases[p]) = 1}}

\* One step of an execution with a value in place v[2] at point v[1].
step(v) ==
    LET c == at(v[1])
        on == IF is_location(v[1])
              THEN gained(c, v[2]) \cup ({v[2]} \ overwritten(c)) ELSE {v[2]}
    IN  successors(v[1]) \X on

\* One step in which the analysis does not take v[2] to be mutated.
keep(v) == IF is_location(v[1]) /\ v[2] \in written(v[1]) THEN {} ELSE successors(v[1]) \X {v[2]}

Value == Point \X Place
Carried(V) == ReachedFrom(Value, UNION {{v} \X step(v) : v \in Value}, V)
Kept(V) == ReachedFrom(Value, UNION {{v} \X keep(v) : v \in Value}, V)

\* The nodes that edges in E lead to from those in N.
Downstream(N, E) ==
    ReachedFrom(N \cup {e.to : e \in E}, {<<e.from, e.to>> : e \in E}, N)

data == {e \in edges : e.kind = "Data"}

\* What Flowistry says of places: a place conflicts with itself, is reachable from
\* itself and whatever is reachable mutably is reachable; what conflicts with an
\* argument is of the same local, so it is an argument (is_arg).
ASSUME PlaceInfoAssumption ==
    /\ \A p \in Place : <<p, p>> \in Conflicts
    /\ \A p \in Place : \E i \in DOMAIN Reachable[p] : Reachable[p][i] = p
    /\ \A p \in Place : \A q \in ReachableMut[p] : \E i \in DOMAIN Reachable[p] : Reachable[p][i] = q
    /\ \A a \in Arg, p \in UNION {Aliases[q] : q \in Place} : <<a, p>> \in Conflicts => p \in Arg

-----------------------------------------------------------------------------
\* The values to follow: those written somewhere and those the arguments bring.
\* What an argument brings has a node for each place in which it may be read.
sources ==
    {[nodes |-> {node(w[2], w[1])}, value |-> <<behind(w[1]), w[2]>>] :
        w \in {w \in reachable_locations \X Place : w[2] \in written(w[1])}}
    \cup {[nodes |-> {node(b, Start) : b \in {b \in Arg : <<a, b>> \in Conflicts}},
           value |-> <<<<Entry, 1>>, a>>] : a \in Arg}

(***************************************************************************)
(* No flow is missing: where an execution carries a value on, the graph    *)
(* has a path of data edges from the node the value comes from to the node *)
(* it goes to, and to the end of the body if callers see it there.  (An    *)
(* argument that still holds what it came with has no node at the end.)    *)
(***************************************************************************)
FlowsFound ==
    phase = "done" =>
        \A s \in sources :
            LET D == Downstream(s.nodes, data)
            IN  \A v \in Carried({s.value}) :
                    /\ is_location(v[1]) =>
                           \A q \in gained(at(v[1]), v[2]) : node(q, v[1]) \in D
                    /\ returning(v[1]) /\ v[2] \in Exposed /\ s.value # <<<<Entry, 1>>, v[2]>> =>
                           node(v[2], End) \in D

\* The points at which the target of a data edge reads.
read_at(e) ==
    IF e.to.at = End
    THEN {<<b, Len(code(b)) + 1>> : b \in {b \in Block : terminator(b).kind = "return"}}
    ELSE IF e.to.at \in Location THEN {e.to.at} ELSE {e.to.at[1]}

(***************************************************************************)
(* A data edge leaves from a most recent mutation: on some path from its   *)
(* source to its target the place is not mutated again.  The two halves of *)
(* a call that is not inlined are joined at one location.                  *)
(***************************************************************************)
LastMutations ==
    phase = "done" =>
        \A e \in data :
            e.from.at \in Location =>
                \/ \E pt \in read_at(e) : <<pt, e.from.place>> \in Kept({<<behind(e.from.at), e.from.place>>})
                \/ e.to.at = e.from.at /\ at(e.to.at).kind = "call"

\* b depends on a branch that has a place, through others that have one or
\* through calls and the like, which branch only to unwind.
branches_of(b) ==
    LET R == {e \in body.control : terminator(e[2]).kind = "switch" => terminator(e[2]).discr # None}
    IN  {d \in Block : /\ terminator(d).kind = "switch" /\ terminator(d).discr # None
                       /\ \E x \in Block : <<b, x>> \in R /\ Reaches(Block, R, x, d)}

(***************************************************************************)
(* No implicit flow is missing: what decides, directly or through other    *)
(* decisions, whether a mutation is executed reaches its node.             *)
(***************************************************************************)
ControlFound ==
    phase = "done" =>
        \A n \in nodes : n.at \in reachable_locations =>
            \A d \in branches_of(n.at[1]) :
                n \in Downstream({node(terminator(d).discr, terminator_loc(d))}, edges)

overlap(e, f) == <<e.from.place, f.from.place>> \notin Distinct

\* The data edges to a node for which one mutation was registered.
inputs_of(n) ==
    IF n.at \in Location /\ at(n.at).kind = "statement" /\ \A m, o \in at(n.at).mutations : m = o
    THEN {e \in data : e.to = n} ELSE {}

\* q is p, or a part of it.
Projects(p, q) ==
    /\ local[p] = local[q] /\ Len(projection[p]) <= Len(projection[q])
    /\ \A n \in DOMAIN projection[p] : projection[p][n] = projection[q][n]

\* p and q are different fields of one struct.
Siblings(p, q) ==
    /\ local[p] = local[q] /\ projection[p] # projection[q]
    /\ Len(projection[p]) = Len(projection[q])
    /\ SubSeq(projection[p], 1, Len(projection[p]) - 1) =
       SubSeq(projection[q], 1, Len(projection[q]) - 1)

(***************************************************************************)
(* An edge is tentative only if its target has a second data input that    *)
(* cannot be told apart from some other input of it.  And as "15" vs       *)
(* "15.0" are overlapping, and so are "15.0" and "15.0.1" (construct.rs):  *)
(* when of any two inputs of a node one is the other or a part of it, the  *)
(* node has only one of them as its value and the edges are tentative, in  *)
(* whatever order the inputs are compared.  ("_1 and *_1 DISTINCT": what a *)
(* reference refers to is not taken for a part of it.)                     *)
(***************************************************************************)
TentativeRight ==
    /\ \A e \in edges : e.tentative =>
          \E f, g \in data : f.to = e.to /\ g.to = e.to /\ f.from # g.from /\ overlap(f, g)
    /\ phase = "done" =>
          \A n \in nodes :
              (\A e, f \in inputs_of(n) :
                  /\ Projects(e.from.place, f.from.place) \/ Projects(f.from.place, e.from.place)
                  /\ ~is_direct_deref(e.from.place, f.from.place))
              /\ Cardinality({e.from : e \in inputs_of(n)}) > 1
              => \A e \in inputs_of(n) : e.tentative

(***************************************************************************)
(* "15.0" vs "15.1" "are distinct because they are distinct fields of the  *)
(* _15 struct" (construct.rs), and edges from distinct places are certain. *)
(***************************************************************************)
FieldsCertain ==
    phase = "done" =>
        \A n \in nodes :
            (\A e, f \in inputs_of(n) : e.from # f.from => Siblings(e.from.place, f.from.place))
            => \A e \in inputs_of(n) : ~e.tentative
=============================================================================
