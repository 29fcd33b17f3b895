------------------------------ MODULE PdgFlows ------------------------------
(***************************************************************************)
(* What flows when the program runs, without a dependence graph: a value   *)
(* is where in it which argument of the entry point is, as pairs of a      *)
(* projection and an argument.  Calls are executed, up to a depth; calls   *)
(* that the analyser does not look into return all they are given.         *)
(***************************************************************************)
EXTENDS SpdgGeneration

wrap(projection, v) == {<<projection \o x[1], x[2]>> : x \in v}

\* The part of a value at a projection.
part(projection, v) ==
    {<<SubSeq(x[1], Len(projection) + 1, Len(x[1])), x[2]>> :
        x \in {x \in v : IsPrefix(projection, x[1])}} \cup
    {<<<<>>, x[2]>> : x \in {x \in v : IsPrefix(x[1], projection) /\ x[1] # projection}}

\* A memory is a value for each local.
read(mem, p) == IF p = None THEN {} ELSE part(p.projection, mem[p.local])
write(mem, p, v) ==
    [mem EXCEPT ![p.local] = {x \in @ : ~IsPrefix(p.projection, x[1])} \cup wrap(p.projection, v)]

\* What an rvalue evaluates to.
evaluate(mem, r) ==
    CASE r.kind = "Use" -> read(mem, r.op)
      [] r.kind = "Ref" -> wrap(<<Deref>>, read(mem, r.place))
      [] r.kind \in {"Aggregate", "Generator"} ->
            UNION {wrap(r.variant \o <<Field(i - 1)>>, read(mem, r.ops[i])) : i \in DOMAIN r.ops}
      [] OTHER -> UNION {{<<<<>>, x[2]>> : x \in read(mem, p)} : p \in places(r.ops)}

\* What a called function finds in its parameters.
parameters(mem, c, h) ==
    LET arg(i) == read(mem, c.args[i])
    IN  [l \in 1 .. program.argc[h] |->
            CASE c.poll -> IF l = 1 THEN part(<<Field(0), Deref>>, arg(1)) ELSE {}
              [] h \in program.closure /\ h = c.callee /\ l = 1 ->
                    IF c.shim THEN wrap(<<Deref>>, arg(1)) ELSE arg(1)
              [] h \in program.closure /\ h = c.callee /\ l > 1 -> part(<<Field(l - 2)>>, arg(2))
              [] OTHER -> arg(l)]

locals == 0 .. 12

RECURSIVE Run(_, _, _)

\* The value that a call returns.
Call(mem, c, depth) ==
    LET opaque == UNION {{<<<<>>, x[2]>> : x \in read(mem, p)} : p \in places(c.args)}
        h == IF c.callee # None /\ program.stub[c.callee] # None /\ applies(c)
             THEN program.stub[c.callee] ELSE c.callee
    IN  CASE c.callee \in program.into_future -> read(mem, c.args[1])
          [] c.callee \in program.new_unchecked -> wrap(<<Field(0)>>, read(mem, c.args[1]))
          [] h = None \/ (h \notin approximated /\ (h \in program.virtual \/ code(h) = <<>>)) -> opaque
          [] OTHER -> IF depth = 0 THEN {}
                      ELSE LET v == Run(h, parameters(mem, c, h), depth - 1)
                           IN  IF c.poll THEN wrap(poll_ready, v) ELSE v

\* The value that a function returns.
Run(f, params, depth) ==
    LET step(mem, i) == write(mem, i.dest, IF i.op = "assign" THEN evaluate(mem, i.rvalue)
                                           ELSE Call(mem, i, depth))
    IN  FoldLeft(step, [l \in locals |-> IF l \in DOMAIN params THEN params[l] ELSE {}],
                 code(f))[RETURN_PLACE]

\* The arguments that some part of the result is from.
returns_arguments(f, depth) ==
    {x[2] : x \in Run(f, [l \in 1 .. program.argc[f] |-> {<<<<>>, l>>}], depth)}

RECURSIVE Forward(_, _)
Forward(es, ns) ==
    LET more == {e.to : e \in {e \in es : e.from \in ns}}
    IN  IF more \subseteq ns THEN ns ELSE Forward(es, ns \cup more)

(***************************************************************************)
(* Every argument that comes back from a function when it is run, through  *)
(* calls, closures, futures and stubs, has a path from its start node to   *)
(* the end of the return place in the function's graph.                    *)
(***************************************************************************)
FlowsAcrossCalls ==
    \A f \in built : \A a \in returns_arguments(f, 3) :
        LET at(l) == single(GlobalLocation(f, l))
            starts == {n \in nodes_of(pdg[f]) : n.at = at(Start) /\ n.place.local = a}
        IN  \E n \in Forward(pdg[f].edges, starts) :
                n.at = at(End) /\ n.place.local = RETURN_PLACE
=============================================================================
