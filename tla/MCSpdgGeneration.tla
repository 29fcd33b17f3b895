-------------------------- MODULE MCSpdgGeneration --------------------------
(***************************************************************************)
(* Three families of programs.  Calls: three functions that call each      *)
(* other in every way, recursion included, as targets in several orders.   *)
(* Conventions: one program for each way of calling (references, shims,    *)
(* futures, stubs, traits).  Types: one small program with three types     *)
(* that contain each other in every way.                                   *)
(***************************************************************************)
EXTENDS PdgFlows, PolicyContext, TLC

CONSTANTS f1, f2, f3, pin_fn, future_fn, once, t1, t2, t3, m

\* Instructions.
assign(dest, rvalue) == [op |-> "assign", dest |-> dest, rvalue |-> rvalue]
Use(op, n) == [kind |-> "Use", op |-> op, fields |-> n]
Ref(p) == [kind |-> "Ref", place |-> p, ops |-> <<>>]
Aggregate(ops) == Tuple(ops)
Generator(f, ops) == [kind |-> "Generator", def |-> f, variant |-> <<>>, ops |-> ops]
Binary(ops) == [kind |-> "BinaryOp", ops |-> ops]
call(dest, f, args) ==
    [op |-> "call", dest |-> dest, callee |-> f, def |-> f, args |-> args,
     dynamic |-> FALSE, poll |-> FALSE, shim |-> FALSE, fields |-> 0]

L(l) == Local(l)
Dot(l, i) == Place(l, <<Field(i)>>)

\* A function that returns its argument.
return_arg == <<assign(L(0), Use(L(1), 0))>>

Empty ==
    [code |-> [f \in Fn |-> <<>>], argc |-> [f \in Fn |-> 1],
     async |-> {}, async_trait |-> {}, closure |-> {}, virtual |-> {},
     new_unchecked |-> {pin_fn}, into_future |-> {future_fn}, skip |-> {},
     stub |-> [f \in Fn |-> None], parent |-> [f \in Fn |-> None],
     annotations |-> [f \in Fn |-> {}],
     ty |-> [f \in Fn |-> [l \in locals |-> t1]],
     crate |-> <<f1, f2, f3>>, analyze |-> {f1}]

-----------------------------------------------------------------------------
\* A body that passes its argument through a sequence of calls.
passing(cs) ==
    [i \in 1 .. Len(cs) |-> call(L(i + 1), cs[i], <<L(i)>>)]
        \o <<assign(L(0), Use(L(Len(cs) + 1), 0))>>

upto(n, S) == UNION {[1 .. k -> S] : k \in 0 .. n}

Calls ==
    {[Empty EXCEPT !.code = (f1 :> passing(c1) @@ f2 :> passing(c2) @@ f3 :> passing(c3) @@ @),
                   !.crate = o[1], !.analyze = o[2], !.skip = s,
                   !.annotations = [f \in Fn |-> IF f \in s THEN {Annotation(m, TRUE, {0})} ELSE {}]] :
        c1 \in upto(2, {f1, f2, f3}), c2 \in upto(1, {f1, f2, f3}), c3 \in upto(1, {f1, f2}),
        o \in {<<<<f1, f2, f3>>, {f1, f2}>>, <<<<f3, f2, f1>>, {f1, f3}>>},
        s \in {{}, {f3}}}

-----------------------------------------------------------------------------
\* f2 is a marked function that is not looked into.
marked(p, as) ==
    [p EXCEPT !.skip = @ \cup {f2}, !.annotations[f2] = as, !.code[f2] = return_arg]

\* Before it is awaited, an argument is given to f2 or not.
await(before, future) ==
    before \o <<future,
      call(L(4), future_fn, <<L(3)>>), assign(L(5), Use(L(4), 1)), assign(L(6), Ref(L(5))),
      call(L(7), pin_fn, <<L(6)>>),
      [call(L(8), f3, <<L(7), None>>) EXCEPT !.poll = TRUE],
      assign(L(0), Use(Place(8, poll_ready), 0))>>
pass == <<assign(L(2), Use(L(1), 0))>>
to_marked == <<call(L(2), f2, <<L(1)>>)>>

\* The body of a generator that has captured x: f2(x), or x with a part of itself.
generator_body == <<call(L(3), f2, <<Dot(1, 0)>>), assign(L(0), Use(L(3), 0))>>

\* once is the async function, f3 its generator.
Awaiting(before, async_fn) ==
    [marked(Empty, {Annotation(m, FALSE, {0})}) EXCEPT
        !.code[f1] = await(before, IF async_fn THEN call(L(3), once, <<L(2)>>)
                                   ELSE assign(L(3), Generator(f3, <<L(2)>>))),
        !.code[once] = <<assign(L(0), Generator(f3, <<L(1)>>))>>,
        !.code[f3] = generator_body, !.argc[f3] = 2,
        !.async = {once}, !.crate = <<once, f1>>,
        !.analyze = IF async_fn THEN {once, f1} ELSE {f1}]

\* An entry point of an #[async_trait], whose generator calls f2, not marked here.
TraitEntry ==
    [Empty EXCEPT
        !.code[f1] = <<assign(L(2), Generator(f3, <<L(1)>>)), call(L(0), once, <<L(2)>>)>>,
        !.code[f3] = generator_body, !.argc[f3] = 2, !.code[f2] = return_arg,
        !.virtual = {once}, !.async_trait = {f1}, !.parent[f1] = pin_fn,
        !.annotations[pin_fn] = {Annotation(m, TRUE, {0})}]

\* The closure f3 captures x, and is called with y.
Closures(self, by_ref, callee) ==
    [marked(Empty, {Annotation(m, TRUE, {})}) EXCEPT
        !.code[f1] = <<call(L(3), f2, <<L(1)>>), assign(L(4), Aggregate(<<L(3)>>)),
                       assign(L(5), Ref(L(4))), assign(L(6), Aggregate(<<L(2)>>)), callee>>,
        !.argc[f1] = 2,
        !.code[f3] = <<assign(L(3), Use(Place(1, self \o <<Field(0)>>), 0)),
                       assign(L(0), Binary(<<L(3), L(2)>>))>>,
        !.argc[f3] = 2, !.closure = {f3}]

\* f1 calls once, which takes a closure or a function, and is replaced by it.
Stubs(args, closure) ==
    [marked(Empty, {Annotation(m, TRUE, {})}) EXCEPT
        !.code[f1] = <<call(L(2), f2, <<L(1)>>), assign(L(3), Aggregate(<<L(2)>>)),
                       call(L(0), once, args)>>,
        !.code[f3] = <<assign(L(0), Use(IF closure THEN Dot(1, 0) ELSE L(1), 0))>>,
        !.closure = IF closure THEN {f3} ELSE {},
        !.stub[once] = f3, !.annotations[once] = {Annotation(m, TRUE, {})}]

\* f1 calls a function that is virtual, unknown, or marked in its trait, with the result
\* of a function without arguments.
Traits(dest, p) ==
    [p EXCEPT !.code[f1] = <<call(L(2), once, <<>>), dest,
                             assign(L(0), Binary(<<L(1), L(3)>>))>>,
              !.annotations[once] = {Annotation(m, TRUE, {})}, !.skip = @ \cup {once},
              !.code[f3] = return_arg]

\* An async entry point of two arguments, one of them or the result marked.
AsyncEntry(as) ==
    [Empty EXCEPT
        !.code[f1] = <<assign(L(0), Generator(f3, <<L(1), L(2)>>))>>, !.argc[f1] = 2,
        !.code[f3] = <<call(L(3), f2, <<Dot(1, 0)>>), assign(L(0), Binary(<<L(3), Dot(1, 1)>>))>>,
        !.argc[f3] = 2, !.code[f2] = return_arg, !.async = {f1}, !.skip = {f1},
        !.annotations[f1] = as]

\* f2 never returns, and there is nothing in it.
Loops == [Empty EXCEPT !.code[f1] = passing(<<f2>>)]

\* f2 returns a constant.
Constant ==
    [Empty EXCEPT !.code[f1] = passing(<<f2>>), !.code[f2] = <<assign(L(0), Binary(<<>>))>>]

Conventions ==
    {Loops, Constant, AsyncEntry({Annotation(m, TRUE, {})}), Awaiting(pass, TRUE), Awaiting(pass, FALSE), TraitEntry,
     Closures(<<Deref>>, TRUE, call(L(0), f3, <<L(5), L(6)>>)),
     Closures(<<>>, FALSE, call(L(0), f3, <<L(4), L(6)>>)),
     Closures(<<Deref>>, TRUE, [call(L(0), f3, <<L(4), L(6)>>) EXCEPT !.shim = TRUE, !.def = once]),
     Stubs(<<L(3)>>, TRUE), Stubs(<<L(2)>>, FALSE), Stubs(<<L(3), L(1)>>, TRUE),
     Traits(call(L(3), f3, <<L(2)>>), [Empty EXCEPT !.virtual = {f3}]),
     Traits([call(L(3), f3, <<L(2)>>) EXCEPT !.callee = None], Empty),
     Traits([call(L(3), f3, <<L(2)>>) EXCEPT !.callee = None, !.dynamic = TRUE], Empty),
     Traits(call(L(3), f3, <<L(2)>>),
            [Empty EXCEPT !.parent[f3] = f2, !.annotations[f2] = {Annotation(m, TRUE, {0})}]),
     Traits(call(L(3), f2, <<L(2)>>), marked(Empty, {Annotation(m, FALSE, {0})}))}

-----------------------------------------------------------------------------
TypePrograms ==
    {[Empty EXCEPT !.code[f1] = <<assign(L(2), Aggregate(<<L(1)>>)), assign(L(0), Use(L(2), 0))>>,
                   !.ty[f1] = (0 :> t3 @@ 1 :> t1 @@ 2 :> t2 @@ @)]}

\* t1 and t2 are of any kind, t3 is a marked struct that may contain t1.
NestedTypes ==
    {ts \in {[kind |-> (t1 :> k1 @@ t2 :> k2 @@ t3 :> "Adt"), parts |-> P, marked |-> {t3} \cup M] :
                k1 \in {"Adt", "Compound", "Alias"}, k2 \in {"Adt", "Compound", "Leaf"},
                P \in SUBSET (({t1, t2} \X Ty) \cup {<<t3, t1>>}), M \in {{}, {t1}}} :
        \A p \in ts.parts : ts.kind[p[1]] # "Leaf"}

\* Every place of the other programs is of type t1.
plain_types(marks) == [kind |-> [t \in Ty |-> "Adt"], parts |-> {}, marked |-> marks]

MCTypeSystems == NestedTypes \cup {plain_types({t1}), plain_types({t3})}

MCPrograms == Calls \cup Conventions \cup TypePrograms

MCInit ==
    /\ \/ program \in Calls \cup Conventions /\ types = plain_types({t3})
       \/ program \in Conventions /\ types = plain_types({t1})
       \/ program \in TypePrograms /\ types \in NestedTypes
    /\ NothingGenerated

MCSpec == MCInit /\ [][Next]_vars /\ Fairness

\* The second argument of an async entry point is marked.
EntryInit ==
    program = AsyncEntry({Annotation(m, FALSE, {1})}) /\ types = plain_types({t3}) /\ NothingGenerated
EntrySpec == EntryInit /\ [][Next]_vars
=============================================================================
