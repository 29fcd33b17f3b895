----------------------- MODULE MCMarkerReachability -----------------------
(***************************************************************************)
(* Programs of three functions and one marker, in families that each turn  *)
(* on some of the features the judge knows.                                *)
(***************************************************************************)
EXTENDS MarkerReachability, FiniteSets

CONSTANTS f1, f2, f3, m

No == [f \in Fn |-> None]
Only(f, g) == [No EXCEPT ![f] = g]
Site(f) == [callee |-> f, async_parent |-> None]

\* One marker on the functions of M, calls C, constructed at the sites S.
Basic(M, C, S) ==
    [markers |-> [f \in Fn |-> IF f \in M THEN {m} ELSE {}],
     plain |-> {}, virtual |-> {}, included |-> Fn, stub |-> No, calls |-> C,
     generator |-> No, future |-> No, methods |-> {},
     sites |-> S, inlining_depth |-> "Adaptive", relaxed |-> FALSE]

Calls == SUBSET (Fn \X Fn)
Loopless == {C \in Calls : \A f \in Fn : <<f, f>> \notin C}

\* Every call graph over an unmarked pair of sites and any set of marked functions.
PlainPrograms ==
    {Basic(M, C, {Site(f1), Site(f2)}) : M \in SUBSET Fn, C \in Calls}

\* f3 is virtual (and has no body), excluded, or replaced by f1 or f2.
BoundaryPrograms ==
    {[Basic(M, {e \in C : e[1] \notin v}, {Site(f1), Site(f3)})
        EXCEPT !.virtual = v, !.included = i, !.stub = s] :
        M \in {{f2}, {f2, f3}}, C \in Loopless, v \in {{}, {f3}}, i \in {Fn, {f1, f2}},
        s \in {No, Only(f3, f1), Only(f3, f2)}}

\* f1 is async with generator f2: the call that creates its future and the one
\* that polls it, marked like it or, as of #[async_trait], not.  f3 may be marked and may
\* return a future of f2's kind.
AsyncPrograms ==
    {[Basic(M, C, {Site(f1), [callee |-> f2, async_parent |-> f1]}) EXCEPT
        !.generator = Only(f1, f2), !.future = t, !.stub = s, !.included = i] :
        M \in {{}, {f1}, {f1, f2}, {f3}}, C \in Loopless, t \in {No, Only(f3, f2)},
        s \in {No, Only(f1, f3)}, i \in {Fn, {f2, f3}}}

\* Approximating f1 hides its methods f2 and f3.
MethodPrograms ==
    {[Basic(M, C, {Site(f1), Site(f2)}) EXCEPT
        !.methods = {<<f1, f2>>, <<f1, f3>>}, !.inlining_depth = d, !.relaxed = r] :
        M \in SUBSET Fn, C \in Loopless, d \in Depth, r \in BOOLEAN}

\* The methods are definitions; f3 may have a stub, which they cannot use.
DefinitionPrograms ==
    {[Basic(M, C, {Site(f1)}) EXCEPT
        !.plain = {f2, f3}, !.methods = {<<f1, f2>>, <<f1, f3>>}, !.stub = s, !.relaxed = r] :
        M \in SUBSET {f2, f3}, C \in SUBSET ({f2, f3} \X {f2, f3}),
        s \in {No, Only(f3, f1)}, r \in BOOLEAN}

MCPrograms ==
    UNION {PlainPrograms, BoundaryPrograms, AsyncPrograms, MethodPrograms,
           DefinitionPrograms}
=============================================================================
