--------------------------- MODULE MCLocalAnalysis ---------------------------
(***************************************************************************)
(* Small bodies over the places of                                         *)
(*     fn f(x: T) -> T { let y: T; let r = &mut y; .. }                    *)
(* where y0 and y1 are fields of y, d is *r.  Control dependences are      *)
(* computed from the control-flow graph as rustc_utils does: by            *)
(* post-dominance.                                                         *)
(***************************************************************************)
EXTENDS LocalFlows, TLC

CONSTANTS x, y, y0, y1, r, d, z, B1, B2, B3, B4, T, U, RefT, Deref, F0, F1

MClocal == [p \in Place |-> CASE p \in {y0, y1} -> y [] p = d -> r [] OTHER -> p]
MCprojection ==
    [p \in Place |-> CASE p = y0 -> <<F0>> [] p = y1 -> <<F1>> [] p = d -> <<Deref>> [] OTHER -> <<>>]
MCty == [p \in Place |-> CASE p \in {y0, y1} -> U [] p = r -> RefT [] OTHER -> T]
MCinner == RefT :> T

MCAliases == [p \in Place |-> IF p = d THEN {y} ELSE {p}]
MCRefs == [p \in Place |-> IF p = d THEN {r} ELSE {}]
\* A place conflicts with itself and with its fields.
MCConflicts == {c \in Place \X Place : Projects(c[1], c[2]) \/ Projects(c[2], c[1])}
MCReachable == [p \in Place |-> IF p = r THEN <<r, d>> ELSE <<p>>]
MCReachableMut == [p \in Place |-> IF p = r THEN {r, d} ELSE {}]

-----------------------------------------------------------------------------
Stmt(M) == [kind |-> "statement", mutations |-> M]
Move(p, ps) == Stmt({[mutated |-> p, inputs |-> ps]})
Goto == [kind |-> "goto", mutations |-> {}]
Ret == [kind |-> "return", mutations |-> {}]
Switch(p) == [kind |-> "switch", discr |-> p]
Inlined(reads, writes, flows, maybe) ==
    [kind |-> "call", handling |-> "ready", reads |-> reads, writes |-> writes,
     flows |-> flows, maybe |-> maybe]
Unknown(args, to) ==
    [kind |-> "call", handling |-> "fallback", mutations |-> {}, args |-> args, destination |-> to]
Approximated(args, to) ==
    [kind |-> "call", handling |-> "approximate", args |-> args, destination |-> to,
     mutations |-> {[mutated |-> to, inputs |-> args]}]

\* b is on all paths from a to an exit.
PostDominates(cfg, b, a) ==
    LET exits == {e \in Block : Successors(Block, cfg, e) = {}}
        without == {e \in cfg : b \notin {e[1], e[2]}}
    IN  b = a \/ \A e \in exits \ {b} : ~Reaches(Block, without, a, e)

Control(cfg) ==
    {p \in Block \X Block :
        /\ \E s \in Successors(Block, cfg, p[2]) : PostDominates(cfg, p[1], s)
        /\ p[1] = p[2] \/ ~PostDominates(cfg, p[1], p[2])}

MakeBody(cfg, c1, c2, c3, c4) ==
    [cfg |-> cfg, control |-> Control(cfg),
     code |-> (B1 :> c1 @@ B2 :> c2 @@ B3 :> c3 @@ B4 :> c4)]

Diamond == {<<B1, B2>>, <<B1, B3>>, <<B2, B4>>, <<B3, B4>>}
Loop == {<<B1, B2>>, <<B2, B3>>, <<B2, B4>>, <<B3, B2>>}
\* B2 ends in a call that goes on to B3 or unwinds to B4.
Unwinding == {<<B1, B2>>, <<B1, B4>>, <<B2, B3>>, <<B2, B4>>, <<B3, B4>>}

Moves == {Move(y, <<x>>), Move(y0, <<x>>), Move(z, <<y>>), Move(z, <<y0>>), Move(x, <<y>>),
          Move(r, <<>>), Move(d, <<x>>), Move(z, <<d>>), Move(z, <<r, y>>)}
Calls == {Inlined({x}, {z}, {<<x, z>>}, {}), Inlined({x, r}, {d}, {<<x, d>>}, {}),
          Inlined({}, {y0, z}, {}, {}), Unknown(<<x, r>>, z), Unknown(<<y>>, x),
          Approximated(<<r>>, z)}

First == {Move(y, <<x>>), Move(y0, <<x>>), Move(r, <<>>), Move(z, <<y>>)}
Branches ==
    {MakeBody(Diamond, <<s1, Switch(p)>>, <<s2, Goto>>, <<s3, Goto>>, <<Move(z, <<y>>), Ret>>) :
        s1 \in First, s2 \in Moves, s3 \in {Move(d, <<x>>), Move(z, <<r, y>>)}, p \in {y, None}}
Loops ==
    {MakeBody(Loop, <<s1, Goto>>, <<Switch(y)>>, <<s2, c>>, <<Ret>>) :
        s1 \in First, s2 \in Moves, c \in Calls}
Unwinds ==
    {MakeBody(Unwinding, <<s1, Switch(x)>>, <<s2, c>>, <<Move(z, <<d>>), Goto>>, <<Ret>>) :
        s1 \in First, s2 \in Moves, c \in Calls}

MCBodies == Branches \cup Loops \cup Unwinds

\* Straight-line bodies; B2 to B4 are not reachable.
Straight(c) == MakeBody({}, c, <<Goto>>, <<Goto>>, <<Goto>>)

\* A callee that writes through its argument on some of its paths only.
MaybeBodies == {Straight(<<Move(y, <<x>>), Inlined({r}, {d}, {}, {d}), Move(z, <<y>>), Ret>>)}
\* Both fields of y are read at once.
FieldBodies == {Straight(<<Move(y0, <<x>>), Move(y1, <<x>>), Move(z, <<y0, y1>>), Ret>>)}
=============================================================================
