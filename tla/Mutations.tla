------------------------------ MODULE Mutations ------------------------------
(***************************************************************************)
(* What an instruction mutates (mutation.rs): assignments of aggregates    *)
(* and structs are taken apart by field, a call that is not inlined is     *)
(* approximated by its arguments and its destination.                      *)
(*                                                                         *)
(* Places are as in MIR; types matter by the number of fields that they    *)
(* show.  No place is a reference here: what references add (aliases,      *)
(* reachable places) is the subject of LocalAnalysis.                      *)
(***************************************************************************)
EXTENDS Naturals, SequencesExt, CallStrings

RETURN_PLACE == 0

Deref == <<"Deref", 0>>
Field(i) == <<"Field", i>>
Variant(i) == <<"Downcast", i>>

Place(l, projection) == [local |-> l, projection |-> projection]
Local(l) == Place(l, <<>>)
project_deeper(p, projection) == Place(p.local, p.projection \o projection)

\* Places conflict if one is a part of the other: its path goes on from the other's.
Conflict(p, q) ==
    /\ p.local = q.local
    /\ \/ IsRestriction(p.projection, q.projection)
       \/ IsRestriction(q.projection, p.projection)

\* Inputs are pairs of a place and its use.
Mutation(to, inputs, reason) == [mutated |-> to, inputs |-> inputs, reason |-> reason]

\* The places of operands, which are None for constants.
places(ops) == {ops[i] : i \in DOMAIN ops} \ {None}
operands(ps) == ps \X {Operand}

-----------------------------------------------------------------------------
\* Rvalue::Use of an operand whose type shows n fields: field by field.
moved(to, op, n) ==
    IF op = None \/ n = 0 THEN {Mutation(to, operands({op} \ {None}), Assign)}
    ELSE {Mutation(project_deeper(to, <<Field(i)>>),
                   operands({project_deeper(op, <<Field(i)>>)}), Assign) : i \in 0 .. n - 1}

\* visit_assign with handle_special_rvalues: "Use" of a place, an "Aggregate" (with
\* the variant, if it is an enum's), or anything else.
visit_assign(to, rvalue) ==
    CASE rvalue.kind = "Use" -> moved(to, rvalue.op, rvalue.fields)
      [] rvalue.kind = "Aggregate" /\ rvalue.ops # <<>> ->
            UNION {moved(project_deeper(to, rvalue.variant \o <<Field(i - 1)>>),
                         rvalue.ops[i], rvalue.fields[i]) : i \in DOMAIN rvalue.ops}
      [] OTHER -> {Mutation(to, operands(places(rvalue.ops)), Assign)}

\* The tuple of a call's arguments.
Tuple(args) ==
    [kind |-> "Aggregate", variant |-> <<>>, ops |-> args, fields |-> [i \in DOMAIN args |-> 0]]

\* handle_call_with_combine_on_args, before the call and after it.
combine_before(args) == {Mutation(a, operands({a}), Assign) : a \in places(args)}

combine_after(args, to) ==
    {Mutation(to, {<<args[i], Argument(i - 1)>> : i \in {i \in DOMAIN args : args[i] # None}},
              Return)}
=============================================================================
