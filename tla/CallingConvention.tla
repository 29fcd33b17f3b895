-------------------------- MODULE CallingConvention --------------------------
(***************************************************************************)
(* How the places of a called function relate to those of its caller       *)
(* (calling_convention.rs).                                                *)
(***************************************************************************)
EXTENDS Mutations

Direct(args) == [kind |-> "Direct", args |-> args]
Indirect(once_shim, closure_arg, tupled_arguments) ==
    [kind |-> "Indirect", once_shim |-> once_shim, closure_arg |-> closure_arg,
     tupled_arguments |-> tupled_arguments]
Async(generator_data) == [kind |-> "Async", generator_data |-> generator_data]

\* Call kinds are Direct, Indirect with or without the shim that makes a closure an
\* FnOnce, and the poll of an async function's future.
from_call_kind(kind, args) ==
    CASE kind.kind = "Direct" -> Direct(args)
      [] kind.kind = "Indirect" -> Indirect(kind.once_shim, args[1], args[2])
      [] kind.kind = "AsyncPoll" -> Async(kind.generator_data)

\* Poll::Ready(_) of the place that a poll is assigned to.
poll_ready == <<Variant(0), Field(0)>>

\* PlaceTranslation: a base in the caller, and what of the child goes on from there.
Translation(base, more) == [base |-> base, projection |-> more]
OfOperand(op, more, p) ==
    IF op = None THEN {} ELSE {Translation(project_deeper(op, more), p)}

\* The mutant of tupled: the closure itself is counted as an argument.
tupledShift(local) == Field(local - 1)

\* Where in the tuple of arguments a closure's parameter is.
tupled(local) == Field(local - 2)

\* handle_translate: {} where the child's place has no counterpart.  A closure that
\* is called through a shim takes by reference what the caller passes by value.
handle_translate(conv, destination, child) ==
    LET p == child.projection
    IN  CASE child.local = RETURN_PLACE /\ conv.kind = "Async" ->
                 {Translation(project_deeper(destination, poll_ready), p)}
          [] child.local = RETURN_PLACE /\ conv.kind # "Async" ->
                 {Translation(destination, p)}
          [] child.local # RETURN_PLACE /\ conv.kind = "Direct" ->
                 OfOperand(conv.args[child.local], <<>>, p)
          [] child.local = 1 /\ conv.kind = "Async" ->
                 OfOperand(conv.generator_data, <<>>, p)
          [] child.local > 1 /\ conv.kind = "Async" -> {}
          [] child.local = 1 /\ conv.kind = "Indirect" ->
                 IF conv.once_shim
                 THEN IF p = <<>> THEN {} ELSE OfOperand(conv.closure_arg, <<>>, Tail(p))
                 ELSE OfOperand(conv.closure_arg, <<>>, p)
          [] child.local > 1 /\ conv.kind = "Indirect" ->
                 OfOperand(conv.tupled_arguments, <<tupled(child.local)>>, p)

\* translate_to_parent: precisely, or to the base of the translation.
translate_to_parent(conv, destination, precise, child) ==
    {IF precise THEN project_deeper(t.base, t.projection) ELSE t.base :
        t \in handle_translate(conv, destination, child)}
=============================================================================
