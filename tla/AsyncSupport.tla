---------------------------- MODULE AsyncSupport ----------------------------
(***************************************************************************)
(* What async functions are made of (async_support.rs, approximation.rs):  *)
(* calling one only binds its arguments in a generator, and the body runs  *)
(* when the generator is polled.  The compiler turns `f(x).await` into     *)
(*     a = f(x); b = into_future(a); c = b; d = &mut c;                    *)
(*     e = Pin::new_unchecked(d); r = poll(e, context)                     *)
(*                                                                         *)
(* A body is a sequence of instructions without branches, each with a      *)
(* destination, and an rvalue or the function that it calls.               *)
(***************************************************************************)
EXTENDS CallingConvention

\* What find_body_assignments has for a local.
assignments(body, l) == {i \in DOMAIN body : body[i].dest = Local(l)}

\* get_def_for_op: the one instruction that assigns an operand.
get_def_for_op(body, op) == body[CHOOSE i \in assignments(body, op.local) : TRUE]

is_assign(i, kind) == i.op = "assign" /\ i.rvalue.kind = kind

\* The borrow that a local holds, if it was assigned one.
borrows(body, l) == {body[i].rvalue.place : i \in
                        {i \in assignments(body, l) : is_assign(body[i], "Ref")}}

\* What a place points to: a dereferenced local stands for what it borrows.
aliases(body, p) ==
    IF p.projection # <<>> /\ Head(p.projection) = Deref /\ borrows(body, p.local) # {}
    THEN {project_deeper(q, Tail(p.projection)) : q \in borrows(body, p.local)}
    ELSE {p}

\* get_async_generator, try_as_async_trait_function: where the generator is bound.
generator_locs(body) == {i \in DOMAIN body : is_assign(body[i], "Generator")}
generator_loc(body) == CHOOSE i \in generator_locs(body) : TRUE
generator_of(body) == body[generator_loc(body)].rvalue.def

PollEnv(parent, data) == [kind |-> "AsyncPoll", parent |-> parent, generator_data |-> data]

\* find_async_args: from the poll back to where the future was created, which is the
\* call of an async function, or an async block.
find_async_args(body, args) ==
    LET pin == get_def_for_op(body, args[1])
        future == CHOOSE p \in aliases(body, project_deeper(pin.args[1], <<Deref>>)) : TRUE
        into_future == get_def_for_op(body, get_def_for_op(body, future).rvalue.op)
        creation == get_def_for_op(body, into_future.args[1])
    IN  PollEnv(IF creation.op = "call" THEN creation.callee ELSE None, creation.dest)

\* What a call of a function of the desugaring assigns: Pin { op }, or op.
approximate_new_unchecked(args) ==
    [kind |-> "Aggregate", variant |-> <<>>, ops |-> args, fields |-> <<0>>]
approximate_into_future(args, n) == [kind |-> "Use", op |-> args[1], fields |-> n]
=============================================================================
