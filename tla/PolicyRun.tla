----------------------------- MODULE PolicyRun -----------------------------
(***************************************************************************)
(* A run of a policy: GraphLocation::with_context_configured (lib.rs)      *)
(* hands a Context to the policy's closure, which records diagnostics      *)
(* through nested scopes and builders (diagnostics.rs); Context queues     *)
(* them without repetition; they are emitted when the closure returns, or  *)
(* when it asks for it, and the emission says whether an error was among   *)
(* them.                                                                   *)
(*                                                                         *)
(* Of a message its text, severity and scopes are kept; spans are not.     *)
(* The closure is any sequence of calls, at most MaxCalls of them.  A      *)
(* writer may fail on any message.                                         *)
(***************************************************************************)
EXTENDS Naturals, Sequences, SequencesExt

CONSTANTS
    Scope,          \* the named contexts a policy may open, with a kind
    Message,        \* message texts
    MaxDepth,       \* bound: scopes open inside each other
    MaxCalls        \* bound: calls of the closure

ASSUME ScopeAssumption ==
    Scope \subseteq [kind : {"policy", "controller", "combinator"}, name : STRING]
ASSUME BoundsAssumption == MaxDepth \in Nat /\ MaxCalls \in Nat

VARIABLES
    opened,     \* the contexts the closure holds: scopes, outermost first
    builder,    \* DiagnosticBuilders not emitted yet: [base, parts], at most one
    queue,      \* DiagnosticsRecorder, in order of insertion
    pc,         \* "policy", "emit", "returned", "failed" or "exited"
    caller,     \* who asked for the emission
    can_continue,
    success,    \* PolicyReturn::success
    calls,      \* the calls made so far
    since,      \* history: the requests since the last emission began
    batch,      \* history: what the last emission has written
    answer      \* history: what it answered

vars == <<opened, builder, queue, pc, caller, can_continue, success, calls,
          since, batch, answer>>

Severity == {"error", "warning", "note", "help"}
Caller == {"with_context", "emit_diagnostics", "emit_diagnostics_may_exit"}

must_abort(severity) == severity = "error"

-----------------------------------------------------------------------------
\* The scopes in which a context offers to open another one.
may_open(c, s) ==
    LET inner == IF c = <<>> THEN "none" ELSE c[Len(c)].kind
    IN  CASE inner = "none" -> TRUE
          [] inner = "policy" -> s.kind # "policy"
          [] inner = "controller" -> s.kind # "controller"
          [] inner = "combinator" -> s.kind = "combinator"

\* The severity that the shortcut method <form>_<name> records: node_help
\* goes through struct_node_note.
shortcut_severity(name, form) ==
    IF name = "help" /\ form = "node" THEN "note" ELSE name

\* HasDiagnosticsBase::record through every scope of c: each pushes its name
\* and passes the message on to the scope around it.
through(c, parts) == [context |-> Reverse(c), children |-> parts]

\* The mutant of record: the map is keyed by texts alone.
recordTexts(d) ==
    IF \E i \in DOMAIN queue :
          [k \in DOMAIN d.children |-> d.children[k].message] =
          [k \in DOMAIN queue[i].children |-> queue[i].children[k].message]
    THEN queue ELSE Append(queue, d)

\* Context::record: insertion into an IndexMap.
record(d) == IF d \in ToSet(queue) THEN queue ELSE Append(queue, d)

\* The mutant of write: the scopes as they were pushed.
writePushed(d) == [scopes |-> d.context, parts |-> d.children]

\* Diagnostic::write shows the scopes in reverse, then the parts.
write(d) == [scopes |-> Reverse(d.context), parts |-> d.children]

\* The closure's message is recorded.
Request(c, parts) ==
    /\ queue' = record(through(c, parts))
    /\ since' = Append(IF answer = "none" THEN since ELSE <<>>,
                       [scopes |-> c, parts |-> parts])
    /\ batch' = IF answer = "none" THEN batch ELSE <<>>
    /\ answer' = "none"

Part(severity, message) == [severity |-> severity, message |-> message]

\* The warning with_context records before it calls the closure when the
\* program description has no controller.
NoControllers == <<Part("warning", "No controllers found.")>>

Init ==
    /\ opened = {<<>>}
    /\ builder = {}
    /\ \/ queue = <<>> /\ since = <<>>
       \/ /\ queue = <<through(<<>>, NoControllers)>>
          /\ since = <<[scopes |-> <<>>, parts |-> NoControllers]>>
    /\ pc = "policy"
    /\ caller = "with_context"
    /\ can_continue = TRUE
    /\ success = FALSE
    /\ calls = 0
    /\ batch = <<>>
    /\ answer = "none"

\* The closure goes on and makes another call.
Calls ==
    /\ pc = "policy"
    /\ calls < MaxCalls
    /\ calls' = calls + 1

-----------------------------------------------------------------------------
\* named_policy, named_controller, named_combinator or controller_contexts.
Open(c, s) ==
    /\ Calls
    /\ Len(c) < MaxDepth /\ may_open(c, s)
    /\ opened' = opened \cup {Append(c, s)}
    /\ UNCHANGED <<builder, queue, pc, caller, can_continue, success, since, batch, answer>>

\* error, warning, note, help and their span_ and node_ forms.
Say(c, name, form, m) ==
    /\ Calls
    /\ Request(c, <<Part(shortcut_severity(name, form), m)>>)
    /\ UNCHANGED <<opened, builder, pc, caller, can_continue, success>>

\* struct_error and its like.
Struct(c, severity, m) ==
    /\ Calls
    /\ builder = {}
    /\ builder' = {[base |-> c, parts |-> <<Part(severity, m)>>]}
    /\ UNCHANGED <<opened, queue, pc, caller, can_continue, success, since, batch, answer>>

\* with_warning, with_note, with_help and their span_ and node_ forms.
With(b, severity, m) ==
    /\ Calls
    /\ severity # "error"
    /\ builder' = {[b EXCEPT !.parts = Append(@, Part(severity, m))]}
    /\ UNCHANGED <<opened, queue, pc, caller, can_continue, success, since, batch, answer>>

\* DiagnosticBuilder::emit, or the builder goes out of scope.
Emit(b) ==
    /\ Calls
    /\ builder' = {}
    /\ Request(b.base, b.parts)
    /\ UNCHANGED <<opened, pc, caller, can_continue, success>>

Forget(b) ==
    /\ Calls
    /\ builder' = {}
    /\ UNCHANGED <<opened, queue, pc, caller, can_continue, success, since, batch, answer>>

-----------------------------------------------------------------------------
\* DiagnosticsRecorder::emit is entered; who asked for it gets the answer.
Start(who) ==
    /\ pc = "policy"
    /\ pc' = "emit"
    /\ caller' = who
    /\ can_continue' = TRUE
    /\ since' = IF answer = "none" THEN since ELSE <<>>
    /\ batch' = <<>>
    /\ answer' = "none"
    /\ UNCHANGED <<opened, builder, queue, success>>

EmitDiagnostics(who) ==
    /\ who # "with_context"
    /\ calls < MaxCalls /\ calls' = calls + 1
    /\ Start(who)

\* A message that fails the emission.
aborts(d) == \E i \in DOMAIN d.children : must_abort(d.children[i].severity)

\* One turn of the loop of emit.
WriteOne ==
    /\ pc = "emit" /\ queue # <<>>
    /\ batch' = Append(batch, write(Head(queue)))
    /\ queue' = Tail(queue)
    /\ can_continue' = (can_continue /\ ~aborts(Head(queue)))
    /\ UNCHANGED <<opened, builder, pc, caller, success, calls, since, answer>>

\* The writer fails: emit returns the error, and dropping the Drain empties the
\* queue.  with_context and emit_diagnostics pass the error on.
WriteFails ==
    /\ pc = "emit" /\ queue # <<>>
    /\ queue' = <<>>
    /\ answer' = "io error"
    /\ pc' = IF caller = "with_context" THEN "failed" ELSE "policy"
    /\ UNCHANGED <<opened, builder, caller, can_continue, success, calls, since, batch>>

\* The queue is drained.  with_context returns the answer as `success`; only
\* emit_diagnostics_may_exit ends the program over it.
Answer ==
    /\ pc = "emit" /\ queue = <<>>
    /\ answer' = IF can_continue THEN "continue" ELSE "abort"
    /\ pc' = CASE caller = "with_context" -> "returned"
               [] caller = "emit_diagnostics_may_exit" /\ ~can_continue -> "exited"
               [] OTHER -> "policy"
    /\ success' = IF caller = "with_context" THEN can_continue ELSE success
    /\ UNCHANGED <<opened, builder, queue, caller, can_continue, calls, since, batch>>

\* The closure returns Ok, and with_context emits what is left.
ReturnOk ==
    /\ Start("with_context")
    /\ UNCHANGED calls

\* The closure returns Err, which with_context passes on at once.
ReturnErr ==
    /\ pc = "policy"
    /\ pc' = "failed"
    /\ UNCHANGED <<opened, builder, queue, caller, can_continue, success, calls,
                   since, batch, answer>>

Closure ==
    \/ \E c \in opened :
          \/ \E s \in Scope : Open(c, s)
          \/ \E severity \in Severity, m \in Message :
                \/ \E form \in {"plain", "span", "node"} : Say(c, severity, form, m)
                \/ Struct(c, severity, m)
    \/ \E b \in builder :
          \/ \E severity \in Severity, m \in Message : With(b, severity, m)
          \/ Emit(b) \/ Forget(b)
    \/ \E who \in Caller : EmitDiagnostics(who)
    \/ ReturnOk \/ ReturnErr

Emission == WriteOne \/ WriteFails \/ Answer

Next == Closure \/ Emission

Spec == Init /\ [][Next]_vars /\ WF_vars(Emission)

-----------------------------------------------------------------------------
IsError(r) == \E i \in DOMAIN r.parts : must_abort(r.parts[i].severity)

\* b has the members of s, each once and in the order of their first places.
OnceInOrder(b, s) ==
    /\ ToSet(b) = ToSet(s)
    /\ IsInjective(b)
    /\ \A i, j \in DOMAIN b : i < j =>
          \E k \in DOMAIN s : s[k] = b[i] /\ \A l \in 1 .. k : s[l] # b[j]

(***************************************************************************)
(* A completed emission has shown every request once, in the order of      *)
(* their first making, each with the scopes it was made in, outermost      *)
(* first (the example in the documentation of diagnostics.rs).             *)
(***************************************************************************)
EachShownOnce ==
    answer \in {"continue", "abort"} => OnceInOrder(batch, since)

EmissionEnds == pc = "emit" ~> pc # "emit"

(***************************************************************************)
(* Of all the scopes, builders, copies and emissions only this shows: an   *)
(* error is answered for by the emission after it, and the emission with   *)
(* which with_context ends gives the verdict.  And an emission comes to an *)
(* end, which the lock it holds makes all other recorders wait for.        *)
(***************************************************************************)
Verdict == INSTANCE PolicyVerdict WITH
    failed <- \E i \in DOMAIN since : IsError(since[i]),
    verdict <- CASE pc = "returned" -> IF success THEN "success" ELSE "failure"
                 [] pc = "failed" -> "error"
                 [] pc = "exited" -> "exited"
                 [] OTHER -> "none"

Implements == Verdict!Spec /\ EmissionEnds
=============================================================================
