---------------------------- MODULE HappensBefore ----------------------------
(***************************************************************************)
(* What Context::always_happens_before promises, without saying how: the   *)
(* answer says whether on every data flow path from a starting point to a  *)
(* terminal a checkpoint is passed, and whether that is so vacuously; a    *)
(* report of the answer fails the policy exactly when it is not so.        *)
(***************************************************************************)
EXTENDS PathQuery

CONSTANT Queries

VARIABLES
    query,      \* what the policy asks
    answer,     \* {} or the one answer given
    failed      \* has a report of the answer emitted an error?

vars == <<query, answer, failed>>

Init ==
    /\ query \in Queries
    /\ answer = {}
    /\ failed = FALSE

Answer ==
    /\ answer = {}
    /\ answer' = {[holds |-> ~Violated(query), vacuous |-> Vacuous(query)]}
    /\ UNCHANGED <<query, failed>>

Report ==
    /\ \E a \in answer : failed' = ~a.holds
    /\ UNCHANGED <<query, answer>>

Next == Answer \/ Report

Safety == Init /\ [][Next]_vars

Spec == Safety /\ WF_vars(Answer)
=============================================================================
