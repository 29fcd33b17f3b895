---------------------------- MODULE PolicyVerdict ----------------------------
(***************************************************************************)
(* What a run of a policy promises.  An error fails the emission that      *)
(* comes after it and no other; the run ends with one verdict, success     *)
(* only if its last emission did not fail; a failed emission the closure   *)
(* asked for may end the program.  A run may also break off with an error. *)
(***************************************************************************)
VARIABLES
    failed,     \* has an error been recorded for this emission?
    answer,     \* "none", or what the last emission answered
    verdict     \* "none", "success", "failure", "exited" or "error"

vars == <<failed, answer, verdict>>

Init == failed = FALSE /\ answer = "none" /\ verdict = "none"

\* The first message, or none, after an emission begins the next one.
Record(error) ==
    /\ verdict = "none"
    /\ failed' = (error \/ (answer = "none" /\ failed))
    /\ answer' = "none"
    /\ UNCHANGED verdict

Emit ==
    /\ verdict = "none" /\ answer = "none"
    /\ answer' = IF failed THEN "abort" ELSE "continue"
    /\ verdict' \in {"none"} \cup IF failed THEN {"failure", "exited"} ELSE {"success"}
    /\ UNCHANGED failed

Break ==
    /\ verdict = "none"
    /\ \/ verdict' = "error" /\ UNCHANGED answer
       \/ /\ answer = "none" /\ answer' = "io error"
          /\ verdict' \in {"none", "error"}
    /\ UNCHANGED failed

Next == (\E error \in BOOLEAN : Record(error)) \/ Emit \/ Break

Spec == Init /\ [][Next]_vars
=============================================================================
