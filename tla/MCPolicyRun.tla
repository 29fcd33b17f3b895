---------------------------- MODULE MCPolicyRun ----------------------------
(***************************************************************************)
(* One scope of each kind.                                                 *)
(***************************************************************************)
EXTENDS PolicyRun

MCScope ==
    {[kind |-> "policy", name |-> "p"], [kind |-> "controller", name |-> "c"],
     [kind |-> "combinator", name |-> "k"]}
=============================================================================
