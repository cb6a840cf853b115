------------------------ MODULE MCWalkForwardAttempt ------------------------
(* Model values for WalkForwardAttempt: two attempts whose returns go to   *)
(* the same file and whose JSON output goes to files of their own.         *)
EXTENDS WalkForwardAttempt

CONSTANTS a1, a2, shared, own1, own2

MCPathOf ==
    [a \in Attempts |->
        [o \in Files |-> IF o = "returns" THEN shared ELSE IF a = a1 THEN own1 ELSE own2]]

Plan(cli, record, returns, json) ==
    [cli |-> cli, record |-> record, returns |-> returns, json |-> json]

(* main with everything requested, the API with and without a record.      *)
MCPlans ==
    {Plan(TRUE, TRUE, TRUE, TRUE), Plan(FALSE, TRUE, TRUE, FALSE),
     Plan(FALSE, TRUE, FALSE, FALSE), Plan(FALSE, FALSE, TRUE, FALSE),
     Plan(TRUE, FALSE, FALSE, TRUE)}

=============================================================================
