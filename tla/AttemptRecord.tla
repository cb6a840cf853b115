---------------------------- MODULE AttemptRecord ----------------------------
(***************************************************************************)
(* What a reader of walk-forward attempt records may rely on (ADR 0001 and *)
(* the comments of _Attempt): a published record is always a whole record, *)
(* and what it says of an output bounds what has happened to that output.  *)
(*                                                                         *)
(* A record says of each of its outputs "not_requested", "not_attempted",  *)
(* "unknown" or that it is done ("committed" for the baseline, "written"   *)
(* for a file).  An output is "untouched", then "begun" when the call that *)
(* writes it is entered, then "done" when that call returns.               *)
(***************************************************************************)

CONSTANT Attempts

VARIABLES
    record,   \* the published record of each attempt, or Unpublished
    effect,   \* what each attempt has done to each of its outputs
    recorded  \* the attempts that were asked to keep a record

Outputs == {"baseline", "returns", "json"}

Done(o) == IF o = "baseline" THEN "committed" ELSE "written"

Statuses == {"not_requested", "not_attempted", "unknown", "committed", "written"}

Unpublished == [status |-> "unpublished", out |-> [o \in Outputs |-> "not_requested"]]

Terminal == {"completed", "failed"}

(* Which words may replace s in the record of output o, once o is at e. *)
MayBecome(s, e, o) ==
    {s} \cup (IF s = "not_attempted" THEN {"unknown"} ELSE {})
        \cup (IF s = "unknown" /\ e = "done" THEN {Done(o)} ELSE {})

-----------------------------------------------------------------------------
Init ==
    /\ recorded \in SUBSET Attempts
    /\ record = [a \in Attempts |-> Unpublished]
    /\ effect = [a \in Attempts |-> [o \in Outputs |-> "untouched"]]

(* The first record claims nothing. *)
Publish(a) ==
    /\ a \in recorded
    /\ record[a] = Unpublished
    /\ \E out \in [Outputs -> {"not_requested", "not_attempted"}] :
         record' = [record EXCEPT ![a] = [status |-> "started", out |-> out]]
    /\ UNCHANGED <<effect, recorded>>

(* A later record never takes a claim back and claims no more than has     *)
(* happened.  It completes only with every requested output done.          *)
Rewrite(a) ==
    /\ record[a].status = "started"
    /\ \E status \in {"started"} \cup Terminal, out \in [Outputs -> Statuses] :
         /\ \A o \in Outputs : out[o] \in MayBecome(record[a].out[o], effect[a][o], o)
         /\ status = "completed" => \A o \in Outputs : out[o] \in {"not_requested", Done(o)}
         /\ record' = [record EXCEPT ![a] = [status |-> status, out |-> out]]
    /\ UNCHANGED <<effect, recorded>>

(* An output is touched only while the record admits that it may have been.*)
Touch(a, o) ==
    /\ effect[a][o] = "untouched"
    /\ a \in recorded => record[a].status = "started" /\ record[a].out[o] = "unknown"
    /\ effect' = [effect EXCEPT ![a][o] = "begun"]
    /\ UNCHANGED <<record, recorded>>

Return(a, o) ==
    /\ effect[a][o] = "begun"
    /\ effect' = [effect EXCEPT ![a][o] = "done"]
    /\ UNCHANGED <<record, recorded>>

Next ==
    \E a \in Attempts :
        \/ Publish(a) \/ Rewrite(a)
        \/ \E o \in Outputs : Touch(a, o) \/ Return(a, o)

Spec == Init /\ [][Next]_<<record, effect, recorded>>

=============================================================================
