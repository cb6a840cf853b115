-------------------------- MODULE WalkForwardAttempt --------------------------
(***************************************************************************)
(* Walk-forward attempts and the records they keep of themselves           *)
(* (scripts/run_walk_forward_backtest.py).                                 *)
(*                                                                         *)
(* An attempt is one process: `main' (plan.cli) or a caller of             *)
(* run_walk_forward.  It runs the code below one step at a time, next to   *)
(* other attempts that may write the same files.  Every call that reads,   *)
(* computes or writes may raise, and the process may be killed (or leave   *)
(* by an exception that `except Exception' does not catch) between any two *)
(* steps.                                                                  *)
(*                                                                         *)
(* mem is attempt.data, disk the published record: a checkpoint replaces   *)
(* disk by mem in one step.  Scores, returns and metrics are left out.     *)
(***************************************************************************)
EXTENDS Naturals

CONSTANTS
    Attempts,  \* the processes
    Plans,     \* the ways they may be called, see PlanType
    Paths,     \* output files
    PathOf     \* PathOf[a][o]: where attempt a writes output o

Files == {"returns", "json"}
Outputs == {"baseline"} \cup Files

PlanType == [cli : BOOLEAN, record : BOOLEAN, returns : BOOLEAN, json : BOOLEAN]

ASSUME AttemptAssumption ==
    /\ Plans \subseteq PlanType
    /\ \A p \in Plans : p.json => p.cli
    /\ PathOf \in [Attempts -> [Files -> Paths]]

VARIABLES
    plan,       \* how each attempt was called
    pc,         \* the step each attempt takes next
    mainStage,  \* the local `stage' of main; "run" in a call of the API
    mem,        \* attempt.data
    disk,       \* the record file, as a reader sees it
    effect,     \* what each attempt has done to each of its outputs
    files       \* what each output file is made of

vars == <<plan, pc, mainStage, mem, disk, effect, files>>

(* A file is the set of the pieces it holds: <<a, o, "whole">> is all that *)
(* a wrote for output o, <<a, o, "part">> a part of it.                    *)
Pieces == Attempts \X Files \X {"part", "whole"}

NoDigest == {}

Done(o) == IF o = "baseline" THEN "committed" ELSE "written"

NoRecord ==
    [status |-> "unpublished", stage |-> "input", failStage |-> "none",
     out |-> [o \in Outputs |-> "not_requested"], digest |-> [o \in Files |-> NoDigest]]

Requested(p, o) ==
    o = "baseline" \/ (o = "returns" /\ p.returns) \/ (o = "json" /\ p.json)

FreshRecord(p) ==
    [NoRecord EXCEPT
        !.status = "started",
        !.out = [o \in Outputs |-> IF Requested(p, o) THEN "not_attempted" ELSE "not_requested"]]

Ended == {"returned", "raised", "killed"}

-----------------------------------------------------------------------------
(* Shapes of steps *)

GoTo(a, step) == pc' = [pc EXCEPT ![a] = step]

(* A call that changes nothing seen here: it returns or it raises. *)
Work(a, from, to) ==
    /\ pc[a] = from
    /\ GoTo(a, to) \/ GoTo(a, "unwind")
    /\ UNCHANGED <<plan, mainStage, mem, disk, effect, files>>

(* mutant of Checkpoint: a record that cannot be written stops nothing *)
CheckpointSwallowed(a, m, to, otherwise) ==
    /\ mem' = [mem EXCEPT ![a] = m]
    /\ IF plan[a].record
         THEN disk' \in {disk, [disk EXCEPT ![a] = m]}
         ELSE UNCHANGED disk
    /\ GoTo(a, to)

(* checkpoint: the record is replaced whole, or the call raises before     *)
(* os.replace or (removing the temporary file) after it.                   *)
Checkpoint(a, m, to, otherwise) ==
    IF plan[a].record
      THEN /\ mem' = [mem EXCEPT ![a] = m]
           /\ \/ disk' = [disk EXCEPT ![a] = m] /\ GoTo(a, to)
              \/ disk' \in {disk, [disk EXCEPT ![a] = m]} /\ GoTo(a, otherwise)
      ELSE UNCHANGED <<mem, disk>> /\ GoTo(a, to)

(* The call that writes output o is entered; a file is truncated by it. *)
Enter(a, o, from, to) ==
    /\ pc[a] = from
    /\ effect' = [effect EXCEPT ![a][o] = "begun"]
    /\ files' = IF o \in Files
                  THEN [files EXCEPT ![PathOf[a][o]] = {<<a, o, "part">>}]
                  ELSE files
    /\ GoTo(a, to)
    /\ UNCHANGED <<plan, mainStage, mem, disk>>

(* It returns with everything written, or it raises.  What it wrote is     *)
(* whole only if no other attempt truncated the file in the meantime.      *)
Leave(a, o, from, to) ==
    /\ pc[a] = from
    /\ \/ /\ GoTo(a, to)
          /\ effect' = [effect EXCEPT ![a][o] = "done"]
          /\ files' = IF o \in Files
                        THEN [files EXCEPT ![PathOf[a][o]] =
                                IF <<a, o, "part">> \in @
                                  THEN (@ \ {<<a, o, "part">>}) \cup {<<a, o, "whole">>}
                                  ELSE @ \cup {<<a, o, "part">>}]
                        ELSE files
       \/ GoTo(a, "unwind") /\ UNCHANGED <<effect, files>>
    /\ UNCHANGED <<plan, mainStage, mem, disk>>

-----------------------------------------------------------------------------
(* _Attempt.__init__ *)

(* The record is linked under a new name, or the call raises before or     *)
(* after that.                                                             *)
Start(a) ==
    /\ pc[a] = "start"
    /\ IF plan[a].record
         THEN \/ /\ mem' = [mem EXCEPT ![a] = FreshRecord(plan[a])]
                 /\ disk' = [disk EXCEPT ![a] = FreshRecord(plan[a])]
                 /\ GoTo(a, IF plan[a].cli THEN "read" ELSE "inputs")
              \/ /\ disk' \in {disk, [disk EXCEPT ![a] = FreshRecord(plan[a])]}
                 /\ GoTo(a, "raised")
                 /\ UNCHANGED mem
         ELSE GoTo(a, IF plan[a].cli THEN "read" ELSE "inputs") /\ UNCHANGED <<mem, disk>>
    /\ UNCHANGED <<plan, mainStage, effect, files>>

(* main reads its input tables. *)
ReadInputs(a) ==
    /\ pc[a] = "read"
    /\ \/ GoTo(a, "inputs") /\ mainStage' = [mainStage EXCEPT ![a] = "run"]
       \/ GoTo(a, "unwind") /\ UNCHANGED mainStage
    /\ UNCHANGED <<plan, mem, disk, effect, files>>

-----------------------------------------------------------------------------
(* _run_walk_forward *)

(* The profile, the store root and the shared inputs. *)
CheckInputs(a) == Work(a, "inputs", "begin_folds")

BeginFolds(a) ==
    /\ pc[a] = "begin_folds"
    /\ Checkpoint(a, [mem[a] EXCEPT !.stage = "folds"], "folds", "unwind")
    /\ UNCHANGED <<plan, mainStage, effect, files>>

RunFolds(a) == Work(a, "folds", "begin_baseline")

(* mutant of BeginBaseline: the stage is announced when it is over *)
BeginBaselineSilent(a) ==
    /\ pc[a] = "begin_baseline"
    /\ Checkpoint(a, [mem[a] EXCEPT !.stage = "baseline"], "persist", "unwind")
    /\ UNCHANGED <<plan, mainStage, effect, files>>

BeginBaseline(a) ==
    /\ pc[a] = "begin_baseline"
    /\ Checkpoint(a, [mem[a] EXCEPT !.stage = "baseline", !.out["baseline"] = "unknown"],
                  "persist", "unwind")
    /\ UNCHANGED <<plan, mainStage, effect, files>>

Persist(a) == Enter(a, "baseline", "persist", "persisting")

PersistReturns(a) == Leave(a, "baseline", "persisting", "commit")

AfterCommit(p) == IF p.returns THEN "begin_returns" ELSE "summarize"

RecordBaseline(a) ==
    /\ pc[a] = "commit"
    /\ Checkpoint(a, [mem[a] EXCEPT !.out["baseline"] = "committed"],
                  AfterCommit(plan[a]), "unwind")
    /\ UNCHANGED <<plan, mainStage, effect, files>>

BeginReturns(a) ==
    /\ pc[a] = "begin_returns"
    /\ Checkpoint(a, [mem[a] EXCEPT !.stage = "returns_output", !.out["returns"] = "unknown"],
                  "rebuild", "unwind")
    /\ UNCHANGED <<plan, mainStage, effect, files>>

(* A run without market history raises here; any other rebuild may raise. *)
RebuildReturns(a) == Work(a, "rebuild", "write_returns")

WriteReturns(a) == Enter(a, "returns", "write_returns", "writing_returns")

(* mutant of ReturnsWritten: the file is read back before it is closed *)
ReturnsBuffered(a) ==
    /\ pc[a] = "writing_returns"
    /\ effect' = [effect EXCEPT ![a]["returns"] = "done"]
    /\ GoTo(a, "digest_returns")
    /\ UNCHANGED <<plan, mainStage, mem, disk, files>>

ReturnsWritten(a) == Leave(a, "returns", "writing_returns", "digest_returns")

(* "written" is in attempt.data before the file is read back. *)
DigestReturns(a) ==
    LET written == [mem[a] EXCEPT !.out["returns"] = "written"]
        digested == [written EXCEPT !.digest["returns"] = files[PathOf[a]["returns"]]]
    IN  /\ pc[a] = "digest_returns"
        /\ \/ Checkpoint(a, digested, "summarize", "unwind")
           \/ /\ plan[a].record
              /\ mem' = [mem EXCEPT ![a] = written]
              /\ GoTo(a, "unwind")
              /\ UNCHANGED disk
        /\ UNCHANGED <<plan, mainStage, effect, files>>

-----------------------------------------------------------------------------
(* run_walk_forward *)

(* The digest of the returned summary; it says nothing of the outputs. *)
Summarize(a) ==
    /\ pc[a] = "summarize"
    /\ Checkpoint(a, mem[a], IF plan[a].cli THEN "begin_json" ELSE "finish", "unwind")
    /\ UNCHANGED <<plan, mainStage, effect, files>>

-----------------------------------------------------------------------------
(* main *)

BeginJson(a) ==
    /\ pc[a] = "begin_json"
    /\ mainStage' = [mainStage EXCEPT ![a] = "json_output"]
    /\ IF plan[a].json
         THEN Checkpoint(a, [mem[a] EXCEPT !.out["json"] = "unknown"], "write_json", "unwind")
         ELSE (GoTo(a, "print") \/ GoTo(a, "unwind")) /\ UNCHANGED <<mem, disk>>
    /\ UNCHANGED <<plan, effect, files>>

WriteJson(a) == Enter(a, "json", "write_json", "writing_json")

JsonWritten(a) == Leave(a, "json", "writing_json", "digest_json")

(* mutant of DigestJson: a file that cannot be read back is let pass *)
DigestJsonOptional(a) ==
    /\ pc[a] = "digest_json"
    /\ mem' = [mem EXCEPT ![a].out["json"] = "written"]
    /\ GoTo(a, "print")
    /\ UNCHANGED <<plan, mainStage, disk, effect, files>>

(* No checkpoint here: the record says so only once the attempt finishes. *)
DigestJson(a) ==
    LET written == [mem[a] EXCEPT !.out["json"] = "written"]
        digested == [written EXCEPT !.digest["json"] = files[PathOf[a]["json"]]]
    IN  /\ pc[a] = "digest_json"
        /\ IF plan[a].record
             THEN \/ mem' = [mem EXCEPT ![a] = digested] /\ GoTo(a, "print")
                  \/ mem' = [mem EXCEPT ![a] = written] /\ GoTo(a, "unwind")
             ELSE GoTo(a, "print") /\ UNCHANGED mem
        /\ UNCHANGED <<plan, mainStage, disk, effect, files>>

PrintSummary(a) == Work(a, "print", "finish")

-----------------------------------------------------------------------------
(* finish and the handlers around it *)

(* mutant of Finish: a failure to complete is handled like any other *)
FinishInsideTry(a) ==
    /\ pc[a] = "finish"
    /\ Checkpoint(a, [mem[a] EXCEPT !.status = "completed"], "returned", "unwind")
    /\ UNCHANGED <<plan, mainStage, effect, files>>

(* Outside the try: if this checkpoint raises, nothing else is recorded. *)
Finish(a) ==
    /\ pc[a] = "finish"
    /\ Checkpoint(a, [mem[a] EXCEPT !.status = "completed"], "returned", "raised")
    /\ UNCHANGED <<plan, mainStage, effect, files>>

(* mutant of FailStage: main forgets which of its own stages it was in *)
FailStageData(a) == mem[a].stage

FailStage(a) == IF mainStage[a] = "run" THEN mem[a].stage ELSE mainStage[a]

(* mutant of Unwind: the exception leaves without a word in the record *)
UnwindSilently(a) ==
    /\ pc[a] = "unwind"
    /\ GoTo(a, "raised")
    /\ UNCHANGED <<plan, mainStage, mem, disk, effect, files>>

(* `except Exception': the record fails, if it can still be written. *)
Unwind(a) ==
    /\ pc[a] = "unwind"
    /\ Checkpoint(a, [mem[a] EXCEPT !.status = "failed", !.failStage = FailStage(a)],
                  "raised", "raised")
    /\ UNCHANGED <<plan, mainStage, effect, files>>

(* The process is killed, or an exception no handler catches takes it down.*)
Kill(a) ==
    /\ pc[a] \notin Ended
    /\ GoTo(a, "killed")
    /\ UNCHANGED <<plan, mainStage, mem, disk, effect, files>>

-----------------------------------------------------------------------------
Init ==
    /\ plan \in [Attempts -> Plans]
    /\ pc = [a \in Attempts |-> "start"]
    /\ mainStage = [a \in Attempts |-> IF plan[a].cli THEN "input" ELSE "run"]
    /\ mem = [a \in Attempts |-> NoRecord]
    /\ disk = [a \in Attempts |-> NoRecord]
    /\ effect = [a \in Attempts |-> [o \in Outputs |-> "untouched"]]
    /\ files = [p \in Paths |-> {}]

Step(a) ==
    \/ Start(a) \/ ReadInputs(a) \/ CheckInputs(a)
    \/ BeginFolds(a) \/ RunFolds(a)
    \/ BeginBaseline(a) \/ Persist(a) \/ PersistReturns(a) \/ RecordBaseline(a)
    \/ BeginReturns(a) \/ RebuildReturns(a) \/ WriteReturns(a) \/ ReturnsWritten(a)
    \/ DigestReturns(a) \/ Summarize(a)
    \/ BeginJson(a) \/ WriteJson(a) \/ JsonWritten(a) \/ DigestJson(a)
    \/ PrintSummary(a) \/ Finish(a) \/ Unwind(a)

Next == \E a \in Attempts : Step(a) \/ Kill(a)

Spec == Init /\ [][Next]_vars

(* The code never waits for anything but its own calls, all of which end. *)
FairSpec == Spec /\ \A a \in Attempts : WF_vars(Step(a))

-----------------------------------------------------------------------------
(* Properties *)

Steps ==
    {"start", "read", "inputs", "begin_folds", "folds", "begin_baseline", "persist",
     "persisting", "commit", "begin_returns", "rebuild", "write_returns",
     "writing_returns", "digest_returns", "summarize", "begin_json", "write_json",
     "writing_json", "digest_json", "print", "finish", "unwind"} \cup Ended

Statuses == {"not_requested", "not_attempted", "unknown", "committed", "written"}

Terminal == {"completed", "failed"}

RecordType ==
    [status    : {"unpublished", "started"} \cup Terminal,
     stage     : {"input", "folds", "baseline", "returns_output"},
     failStage : {"none", "input", "folds", "baseline", "returns_output", "json_output"},
     out       : [Outputs -> Statuses],
     digest    : [Files -> SUBSET Pieces]]

(* Type invariant of the attempts, their records and their files. *)
TypeOK ==
    /\ plan \in [Attempts -> Plans]
    /\ pc \in [Attempts -> Steps]
    /\ mainStage \in [Attempts -> {"input", "run", "json_output"}]
    /\ mem \in [Attempts -> RecordType]
    /\ disk \in [Attempts -> RecordType]
    /\ effect \in [Attempts -> [Outputs -> {"untouched", "begun", "done"}]]
    /\ files \in [Paths -> SUBSET Pieces]

(* A published record never says less than has happened nor more: an       *)
(* output it calls not requested or not attempted is untouched, one it     *)
(* calls committed or written was written by a call that returned; and an  *)
(* attempt asked for a record touches nothing before it is published.      *)
RecordIsHonest ==
    \A a \in Attempts : plan[a].record =>
        \A o \in Outputs :
            /\ disk[a].out[o] \in {"not_requested", "not_attempted"} =>
                 effect[a][o] = "untouched"
            /\ disk[a].out[o] = Done(o) => effect[a][o] = "done"
            /\ effect[a][o] # "untouched" => disk[a].status # "unpublished"

(* A record completes only when the baseline is committed and every        *)
(* requested file written and digested, and names no failure then.         *)
CompletedIsWhole ==
    \A a \in Attempts : disk[a].status = "completed" =>
        /\ disk[a].failStage = "none"
        /\ \A o \in Outputs : Requested(plan[a], o) => disk[a].out[o] = Done(o)
        /\ \A f \in Files : Requested(plan[a], f) => disk[a].digest[f] # NoDigest

(* An attempt that reports success to its caller has a completed record,   *)
(* if it was asked for one.                                                *)
SuccessIsRecorded ==
    \A a \in Attempts :
        pc[a] = "returned" /\ plan[a].record => disk[a].status = "completed"

NotBegun(w) == w \in {"not_requested", "not_attempted"}

(* The failure stage of a failed record agrees with its statuses: nothing  *)
(* of a later stage was begun and everything of an earlier one was done.   *)
FailureStageAgrees ==
    \A a \in Attempts : disk[a].status = "failed" =>
        LET out == disk[a].out
            at  == disk[a].failStage
        IN  /\ at # "none"
            /\ at \in {"input", "folds"} => out["baseline"] = "not_attempted"
            /\ at = "baseline" => out["baseline"] # "not_attempted"
            /\ at \in {"input", "folds", "baseline"} => NotBegun(out["returns"])
            /\ at \in {"returns_output", "json_output"} => out["baseline"] = "committed"
            /\ at = "returns_output" => out["returns"] \in {"unknown", "written"}
            /\ at = "json_output" => out["returns"] \in {"not_requested", "written"}
            /\ at # "json_output" => NotBegun(out["json"])

Exclusive(a, f) ==
    \A b \in Attempts, g \in Files :
        <<b, g>> # <<a, f>> /\ Requested(plan[b], g) => PathOf[b][g] # PathOf[a][f]

(* A digest in a record is the digest of the file at its path, all of it   *)
(* and nothing else, however the attempt goes on and ends, provided no     *)
(* other output goes to the same path.                                     *)
DigestMatchesFile ==
    \A a \in Attempts, f \in Files :
        disk[a].digest[f] # NoDigest /\ Exclusive(a, f) =>
            /\ disk[a].digest[f] = {<<a, f, "whole">>}
            /\ files[PathOf[a][f]] = disk[a].digest[f]

(* A record that has completed or failed is never written again. *)
TerminalRecordStays ==
    [][\A a \in Attempts : disk[a].status \in Terminal => disk'[a] = disk[a]]_vars

(* The published records, read through AttemptRecord. *)
Contract == INSTANCE AttemptRecord WITH
    record   <- [a \in Attempts |-> [status |-> disk[a].status, out |-> disk[a].out]],
    recorded <- {a \in Attempts : plan[a].record}

(* The records and the outputs of all attempts, as AttemptRecord promises  *)
(* them: every record is published before anything is touched, claims only *)
(* ever advance, and an output is touched only while its record admits it. *)
ContractSpec == Contract!Spec

(* The attempt could not write its record: not at the start, or not when   *)
(* it ended.                                                               *)
CouldNotRecord(a) == pc[a] = "raised" /\ mem[a].status # "started"

(* A started record does not stay so: it completes or fails, unless the    *)
(* process is killed or cannot write the record itself.                    *)
StartedRecordSettles ==
    \A a \in Attempts :
        disk[a].status = "started" ~>
            (disk[a].status \in Terminal \/ pc[a] = "killed" \/ CouldNotRecord(a))

=============================================================================
