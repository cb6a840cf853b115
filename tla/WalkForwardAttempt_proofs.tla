---------------------- MODULE WalkForwardAttempt_proofs ----------------------
(***************************************************************************)
(* Proofs about WalkForwardAttempt, for any number of attempts, any plans  *)
(* and any sharing of output files, and about the bundle that is built of  *)
(* such attempts, LifecyclePreflight, for any number of profiles and builds*)
(* and any names the store may choose.                                     *)
(***************************************************************************)
EXTENDS WalkForwardAttempt, LifecyclePreflight, FiniteSetTheorems, TLAPS

USE AttemptAssumption

Running == Steps \ (Ended \cup {"start"})

-----------------------------------------------------------------------------
(* Types *)

LEMMA FreshType ==
    ASSUME NEW p \in PlanType
    PROVE  FreshRecord(p) \in RecordType
BY DEF FreshRecord, NoRecord, NoDigest, RecordType, Statuses, Terminal, Outputs, Files, Pieces

LEMMA TypeInit == Init => TypeOK
<1> SUFFICES ASSUME Init PROVE TypeOK
  OBVIOUS
<1>1. NoRecord \in RecordType
  BY DEF NoRecord, NoDigest, RecordType, Statuses, Terminal
<1> QED BY <1>1 DEF Init, TypeOK, Steps, Outputs

(* What a checkpoint does, in whatever step it is taken. *)
LEMMA CheckpointTyped ==
    ASSUME TypeOK, NEW a \in Attempts, NEW m \in RecordType,
           NEW to \in Steps, NEW otherwise \in Steps, Checkpoint(a, m, to, otherwise)
    PROVE  /\ mem' \in [Attempts -> RecordType]
           /\ disk' \in [Attempts -> RecordType]
           /\ pc' \in [Attempts -> Steps]
BY DEF TypeOK, Checkpoint, GoTo

LEMMA EnterTyped ==
    ASSUME TypeOK, NEW a \in Attempts, NEW o \in Outputs, NEW from \in Steps,
           NEW to \in Steps, Enter(a, o, from, to)
    PROVE  TypeOK'
<1>1. effect' \in [Attempts -> [Outputs -> {"untouched", "begun", "done"}]]
  BY DEF Enter, TypeOK
<1>2. files' \in [Paths -> SUBSET Pieces]
  <2>1. CASE o \in Files
    <3>1. {<<a, o, "part">>} \in SUBSET Pieces
      BY <2>1 DEF Pieces
    <3>2. files' = [files EXCEPT ![PathOf[a][o]] = {<<a, o, "part">>}]
      BY <2>1 DEF Enter
    <3> QED BY <3>1, <3>2 DEF TypeOK
  <2>2. CASE o \notin Files
    BY <2>2 DEF Enter, TypeOK
  <2> QED BY <2>1, <2>2
<1>3. pc' \in [Attempts -> Steps]
  BY DEF Enter, TypeOK, GoTo
<1> QED BY <1>1, <1>2, <1>3 DEF Enter, TypeOK

LEMMA LeaveTyped ==
    ASSUME TypeOK, NEW a \in Attempts, NEW o \in Outputs, NEW from \in Steps,
           NEW to \in Steps, Leave(a, o, from, to)
    PROVE  TypeOK'
<1>1. effect' \in [Attempts -> [Outputs -> {"untouched", "begun", "done"}]]
  <2>1. effect' = [effect EXCEPT ![a][o] = "done"] \/ effect' = effect
    BY DEF Leave
  <2>2. CASE effect' = effect
    BY <2>2 DEF TypeOK
  <2>3. CASE effect' = [effect EXCEPT ![a][o] = "done"]
    <3>1. effect \in [Attempts -> [Outputs -> {"untouched", "begun", "done"}]]
      BY DEF TypeOK
    <3>2. [effect[a] EXCEPT ![o] = "done"] \in [Outputs -> {"untouched", "begun", "done"}]
      BY <3>1
    <3> QED BY <2>3, <3>1, <3>2
  <2> QED BY <2>1, <2>2, <2>3
<1>2. files' \in [Paths -> SUBSET Pieces]
  <2>1. CASE o \in Files /\ files' # files
    <3>1. <<a, o, "part">> \in Pieces /\ <<a, o, "whole">> \in Pieces
      BY <2>1 DEF Pieces
    <3>2. PICK new \in SUBSET Pieces : files' = [files EXCEPT ![PathOf[a][o]] = new]
      <4> DEFINE old == files[PathOf[a][o]]
      <4>1. old \in SUBSET Pieces
        BY <2>1 DEF TypeOK
      <4>2. files' = [files EXCEPT ![PathOf[a][o]] =
                        IF <<a, o, "part">> \in old
                          THEN (old \ {<<a, o, "part">>}) \cup {<<a, o, "whole">>}
                          ELSE old \cup {<<a, o, "part">>}]
        BY <2>1 DEF Leave
      <4> HIDE DEF old
      <4> QED BY <3>1, <4>1, <4>2
    <3> QED BY <3>2 DEF TypeOK
  <2>2. CASE files' = files
    BY <2>2 DEF TypeOK
  <2> QED BY <2>1, <2>2 DEF Leave
<1>3. pc' \in [Attempts -> Steps]
  BY DEF Leave, TypeOK, GoTo, Steps
<1> QED BY <1>1, <1>2, <1>3 DEF Leave, TypeOK

LEMMA WorkTyped ==
    ASSUME TypeOK, NEW a \in Attempts, NEW from \in Steps, NEW to \in Steps,
           Work(a, from, to)
    PROVE  TypeOK'
BY DEF Work, TypeOK, GoTo, Steps

(* The record a checkpoint writes is the one it is given. *)
LEMMA MarkTyped ==
    ASSUME NEW m \in RecordType
    PROVE  /\ \A o \in Outputs, w \in Statuses : [m EXCEPT !.out[o] = w] \in RecordType
           /\ \A f \in Files, d \in SUBSET Pieces : [m EXCEPT !.digest[f] = d] \in RecordType
           /\ \A g \in {"input", "folds", "baseline", "returns_output"} :
                [m EXCEPT !.stage = g] \in RecordType
           /\ [m EXCEPT !.status = "completed"] \in RecordType
           /\ \A g \in {"input", "folds", "baseline", "returns_output", "json_output"} :
                [m EXCEPT !.status = "failed", !.failStage = g] \in RecordType
BY DEF RecordType, Terminal

LEMMA TypeNext == TypeOK /\ [Next]_vars => TypeOK'
<1> SUFFICES ASSUME TypeOK, [Next]_vars PROVE TypeOK'
  OBVIOUS
<1> USE DEF Outputs, Files
<1>a. \A a \in Attempts : mem[a] \in RecordType /\ plan[a] \in PlanType
  BY DEF TypeOK
<1>b. ASSUME NEW a \in Attempts, NEW m \in RecordType, NEW to \in Steps,
             NEW otherwise \in Steps, Checkpoint(a, m, to, otherwise),
             UNCHANGED <<plan, effect, files>>,
             mainStage' \in [Attempts -> {"input", "run", "json_output"}]
      PROVE  TypeOK'
  BY <1>b, CheckpointTyped DEF TypeOK
<1>1. ASSUME NEW a \in Attempts, Start(a) PROVE TypeOK'
  <2>1. FreshRecord(plan[a]) \in RecordType
    BY <1>a, FreshType
  <2>2. pc' \in [Attempts -> Steps]
    BY <1>1 DEF Start, GoTo, TypeOK, Steps, Ended
  <2>3. mem' \in [Attempts -> RecordType] /\ disk' \in [Attempts -> RecordType]
    BY <1>1, <2>1 DEF Start, TypeOK
  <2> QED BY <1>1, <2>2, <2>3 DEF Start, TypeOK
<1>2. ASSUME NEW a \in Attempts, ReadInputs(a) PROVE TypeOK'
  BY <1>2 DEF ReadInputs, GoTo, TypeOK, Steps
<1>3. ASSUME NEW a \in Attempts, CheckInputs(a) \/ RunFolds(a) \/ RebuildReturns(a)
                                 \/ PrintSummary(a)
      PROVE  TypeOK'
  BY <1>3, WorkTyped DEF CheckInputs, RunFolds, RebuildReturns, PrintSummary, Steps
<1>4. ASSUME NEW a \in Attempts, BeginFolds(a) PROVE TypeOK'
  <2>1. [mem[a] EXCEPT !.stage = "folds"] \in RecordType
    BY <1>a, MarkTyped
  <2> QED BY <1>4, <1>b, <2>1 DEF BeginFolds, Steps, TypeOK
<1>5. ASSUME NEW a \in Attempts, BeginBaseline(a) PROVE TypeOK'
  <2>1. [mem[a] EXCEPT !.stage = "baseline", !.out["baseline"] = "unknown"] \in RecordType
    BY <1>a DEF RecordType, Statuses
  <2> QED BY <1>5, <1>b, <2>1 DEF BeginBaseline, Steps, TypeOK
<1>6. ASSUME NEW a \in Attempts, Persist(a) \/ WriteReturns(a) \/ WriteJson(a)
      PROVE  TypeOK'
  BY <1>6, EnterTyped DEF Persist, WriteReturns, WriteJson, Steps
<1>7. ASSUME NEW a \in Attempts, PersistReturns(a) \/ ReturnsWritten(a) \/ JsonWritten(a)
      PROVE  TypeOK'
  BY <1>7, LeaveTyped DEF PersistReturns, ReturnsWritten, JsonWritten, Steps
<1>8. ASSUME NEW a \in Attempts, RecordBaseline(a) PROVE TypeOK'
  <2>1. [mem[a] EXCEPT !.out["baseline"] = "committed"] \in RecordType
    BY <1>a, MarkTyped DEF Statuses
  <2>2. AfterCommit(plan[a]) \in Steps
    BY DEF AfterCommit, Steps
  <2> QED BY <1>8, <1>b, <2>1, <2>2 DEF RecordBaseline, Steps, TypeOK
<1>9. ASSUME NEW a \in Attempts, BeginReturns(a) PROVE TypeOK'
  <2>1. [mem[a] EXCEPT !.stage = "returns_output", !.out["returns"] = "unknown"] \in RecordType
    BY <1>a DEF RecordType, Statuses
  <2> QED BY <1>9, <1>b, <2>1 DEF BeginReturns, Steps, TypeOK
<1>10. ASSUME NEW a \in Attempts, DigestReturns(a) PROVE TypeOK'
  <2> DEFINE written == [mem[a] EXCEPT !.out["returns"] = "written"]
             digested == [written EXCEPT !.digest["returns"] = files[PathOf[a]["returns"]]]
  <2>1. written \in RecordType
    BY <1>a, MarkTyped DEF Statuses
  <2>2. files[PathOf[a]["returns"]] \in SUBSET Pieces
    BY DEF TypeOK
  <2>3. digested \in RecordType
    BY <2>1, <2>2, MarkTyped
  <2>4. CASE Checkpoint(a, digested, "summarize", "unwind")
    BY <1>10, <1>b, <2>3, <2>4 DEF DigestReturns, Steps, TypeOK
  <2>5. CASE mem' = [mem EXCEPT ![a] = written] /\ GoTo(a, "unwind") /\ UNCHANGED disk
    BY <1>10, <2>1, <2>5 DEF DigestReturns, Steps, TypeOK, GoTo
  <2> QED BY <1>10, <2>4, <2>5 DEF DigestReturns
<1>11. ASSUME NEW a \in Attempts, Summarize(a) PROVE TypeOK'
  BY <1>11, <1>a, <1>b DEF Summarize, Steps, TypeOK
<1>12. ASSUME NEW a \in Attempts, BeginJson(a) PROVE TypeOK'
  <2>1. mainStage' \in [Attempts -> {"input", "run", "json_output"}]
    BY <1>12 DEF BeginJson, TypeOK
  <2>2. [mem[a] EXCEPT !.out["json"] = "unknown"] \in RecordType
    BY <1>a, MarkTyped DEF Statuses
  <2>3. CASE plan[a].json
    BY <1>12, <1>b, <2>1, <2>2, <2>3 DEF BeginJson, Steps
  <2>4. CASE ~plan[a].json
    BY <1>12, <2>1, <2>4 DEF BeginJson, Steps, TypeOK, GoTo
  <2> QED BY <2>3, <2>4
<1>13. ASSUME NEW a \in Attempts, DigestJson(a) PROVE TypeOK'
  <2> DEFINE written == [mem[a] EXCEPT !.out["json"] = "written"]
             digested == [written EXCEPT !.digest["json"] = files[PathOf[a]["json"]]]
  <2>1. written \in RecordType
    BY <1>a, MarkTyped DEF Statuses
  <2>2. files[PathOf[a]["json"]] \in SUBSET Pieces
    BY DEF TypeOK
  <2>3. digested \in RecordType
    BY <2>1, <2>2, MarkTyped
  <2>4. \/ mem' = [mem EXCEPT ![a] = digested]
        \/ mem' = [mem EXCEPT ![a] = written]
        \/ mem' = mem
    BY <1>13 DEF DigestJson
  <2>5. mem' \in [Attempts -> RecordType]
    BY <2>1, <2>3, <2>4 DEF TypeOK
  <2>6. pc' \in [Attempts -> Steps]
    BY <1>13 DEF DigestJson, GoTo, Steps, TypeOK
  <2> QED BY <1>13, <2>5, <2>6 DEF DigestJson, TypeOK
<1>14. ASSUME NEW a \in Attempts, Finish(a) PROVE TypeOK'
  <2>1. [mem[a] EXCEPT !.status = "completed"] \in RecordType
    BY <1>a, MarkTyped
  <2> QED BY <1>14, <1>b, <2>1 DEF Finish, Steps, Ended, TypeOK
<1>15. ASSUME NEW a \in Attempts, Unwind(a) PROVE TypeOK'
  <2>1. FailStage(a) \in {"input", "folds", "baseline", "returns_output", "json_output"}
    BY <1>a DEF FailStage, TypeOK, RecordType
  <2>2. [mem[a] EXCEPT !.status = "failed", !.failStage = FailStage(a)] \in RecordType
    BY <1>a, <2>1, MarkTyped
  <2> QED BY <1>15, <1>b, <2>2 DEF Unwind, Steps, Ended, TypeOK
<1>16. ASSUME NEW a \in Attempts, Kill(a) PROVE TypeOK'
  BY <1>16 DEF Kill, GoTo, Steps, Ended, TypeOK
<1>17. CASE UNCHANGED vars
  BY <1>17 DEF vars, TypeOK
<1> QED BY <1>1, <1>2, <1>3, <1>4, <1>5, <1>6, <1>7, <1>8, <1>9, <1>10, <1>11, <1>12,
           <1>13, <1>14, <1>15, <1>16, <1>17 DEF Next, Step

(* Type correctness of the attempts, their records and their files. *)
THEOREM TypeCorrect == Spec => []TypeOK
<1> QED BY TypeInit, TypeNext, PTL DEF Spec

-----------------------------------------------------------------------------
(* Records and effects *)

(* The record r says no less and no more than the effects e. *)
HonestAbout(r, e) ==
    \A o \in Outputs :
        /\ r.out[o] \in {"not_requested", "not_attempted"} => e[o] = "untouched"
        /\ r.out[o] = Done(o) => e[o] = "done"

(* What must hold of the record r and the effects e before a step. *)
Ready(step, r, e) ==
    /\ step \in {"persist", "persisting"} => r.out["baseline"] = "unknown"
    /\ step = "commit" => e["baseline"] = "done"
    /\ step \in {"rebuild", "write_returns", "writing_returns"} => r.out["returns"] = "unknown"
    /\ step = "digest_returns" => e["returns"] = "done"
    /\ step \in {"write_json", "writing_json"} => r.out["json"] = "unknown"
    /\ step = "digest_json" => e["json"] = "done"

(* RecordIsHonest speaks of the record on disk only.  A checkpoint writes  *)
(* attempt.data, so that must be as honest; and a writing call must find   *)
(* its output "unknown" in both.                                           *)
AttemptInv(a) ==
    /\ pc[a] = "start" => disk[a].status = "unpublished"
    /\ pc[a] \in Running => /\ disk[a].status = "started"
                            /\ mem[a].status = "started"
                            /\ HonestAbout(mem[a], effect[a])
    /\ pc[a] = "returned" => disk[a].status = "completed"
    /\ disk[a].status = "unpublished" => \A o \in Outputs : effect[a][o] = "untouched"
    /\ HonestAbout(disk[a], effect[a])
    /\ Ready(pc[a], mem[a], effect[a]) /\ Ready(pc[a], disk[a], effect[a])

RecordInv == \A a \in Attempts : plan[a].record => AttemptInv(a)

(* A step of one attempt changes nothing that is another's, but files. *)
LEMMA StepIsLocal ==
    ASSUME TypeOK, NEW b \in Attempts, Step(b) \/ Kill(b),
           NEW a \in Attempts, a # b
    PROVE  /\ pc'[a] = pc[a] /\ mem'[a] = mem[a] /\ disk'[a] = disk[a]
           /\ effect'[a] = effect[a] /\ mainStage'[a] = mainStage[a]
<1> USE DEF GoTo, TypeOK
<1>1. CASE Start(b) \/ ReadInputs(b) \/ Kill(b) \/ DigestJson(b)
  BY <1>1 DEF Start, ReadInputs, Kill, DigestJson
<1>2. CASE CheckInputs(b) \/ RunFolds(b) \/ RebuildReturns(b) \/ PrintSummary(b)
  BY <1>2 DEF CheckInputs, RunFolds, RebuildReturns, PrintSummary, Work
<1>3. CASE BeginFolds(b) \/ BeginBaseline(b) \/ RecordBaseline(b) \/ BeginReturns(b)
           \/ Summarize(b) \/ Finish(b) \/ Unwind(b)
  BY <1>3 DEF BeginFolds, BeginBaseline, RecordBaseline, BeginReturns, Summarize, Finish,
              Unwind, Checkpoint
<1>4. CASE DigestReturns(b) \/ BeginJson(b)
  BY <1>4 DEF DigestReturns, BeginJson, Checkpoint
<1>5. CASE Persist(b) \/ WriteReturns(b) \/ WriteJson(b)
  BY <1>5 DEF Persist, WriteReturns, WriteJson, Enter
<1>6. ASSUME NEW o \in Outputs, NEW from, NEW to, Leave(b, o, from, to)
      PROVE  /\ pc'[a] = pc[a] /\ mem'[a] = mem[a] /\ disk'[a] = disk[a]
             /\ effect'[a] = effect[a] /\ mainStage'[a] = mainStage[a]
  <2>1. effect' = [effect EXCEPT ![b][o] = "done"] \/ effect' = effect
    BY <1>6 DEF Leave
  <2>2. effect'[a] = effect[a]
    BY <2>1
  <2> QED BY <1>6, <2>2 DEF Leave
<1>7. CASE PersistReturns(b) \/ ReturnsWritten(b) \/ JsonWritten(b)
  BY <1>6, <1>7 DEF PersistReturns, ReturnsWritten, JsonWritten, Outputs, Files
<1> QED BY <1>1, <1>2, <1>3, <1>4, <1>5, <1>7 DEF Step

(* A checkpoint of an honest record keeps the invariant, however it ends. *)
LEMMA CheckpointKeeps ==
    ASSUME TypeOK, NEW a \in Attempts, plan[a].record, AttemptInv(a), pc[a] \in Running,
           NEW m \in RecordType, m.status = "started", HonestAbout(m, effect[a]),
           NEW to \in Running, Ready(to, m, effect[a]),
           Checkpoint(a, m, to, "unwind"), UNCHANGED <<plan, effect>>
    PROVE  AttemptInv(a)'
<1>1. "unwind" \in Running /\ "unwind" \notin {"start", "returned"}
  BY DEF Running, Steps, Ended
<1>2. mem'[a] = m /\ pc'[a] \in {to, "unwind"} /\ effect'[a] = effect[a]
  BY DEF Checkpoint, GoTo, TypeOK
<1>3. disk'[a] = m \/ (disk'[a] = disk[a] /\ pc'[a] = "unwind")
  BY DEF Checkpoint, GoTo, TypeOK
<1>4. HonestAbout(disk'[a], effect'[a]) /\ disk'[a].status = "started"
  BY <1>2, <1>3 DEF AttemptInv
<1>5. Ready(pc'[a], mem'[a], effect'[a]) /\ Ready(pc'[a], disk'[a], effect'[a])
  BY <1>2, <1>3 DEF Ready
<1>6. pc'[a] \in Running /\ pc'[a] \notin {"start", "returned"}
  BY <1>1, <1>2 DEF Running, Ended
<1> QED BY <1>2, <1>4, <1>5, <1>6 DEF AttemptInv, HonestAbout, Ready

(* Saying of an output what is known of it keeps a record honest. *)
LEMMA MarkHonest ==
    ASSUME NEW r \in RecordType, NEW e, HonestAbout(r, e), NEW o \in Outputs
    PROVE  /\ HonestAbout([r EXCEPT !.out[o] = "unknown"], e)
           /\ [r EXCEPT !.out[o] = "unknown"].out[o] = "unknown"
           /\ [r EXCEPT !.out[o] = "unknown"].status = r.status
           /\ e[o] = "done" => HonestAbout([r EXCEPT !.out[o] = Done(o)], e)
           /\ [r EXCEPT !.out[o] = Done(o)].status = r.status
<1>1. r.out \in [Outputs -> Statuses]
  BY DEF RecordType
<1>2. ASSUME NEW w
      PROVE  /\ [r EXCEPT !.out[o] = w].out = [r.out EXCEPT ![o] = w]
             /\ [r EXCEPT !.out[o] = w].status = r.status
  BY DEF RecordType
<1>3. Done(o) \notin {"not_requested", "not_attempted"} /\ "unknown" # Done(o)
  BY DEF Done
<1> QED BY <1>1, <1>2, <1>3 DEF HonestAbout

(* A writing call finds its output "unknown" when it is entered ... *)
LEMMA EnterKeeps ==
    ASSUME TypeOK, NEW a \in Attempts, AttemptInv(a),
           Persist(a) \/ WriteReturns(a) \/ WriteJson(a)
    PROVE  AttemptInv(a)'
<1>1. PICK o \in Outputs, to \in {"persisting", "writing_returns", "writing_json"} :
        /\ mem[a].out[o] = "unknown" /\ disk[a].out[o] = "unknown"
        /\ \/ to = "persisting" /\ o = "baseline"
           \/ to = "writing_returns" /\ o = "returns"
           \/ to = "writing_json" /\ o = "json"
        /\ pc[a] \in Running
        /\ pc' = [pc EXCEPT ![a] = to]
        /\ effect' = [effect EXCEPT ![a][o] = "begun"]
        /\ UNCHANGED <<plan, mem, disk>>
  BY DEF AttemptInv, Ready, Persist, WriteReturns, WriteJson, Enter, GoTo, Outputs, Files,
         Running, Steps, Ended
<1>2. /\ pc'[a] = to
      /\ effect'[a] = [effect[a] EXCEPT ![o] = "begun"]
      /\ mem'[a] = mem[a] /\ disk'[a] = disk[a]
  BY <1>1 DEF TypeOK
<1>3. \A q \in Outputs : effect'[a][q] = IF q = o THEN "begun" ELSE effect[a][q]
  BY <1>2 DEF TypeOK
<1>4. Done(o) # "unknown"
  BY DEF Done
<1>5. HonestAbout(mem'[a], effect'[a]) /\ HonestAbout(disk'[a], effect'[a])
  BY <1>1, <1>2, <1>3, <1>4 DEF AttemptInv, HonestAbout
<1>6. Ready(to, mem'[a], effect'[a]) /\ Ready(to, disk'[a], effect'[a])
  BY <1>1, <1>2 DEF Ready
<1>7. disk'[a].status = "started" /\ mem'[a].status = "started"
  BY <1>1, <1>2 DEF AttemptInv
<1> QED BY <1>1, <1>2, <1>5, <1>6, <1>7 DEF AttemptInv

(* ... and the output is done when the call returns. *)
LEMMA LeaveKeeps ==
    ASSUME TypeOK, NEW a \in Attempts, AttemptInv(a),
           PersistReturns(a) \/ ReturnsWritten(a) \/ JsonWritten(a)
    PROVE  AttemptInv(a)'
<1>1. PICK o \in Outputs, to \in {"commit", "digest_returns", "digest_json"} :
        /\ mem[a].out[o] = "unknown" /\ disk[a].out[o] = "unknown"
        /\ \/ to = "commit" /\ o = "baseline"
           \/ to = "digest_returns" /\ o = "returns"
           \/ to = "digest_json" /\ o = "json"
        /\ pc[a] \in Running
        /\ \/ pc' = [pc EXCEPT ![a] = to] /\ effect' = [effect EXCEPT ![a][o] = "done"]
           \/ pc' = [pc EXCEPT ![a] = "unwind"] /\ effect' = effect
        /\ UNCHANGED <<plan, mem, disk>>
  BY DEF AttemptInv, Ready, PersistReturns, ReturnsWritten, JsonWritten, Leave, GoTo,
         Outputs, Files, Running, Steps, Ended
<1>2. mem'[a] = mem[a] /\ disk'[a] = disk[a]
  BY <1>1
<1>3. disk'[a].status = "started" /\ mem'[a].status = "started"
  BY <1>1, <1>2 DEF AttemptInv
<1>4. CASE pc' = [pc EXCEPT ![a] = to] /\ effect' = [effect EXCEPT ![a][o] = "done"]
  <2>1. pc'[a] = to /\ effect'[a] = [effect[a] EXCEPT ![o] = "done"]
    BY <1>4 DEF TypeOK
  <2>2. \A q \in Outputs : effect'[a][q] = IF q = o THEN "done" ELSE effect[a][q]
    BY <2>1 DEF TypeOK
  <2>3. HonestAbout(mem'[a], effect'[a]) /\ HonestAbout(disk'[a], effect'[a])
    BY <1>1, <1>2, <2>2 DEF AttemptInv, HonestAbout
  <2>4. Ready(to, mem'[a], effect'[a]) /\ Ready(to, disk'[a], effect'[a])
    BY <1>1, <2>2 DEF Ready
  <2>5. to \notin {"start", "returned"}
    OBVIOUS
  <2> QED BY <1>3, <2>1, <2>3, <2>4, <2>5 DEF AttemptInv
<1>5. CASE pc' = [pc EXCEPT ![a] = "unwind"] /\ effect' = effect
  <2>1. pc'[a] = "unwind"
    BY <1>5 DEF TypeOK
  <2> QED BY <1>1, <1>2, <1>3, <1>5, <2>1 DEF AttemptInv, HonestAbout, Ready
<1> QED BY <1>1, <1>4, <1>5

(* A step that leaves the records and the effects alone keeps the          *)
(* invariant, unless it starts, returns or writes.                         *)
LEMMA QuietKeeps ==
    ASSUME TypeOK, NEW a \in Attempts, AttemptInv(a), pc[a] \in Running,
           NEW to \in {"inputs", "begin_folds", "begin_baseline", "finish", "print",
                       "unwind", "write_returns"},
           to = "write_returns" => pc[a] = "rebuild",
           pc' = [pc EXCEPT ![a] = to], UNCHANGED <<mem, disk, effect>>
    PROVE  AttemptInv(a)'
<1>1. pc'[a] = to
  BY DEF TypeOK
<1> QED BY <1>1 DEF AttemptInv, HonestAbout, Ready

LEMMA OwnStepKeeps ==
    ASSUME TypeOK, NEW a \in Attempts, plan[a].record, AttemptInv(a), Step(a) \/ Kill(a)
    PROVE  AttemptInv(a)'
<1> USE DEF Files, Outputs
<1>a. mem[a] \in RecordType /\ pc[a] \in Steps
  BY DEF TypeOK
<1>b. pc[a] \in Running => HonestAbout(mem[a], effect[a]) /\ mem[a].status = "started"
  BY DEF AttemptInv
<1>1. CASE Start(a)
  <2>1. FreshRecord(plan[a]).status = "started"
    BY DEF FreshRecord, NoRecord
  <2>2. /\ pc[a] = "start" /\ disk[a].status = "unpublished"
        /\ effect' = effect /\ \A o \in Outputs : effect[a][o] = "untouched"
    BY <1>1 DEF Start, AttemptInv
  <2>3. HonestAbout(FreshRecord(plan[a]), effect[a])
    BY <2>2 DEF HonestAbout, FreshRecord, NoRecord, Done
  <2>4. \/ /\ mem'[a] = FreshRecord(plan[a]) /\ disk'[a] = FreshRecord(plan[a])
           /\ pc'[a] \in {"read", "inputs"}
        \/ /\ disk'[a] \in {disk[a], FreshRecord(plan[a])} /\ pc'[a] = "raised"
    BY <1>1 DEF Start, GoTo, TypeOK
  <2> QED BY <2>1, <2>2, <2>3, <2>4 DEF AttemptInv, HonestAbout, Ready, Running, Steps, Ended
<1>2. CASE ReadInputs(a)
  BY <1>2, QuietKeeps DEF ReadInputs, GoTo, Running, Steps, Ended
<1>3. CASE CheckInputs(a) \/ RunFolds(a) \/ RebuildReturns(a) \/ PrintSummary(a)
  BY <1>3, QuietKeeps DEF CheckInputs, RunFolds, RebuildReturns, PrintSummary, Work, GoTo,
                          Running, Steps, Ended
<1>4. CASE BeginFolds(a)
  <2> DEFINE m == [mem[a] EXCEPT !.stage = "folds"]
  <2>1. m \in RecordType /\ m.status = mem[a].status /\ m.out = mem[a].out
    BY <1>a DEF RecordType
  <2>2. pc[a] \in Running /\ "folds" \in Running /\ Ready("folds", m, effect[a])
    BY <1>4 DEF BeginFolds, Running, Steps, Ended, Ready
  <2>3. HonestAbout(m, effect[a])
    BY <1>b, <2>1, <2>2 DEF HonestAbout
  <2> HIDE DEF m
  <2>4. Checkpoint(a, m, "folds", "unwind") /\ UNCHANGED <<plan, effect>>
    BY <1>4 DEF BeginFolds, m
  <2> QED BY <1>b, <2>1, <2>2, <2>3, <2>4, CheckpointKeeps
<1>5. CASE BeginBaseline(a)
  <2> DEFINE m == [mem[a] EXCEPT !.stage = "baseline", !.out["baseline"] = "unknown"]
  <2>1. /\ m \in RecordType /\ m.status = mem[a].status
        /\ m.out = [mem[a].out EXCEPT !["baseline"] = "unknown"]
    BY <1>a DEF RecordType, Statuses
  <2>2. pc[a] \in Running /\ "persist" \in Running
    BY <1>5 DEF BeginBaseline, Running, Steps, Ended
  <2>3. mem[a].out \in [Outputs -> Statuses]
    BY <1>a DEF RecordType
  <2>4. HonestAbout(m, effect[a]) /\ Ready("persist", m, effect[a])
    BY <1>b, <2>1, <2>2, <2>3 DEF HonestAbout, Done, Ready
  <2> HIDE DEF m
  <2>5. Checkpoint(a, m, "persist", "unwind") /\ UNCHANGED <<plan, effect>>
    BY <1>5 DEF BeginBaseline, m
  <2> QED BY <1>b, <2>1, <2>2, <2>4, <2>5, CheckpointKeeps
<1>6. CASE Persist(a) \/ WriteReturns(a) \/ WriteJson(a)
  BY <1>6, EnterKeeps
<1>7. CASE PersistReturns(a) \/ ReturnsWritten(a) \/ JsonWritten(a)
  BY <1>7, LeaveKeeps
<1>8. CASE RecordBaseline(a)
  <2> DEFINE m == [mem[a] EXCEPT !.out["baseline"] = "committed"]
             to == AfterCommit(plan[a])
  <2>1. pc[a] \in Running /\ effect[a]["baseline"] = "done"
    BY <1>8 DEF RecordBaseline, Running, Steps, Ended, AttemptInv, Ready
  <2>2. m \in RecordType /\ m.status = mem[a].status /\ HonestAbout(m, effect[a])
    <3>1. m \in RecordType
      BY <1>a, MarkTyped DEF Statuses
    <3>2. m = [mem[a] EXCEPT !.out["baseline"] = Done("baseline")]
      BY DEF Done
    <3> HIDE DEF m
    <3> QED BY <1>a, <1>b, <2>1, <3>1, <3>2, MarkHonest
  <2>3. to \in Running /\ Ready(to, m, effect[a])
    BY DEF AfterCommit, Running, Steps, Ended, Ready
  <2> HIDE DEF m, to
  <2>4. Checkpoint(a, m, to, "unwind") /\ UNCHANGED <<plan, effect>>
    BY <1>8 DEF RecordBaseline, m, to
  <2> QED BY <1>b, <2>1, <2>2, <2>3, <2>4, CheckpointKeeps
<1>9. CASE BeginReturns(a)
  <2> DEFINE m == [mem[a] EXCEPT !.stage = "returns_output", !.out["returns"] = "unknown"]
  <2>1. /\ m \in RecordType /\ m.status = mem[a].status
        /\ m.out = [mem[a].out EXCEPT !["returns"] = "unknown"]
    BY <1>a DEF RecordType, Statuses
  <2>2. pc[a] \in Running /\ "rebuild" \in Running
    BY <1>9 DEF BeginReturns, Running, Steps, Ended
  <2>3. mem[a].out \in [Outputs -> Statuses]
    BY <1>a DEF RecordType
  <2>4. HonestAbout(m, effect[a]) /\ Ready("rebuild", m, effect[a])
    BY <1>b, <2>1, <2>2, <2>3 DEF HonestAbout, Done, Ready
  <2> HIDE DEF m
  <2>5. Checkpoint(a, m, "rebuild", "unwind") /\ UNCHANGED <<plan, effect>>
    BY <1>9 DEF BeginReturns, m
  <2> QED BY <1>b, <2>1, <2>2, <2>4, <2>5, CheckpointKeeps
<1>10. CASE DigestReturns(a)
  <2> DEFINE written == [mem[a] EXCEPT !.out["returns"] = "written"]
             digested == [written EXCEPT !.digest["returns"] = files[PathOf[a]["returns"]]]
  <2>1. pc[a] \in Running /\ effect[a]["returns"] = "done"
    BY <1>10 DEF DigestReturns, Running, Steps, Ended, AttemptInv, Ready
  <2>2. written \in RecordType /\ written.status = "started" /\ HonestAbout(written, effect[a])
    <3>1. written \in RecordType
      BY <1>a, MarkTyped DEF Statuses
    <3>2. written = [mem[a] EXCEPT !.out["returns"] = Done("returns")]
      BY DEF Done
    <3> HIDE DEF written
    <3> QED BY <1>a, <1>b, <2>1, <3>1, <3>2, MarkHonest
  <2>3. files[PathOf[a]["returns"]] \in SUBSET Pieces
    BY DEF TypeOK
  <2>4. digested \in RecordType /\ digested.status = "started" /\ digested.out = written.out
    <3>1. digested \in RecordType
      BY <2>2, <2>3, MarkTyped
    <3> QED BY <2>2, <3>1 DEF RecordType
  <2>5. HonestAbout(digested, effect[a])
    BY <2>2, <2>4 DEF HonestAbout
  <2>6. "summarize" \in Running /\ Ready("summarize", digested, effect[a])
    BY DEF Running, Steps, Ended, Ready
  <2>7. CASE Checkpoint(a, digested, "summarize", "unwind")
    <3> HIDE DEF digested
    <3>1. UNCHANGED <<plan, effect>>
      BY <1>10 DEF DigestReturns
    <3> QED BY <2>1, <2>4, <2>5, <2>6, <2>7, <3>1, CheckpointKeeps
  <2>8. CASE mem' = [mem EXCEPT ![a] = written] /\ GoTo(a, "unwind") /\ UNCHANGED disk
    <3> HIDE DEF written
    <3>1. mem'[a] = written /\ pc'[a] = "unwind" /\ disk' = disk /\ effect' = effect
      BY <1>10, <2>8 DEF DigestReturns, GoTo, TypeOK
    <3> QED BY <2>1, <2>2, <3>1 DEF AttemptInv, HonestAbout, Ready
  <2> QED BY <1>10, <2>7, <2>8 DEF DigestReturns
<1>11. CASE Summarize(a)
  <2> DEFINE to == IF plan[a].cli THEN "begin_json" ELSE "finish"
  <2>1. pc[a] \in Running /\ to \in Running /\ Ready(to, mem[a], effect[a])
    BY <1>11 DEF Summarize, Running, Steps, Ended, Ready
  <2> HIDE DEF to
  <2>2. Checkpoint(a, mem[a], to, "unwind") /\ UNCHANGED <<plan, effect>>
    BY <1>11 DEF Summarize, to
  <2> QED BY <1>a, <1>b, <2>1, <2>2, CheckpointKeeps
<1>12. CASE BeginJson(a)
  <2>1. pc[a] \in Running
    BY <1>12 DEF BeginJson, Running, Steps, Ended
  <2>2. CASE plan[a].json
    <3> DEFINE m == [mem[a] EXCEPT !.out["json"] = "unknown"]
    <3>1. /\ m \in RecordType /\ m.status = mem[a].status /\ HonestAbout(m, effect[a])
          /\ m.out["json"] = "unknown"
      <4>1. m \in RecordType
        BY <1>a, MarkTyped DEF Statuses
      <4>2. m.status = mem[a].status /\ m.out["json"] = "unknown"
        BY <1>a DEF RecordType
      <4>3. m = [mem[a] EXCEPT !.out["json"] = "unknown"]
        OBVIOUS
      <4>4. HonestAbout(m, effect[a])
        <5> HIDE DEF m
        <5> QED BY <1>a, <1>b, <2>1, <4>3, MarkHonest
      <4> QED BY <4>1, <4>2, <4>4
    <3>2. "write_json" \in Running /\ Ready("write_json", m, effect[a])
      BY <3>1 DEF Running, Steps, Ended, Ready
    <3> HIDE DEF m
    <3>3. Checkpoint(a, m, "write_json", "unwind") /\ UNCHANGED <<plan, effect>>
      BY <1>12, <2>2 DEF BeginJson, m
    <3> QED BY <1>b, <2>1, <3>1, <3>2, <3>3, CheckpointKeeps
  <2>3. CASE ~plan[a].json
    BY <1>12, <2>1, <2>3, QuietKeeps DEF BeginJson, GoTo
  <2> QED BY <2>2, <2>3
<1>13. CASE DigestJson(a)
  <2> DEFINE written == [mem[a] EXCEPT !.out["json"] = "written"]
             digested == [written EXCEPT !.digest["json"] = files[PathOf[a]["json"]]]
  <2>1. pc[a] \in Running /\ effect[a]["json"] = "done"
    BY <1>13 DEF DigestJson, Running, Steps, Ended, AttemptInv, Ready
  <2>2. written \in RecordType /\ written.status = "started" /\ HonestAbout(written, effect[a])
    <3>1. written \in RecordType
      BY <1>a, MarkTyped DEF Statuses
    <3>2. written = [mem[a] EXCEPT !.out["json"] = Done("json")]
      BY DEF Done
    <3> HIDE DEF written
    <3> QED BY <1>a, <1>b, <2>1, <3>1, <3>2, MarkHonest
  <2>3. files[PathOf[a]["json"]] \in SUBSET Pieces
    BY DEF TypeOK
  <2>4. digested \in RecordType /\ digested.status = "started" /\ digested.out = written.out
    <3>1. digested \in RecordType
      BY <2>2, <2>3, MarkTyped
    <3> QED BY <2>2, <3>1 DEF RecordType
  <2>5. HonestAbout(digested, effect[a])
    BY <2>2, <2>4 DEF HonestAbout
  <2> HIDE DEF written, digested
  <2>6. /\ mem' = [mem EXCEPT ![a] = digested] \/ mem' = [mem EXCEPT ![a] = written]
        /\ pc'[a] \in {"print", "unwind"} /\ disk' = disk /\ effect' = effect
    BY <1>13 DEF DigestJson, GoTo, TypeOK, written, digested
  <2>7. mem'[a] = digested \/ mem'[a] = written
    BY <2>6 DEF TypeOK
  <2> QED BY <2>1, <2>2, <2>4, <2>5, <2>6, <2>7 DEF AttemptInv, HonestAbout, Ready
<1>14. CASE Finish(a)
  <2> DEFINE m == [mem[a] EXCEPT !.status = "completed"]
  <2>1. pc[a] \in Running
    BY <1>14 DEF Finish, Running, Steps, Ended
  <2>2. m.status = "completed" /\ m.out = mem[a].out
    BY <1>a DEF RecordType
  <2>3. HonestAbout(m, effect[a])
    BY <1>b, <2>1, <2>2 DEF HonestAbout
  <2> HIDE DEF m
  <2>4. /\ effect' = effect
        /\ \/ disk'[a] = m /\ pc'[a] = "returned"
           \/ disk'[a] \in {disk[a], m} /\ pc'[a] = "raised"
    BY <1>14 DEF Finish, Checkpoint, GoTo, TypeOK, m
  <2> QED BY <2>1, <2>2, <2>3, <2>4 DEF AttemptInv, HonestAbout, Ready, Running, Ended
<1>15. CASE Unwind(a)
  <2> DEFINE m == [mem[a] EXCEPT !.status = "failed", !.failStage = FailStage(a)]
  <2>1. pc[a] \in Running
    BY <1>15 DEF Unwind, Running, Steps, Ended
  <2>2. m.status = "failed" /\ m.out = mem[a].out
    BY <1>a DEF RecordType
  <2>3. HonestAbout(m, effect[a])
    BY <1>b, <2>1, <2>2 DEF HonestAbout
  <2> HIDE DEF m
  <2>4. effect' = effect /\ disk'[a] \in {disk[a], m} /\ pc'[a] = "raised"
    BY <1>15 DEF Unwind, Checkpoint, GoTo, TypeOK, m
  <2> QED BY <2>1, <2>2, <2>3, <2>4 DEF AttemptInv, HonestAbout, Ready, Running, Ended
<1>16. CASE Kill(a)
  <2>1. pc'[a] = "killed" /\ UNCHANGED <<mem, disk, effect>>
    BY <1>16 DEF Kill, GoTo, TypeOK
  <2> QED BY <2>1 DEF AttemptInv, HonestAbout, Ready, Running, Ended
<1> QED BY <1>1, <1>2, <1>3, <1>4, <1>5, <1>6, <1>7, <1>8, <1>9, <1>10, <1>11, <1>12,
           <1>13, <1>14, <1>15, <1>16 DEF Step

LEMMA PlanStays == [Next]_vars => plan' = plan
BY DEF Next, Step, vars, Start, ReadInputs, CheckInputs, RunFolds, RebuildReturns,
       PrintSummary, Work, BeginFolds, BeginBaseline, RecordBaseline, BeginReturns,
       Summarize, Finish, Unwind, DigestReturns, BeginJson, Persist, WriteReturns,
       WriteJson, Enter, PersistReturns, ReturnsWritten, JsonWritten, Leave, DigestJson, Kill

LEMMA RecordNext == TypeOK /\ RecordInv /\ [Next]_vars => RecordInv'
<1> SUFFICES ASSUME TypeOK, RecordInv, [Next]_vars, NEW a \in Attempts, plan[a].record
             PROVE  AttemptInv(a)'
  BY PlanStays DEF RecordInv
<1>1. AttemptInv(a)
  BY DEF RecordInv
<1>2. CASE UNCHANGED vars
  BY <1>1, <1>2 DEF vars, AttemptInv, HonestAbout, Ready
<1>3. ASSUME NEW b \in Attempts, Step(b) \/ Kill(b) PROVE AttemptInv(a)'
  <2>1. CASE a = b
    BY <1>1, <1>3, <2>1, OwnStepKeeps
  <2>2. CASE a # b
    BY <1>1, <1>3, <2>2, StepIsLocal DEF AttemptInv, HonestAbout, Ready
  <2> QED BY <2>1, <2>2
<1> QED BY <1>2, <1>3 DEF Next

LEMMA RecordInit == Init => RecordInv
BY DEF Init, RecordInv, AttemptInv, HonestAbout, Ready, NoRecord, Done, Running, Outputs, Files

(* The inductive invariant behind honest records and recorded success.     *)
THEOREM RecordInvariant == Spec => []RecordInv
<1> QED BY RecordInit, RecordNext, TypeCorrect, PTL DEF Spec

(* A record claims neither less nor more than has happened to the outputs, *)
(* whatever raises and whenever the process is killed.                     *)
THEOREM HonestRecords == Spec => []RecordIsHonest
<1>1. RecordInv => RecordIsHonest
  BY DEF RecordInv, AttemptInv, HonestAbout, RecordIsHonest
<1> QED BY <1>1, RecordInvariant, PTL

(* Success is never reported without a completed record. *)
THEOREM RecordedSuccess == Spec => []SuccessIsRecorded
<1>1. RecordInv => SuccessIsRecorded
  BY DEF RecordInv, AttemptInv, SuccessIsRecorded
<1> QED BY <1>1, RecordInvariant, PTL

(* A record that has completed or failed is never written again: an        *)
(* attempt whose record is terminal has ended, and takes no step.          *)
THEOREM TerminalStays == Spec => TerminalRecordStays
<1>1. TypeOK /\ RecordInv /\ [Next]_vars =>
        [\A a \in Attempts : disk[a].status \in Terminal => disk'[a] = disk[a]]_vars
  <2> SUFFICES ASSUME TypeOK, RecordInv, Next, NEW a \in Attempts,
                      disk[a].status \in Terminal
               PROVE  disk'[a] = disk[a]
    OBVIOUS
  <2>1. PICK b \in Attempts : Step(b) \/ Kill(b)
    BY DEF Next
  <2>2. CASE a # b
    BY <2>1, <2>2, StepIsLocal
  <2>3. CASE a = b /\ plan[a].record
    <3>1. AttemptInv(a)
      BY <2>3 DEF RecordInv
    <3>2. pc[a] \notin Running /\ pc[a] # "start"
      BY <3>1 DEF AttemptInv, Terminal
    <3>3. pc[a] \in Ended
      BY <3>2 DEF TypeOK, Running
    <3>4. ~Step(a) /\ ~Kill(a)
      BY <3>3 DEF Ended, Step, Kill, Start, ReadInputs, CheckInputs, RunFolds,
            RebuildReturns, PrintSummary, Work, BeginFolds, BeginBaseline, RecordBaseline,
            BeginReturns, Summarize, Finish, Unwind, DigestReturns, BeginJson, Persist,
            WriteReturns, WriteJson, Enter, PersistReturns, ReturnsWritten, JsonWritten,
            Leave, DigestJson
    <3> QED BY <2>1, <2>3, <3>4
  <2>4. CASE a = b /\ ~plan[a].record
    BY <2>1, <2>4 DEF Step, Kill, Start, ReadInputs, CheckInputs, RunFolds,
            RebuildReturns, PrintSummary, Work, BeginFolds, BeginBaseline, RecordBaseline,
            BeginReturns, Summarize, Finish, Unwind, DigestReturns, BeginJson, Persist,
            WriteReturns, WriteJson, Enter, PersistReturns, ReturnsWritten, JsonWritten,
            Leave, DigestJson, Checkpoint
  <2> QED BY <2>2, <2>3, <2>4
<1> QED BY <1>1, TypeCorrect, RecordInvariant, PTL DEF Spec, TerminalRecordStays

-----------------------------------------------------------------------------
(***************************************************************************)
(* Where an attempt is.  Until it fails, an attempt is determined by its   *)
(* plan and the step it is at: what it has done (EffectAt), where main     *)
(* believes to be (MainAt) and what its record says (WordAt, StageAt).  An *)
(* attempt that unwinds still has the record of some step, which is what   *)
(* the stage it names has to agree with.                                   *)
(***************************************************************************)

(* The steps before an output is announced, and those until it is said to  *)
(* be done.                                                                *)
Before(o) ==
    {"read", "inputs", "begin_folds", "folds", "begin_baseline"} \cup
    (IF o = "baseline" THEN {}
     ELSE {"persist", "persisting", "commit", "begin_returns"} \cup
          (IF o = "returns" THEN {}
           ELSE {"rebuild", "write_returns", "writing_returns", "digest_returns", "summarize",
                 "begin_json"}))

During(o) ==
    IF o = "baseline" THEN {"persist", "persisting", "commit"}
    ELSE IF o = "returns" THEN {"rebuild", "write_returns", "writing_returns", "digest_returns"}
    ELSE {"write_json", "writing_json", "digest_json"}

Working == Before("json") \cup During("json") \cup {"print", "finish"}

Openings == {"persist", "rebuild", "write_returns", "write_json"}

Calls == {"persisting", "writing_returns", "writing_json"}

(* An attempt with plan p comes to this step. *)
OnPath(step, p) ==
    /\ step = "read" => p.cli
    /\ step \in During("returns") \cup {"begin_returns"} => p.returns
    /\ step \in {"begin_json", "print"} => p.cli
    /\ step \in During("json") => p.json

(* What it has done by then, and in which stage it is. *)
EffectAt(step, p, o) ==
    IF ~Requested(p, o) \/ step \in {"start"} \cup Before(o) \cup (During(o) \cap Openings)
      THEN "untouched"
    ELSE IF step \in During(o) \cap Calls THEN "begun" ELSE "done"

MainAt(step, p) ==
    IF ~p.cli THEN "run"
    ELSE IF step \in {"start", "read"} THEN "input"
    ELSE IF step \in Before("json") THEN "run" ELSE "json_output"

StageAt(step, p) ==
    IF step \in {"read", "inputs", "begin_folds"} THEN "input"
    ELSE IF step \in {"folds", "begin_baseline"} THEN "folds"
    ELSE IF step \in Before("returns") \/ ~p.returns THEN "baseline"
    ELSE "returns_output"

(* What its record says then. *)
WordAt(step, p, o) ==
    IF ~Requested(p, o) THEN "not_requested"
    ELSE IF step \in Before(o) THEN "not_attempted"
    ELSE IF step \in During(o) THEN "unknown" ELSE Done(o)

Digested(step, f) == step \notin Before(f) \cup During(f)

Says(r, step, p) ==
    /\ r.stage = StageAt(step, p)
    /\ \A o \in Outputs : r.out[o] = WordAt(step, p, o)

(* The words of r may replace those of d, once the effects are e. *)
Follows(r, d, e) ==
    \A o \in Outputs :
        \/ r.out[o] = d.out[o]
        \/ d.out[o] = "not_attempted" /\ r.out[o] = "unknown"
        \/ d.out[o] = "unknown" /\ e[o] = "done" /\ r.out[o] = Done(o)

Whole(r, p) ==
    /\ r.failStage = "none"
    /\ \A o \in Outputs : r.out[o] = IF Requested(p, o) THEN Done(o) ELSE "not_requested"
    /\ \A f \in Files : Requested(p, f) => r.digest[f] # NoDigest

Agrees(r) ==
    LET out == r.out
        at  == r.failStage
    IN  /\ at # "none"
        /\ at \in {"input", "folds"} => out["baseline"] = "not_attempted"
        /\ at = "baseline" => out["baseline"] # "not_attempted"
        /\ at \in {"input", "folds", "baseline"} => NotBegun(out["returns"])
        /\ at \in {"returns_output", "json_output"} => out["baseline"] = "committed"
        /\ at = "returns_output" => out["returns"] \in {"unknown", "written"}
        /\ at = "json_output" => out["returns"] \in {"not_requested", "written"}
        /\ at # "json_output" => NotBegun(out["json"])

(* Every attempt: its step, its plan and its effects go together. *)
OnCourse(a) ==
    pc[a] \in Working \cup {"start"} =>
        /\ OnPath(pc[a], plan[a])
        /\ mainStage[a] = MainAt(pc[a], plan[a])
        /\ \A o \in Outputs : effect[a][o] = EffectAt(pc[a], plan[a], o)

(* A file is what the effects on it say, unless others go to its path. *)
FileAgrees(a, f) ==
    /\ effect[a][f] # "untouched" => files[PathOf[a][f]] # {}
    /\ Exclusive(a, f) =>
         files[PathOf[a][f]] = IF effect[a][f] = "untouched" THEN {}
                               ELSE IF effect[a][f] = "begun" THEN {<<a, f, "part">>}
                               ELSE {<<a, f, "whole">>}

(* A digest was taken when the file was done. *)
DigestAgrees(a, f, r) ==
    r.digest[f] # NoDigest =>
        /\ effect[a][f] = "done"
        /\ Exclusive(a, f) => r.digest[f] = {<<a, f, "whole">>}

(* An attempt that keeps a record: disk may lag behind attempt.data, but   *)
(* only by words that may follow those it has.                             *)
Recorded(a) ==
    /\ pc[a] = "start" => disk[a] = NoRecord
    /\ pc[a] \in Working =>
         /\ Says(mem[a], pc[a], plan[a])
         /\ pc[a] \notin {"print", "finish"} => disk[a].out = mem[a].out
         /\ \A f \in Files : Requested(plan[a], f) /\ Digested(pc[a], f) =>
                                mem[a].digest[f] # NoDigest
    /\ pc[a] = "unwind" =>
         \E step \in Working :
            /\ OnPath(step, plan[a]) /\ Says(mem[a], step, plan[a])
            /\ mainStage[a] = MainAt(step, plan[a])
    /\ pc[a] \in Working \cup {"unwind"} =>
         mem[a].failStage = "none" /\ Follows(mem[a], disk[a], effect[a])
    /\ disk[a].status = "completed" => Whole(disk[a], plan[a])
    /\ disk[a].status = "failed" => Agrees(disk[a])

CourseInv ==
    \A a \in Attempts :
        /\ OnCourse(a)
        /\ plan[a].record => Recorded(a)
        /\ ~plan[a].record => disk[a] = NoRecord /\ mem[a] = NoRecord
        /\ \A f \in Files : FileAgrees(a, f) /\ DigestAgrees(a, f, mem[a]) /\ DigestAgrees(a, f, disk[a])

(* A step leads to the next step of the plan, or off the course.           *)
LEMMA CourseOwn ==
    ASSUME TypeOK, NEW a \in Attempts, OnCourse(a), Step(a) \/ Kill(a)
    PROVE  OnCourse(a)'
<1> USE DEF OnCourse, OnPath, MainAt, EffectAt, Before, During, Working, Openings, Calls,
            Requested, GoTo, TypeOK, Outputs, Files
<1>1. CASE Start(a) \/ Kill(a)
  BY <1>1 DEF Start, Kill
<1>2. CASE ReadInputs(a) \/ CheckInputs(a) \/ RunFolds(a) \/ RebuildReturns(a) \/ PrintSummary(a)
  BY <1>2 DEF ReadInputs, CheckInputs, RunFolds, RebuildReturns, PrintSummary, Work
<1>3. CASE BeginFolds(a) \/ BeginBaseline(a) \/ RecordBaseline(a) \/ BeginReturns(a)
  BY <1>3 DEF BeginFolds, BeginBaseline, RecordBaseline, AfterCommit, BeginReturns, Checkpoint
<1>4. CASE Summarize(a) \/ Finish(a) \/ Unwind(a)
  BY <1>4 DEF Summarize, Finish, Unwind, Checkpoint
<1>5. CASE DigestReturns(a) \/ BeginJson(a) \/ DigestJson(a)
  BY <1>5 DEF DigestReturns, BeginJson, DigestJson, Checkpoint
<1>6. CASE Persist(a) \/ WriteReturns(a) \/ WriteJson(a)
  BY <1>6 DEF Persist, WriteReturns, WriteJson, Enter
<1>7. CASE PersistReturns(a) \/ ReturnsWritten(a) \/ JsonWritten(a)
  BY <1>7 DEF PersistReturns, ReturnsWritten, JsonWritten, Leave
<1> QED BY <1>1, <1>2, <1>3, <1>4, <1>5, <1>6, <1>7 DEF Step

(* What a reached step says of a failure there. *)
LEMMA SaysAgrees ==
    ASSUME NEW step \in Working, NEW p \in Plans, OnPath(step, p), NEW r, Says(r, step, p),
           NEW g, g = IF MainAt(step, p) = "run" THEN r.stage ELSE MainAt(step, p),
           NEW s, s.out = r.out, s.failStage = g
    PROVE  Agrees(s)
<1>1. p \in PlanType
  OBVIOUS
<1> QED BY <1>1 DEF Agrees, Says, StageAt, MainAt, OnPath, WordAt, Working, Before, During, Requested,
       Outputs, Files, Done, NotBegun, PlanType

(* A checkpoint that says what the next step requires. *)
LEMMA CheckpointRecords ==
    ASSUME TypeOK, NEW a \in Attempts, plan[a].record, OnCourse(a), Recorded(a), AttemptInv(a),
           pc[a] \in Working \ {"print", "finish"},
           NEW m \in RecordType, m.status = "started", m.failStage = "none",
           NEW to \in Working \ {"print"}, OnPath(to, plan[a]), Says(m, to, plan[a]),
           Follows(m, mem[a], effect[a]),
           \A f \in Files : Requested(plan[a], f) /\ Digested(to, f) => m.digest[f] # NoDigest,
           Checkpoint(a, m, to, "unwind"), UNCHANGED <<plan, effect>>,
           mainStage'[a] = MainAt(to, plan[a])
    PROVE  Recorded(a)' /\ Follows(disk'[a], disk[a], effect[a])
<1>1. to \notin {"start", "unwind"} /\ "unwind" \notin {"start"} \cup Working
  BY DEF Working, Before, During
<1>2. mem'[a] = m /\ pc'[a] \in {to, "unwind"} /\ effect'[a] = effect[a] /\ plan'[a] = plan[a]
  BY DEF Checkpoint, GoTo, TypeOK
<1>3. disk'[a] = m \/ (disk'[a] = disk[a] /\ pc'[a] = "unwind")
  BY DEF Checkpoint, GoTo, TypeOK
<1>4. disk[a].out = mem[a].out /\ disk[a].status = "started"
  BY DEF Recorded, AttemptInv, Running, Steps, Ended, Working, Before, During
<1>5. Follows(m, disk'[a], effect[a])
  BY <1>3, <1>4 DEF Follows
<1>6. disk'[a].status = "started"
  BY <1>3, <1>4
<1>9. Follows(disk'[a], disk[a], effect[a])
  BY <1>3, <1>4 DEF Follows
<1>7. CASE pc'[a] = to
  <2>1. disk'[a] = m
    BY <1>1, <1>3, <1>7
  <2> QED BY <1>1, <1>2, <1>5, <1>6, <1>7, <2>1 DEF Recorded, Says, Follows
<1>8. CASE pc'[a] = "unwind"
  <2>1. /\ pc'[a] # "start" /\ pc'[a] \notin Working
        /\ mem'[a].failStage = "none" /\ Follows(mem'[a], disk'[a], effect'[a])
    BY <1>1, <1>2, <1>5, <1>8
  <2>2. OnPath(to, plan'[a]) /\ Says(mem'[a], to, plan'[a]) /\ mainStage'[a] = MainAt(to, plan'[a])
    BY <1>2
  <2>3. Recorded(a)'
    BY <1>6, <2>1, <2>2 DEF Recorded, Says, Follows
  <2> QED BY <1>9, <2>3
<1> QED BY <1>2, <1>7, <1>8, <1>9

(* A step that leaves the records alone. *)
LEMMA QuietRecords ==
    ASSUME TypeOK, NEW a \in Attempts, plan[a].record, Recorded(a), AttemptInv(a),
           pc[a] \in Working, NEW to \in Working, pc'[a] \in {to, "unwind"},
           OnPath(pc[a], plan[a]), mainStage[a] = MainAt(pc[a], plan[a]),
           mainStage'[a] = mainStage[a] \/ (OnPath(to, plan[a]) /\ mainStage'[a] = MainAt(to, plan[a])),
           Says(mem[a], to, plan[a]), to \in {"print", "finish"} \/ pc[a] \notin {"print", "finish"},
           \A f \in Files : Requested(plan[a], f) /\ Digested(to, f) => Digested(pc[a], f),
           UNCHANGED <<plan, mem, disk>>,
           \A o \in Outputs : effect[a][o] = "done" => effect'[a][o] = "done"
    PROVE  Recorded(a)' /\ Follows(disk'[a], disk[a], effect[a])
<1>1. "unwind" \notin {"start"} \cup Working /\ "start" \notin Working
  BY DEF Working, Before, During
<1>2. disk[a].status = "started"
  BY DEF AttemptInv, Running, Steps, Ended, Working, Before, During
<1>3. mem'[a] = mem[a] /\ disk'[a] = disk[a] /\ plan'[a] = plan[a]
  OBVIOUS
<1>4. mem'[a].failStage = "none" /\ Follows(mem'[a], disk'[a], effect'[a])
  BY <1>3 DEF Recorded, Follows
<1>5. CASE pc'[a] = to
  BY <1>1, <1>2, <1>3, <1>4, <1>5 DEF Recorded, Says, Follows
<1>6. CASE pc'[a] = "unwind"
  <2>1. \E step \in Working :
            /\ OnPath(step, plan'[a]) /\ Says(mem'[a], step, plan'[a])
            /\ mainStage'[a] = MainAt(step, plan'[a])
    BY <1>3 DEF Recorded
  <2> QED BY <1>1, <1>2, <1>3, <1>4, <1>6, <2>1 DEF Recorded, Says, Follows
<1>7. Follows(disk'[a], disk[a], effect[a])
  BY <1>3 DEF Follows
<1> QED BY <1>5, <1>6, <1>7

(* The record follows the step, and its words only advance. *)
LEMMA RecordedOwn ==
    ASSUME TypeOK, NEW a \in Attempts, plan[a].record, OnCourse(a), OnCourse(a)', Recorded(a),
           AttemptInv(a), \A f \in Files : FileAgrees(a, f), Step(a) \/ Kill(a)
    PROVE  Recorded(a)' /\ (pc[a] # "start" => Follows(disk'[a], disk[a], effect[a]))
<1> USE DEF Outputs, Files
<1>a. mem[a] \in RecordType /\ plan[a] \in PlanType /\ pc[a] \in Steps
  BY DEF TypeOK
<1>b. mem[a].out \in [Outputs -> Statuses]
  BY <1>a DEF RecordType
<1>c. pc[a] \in Working => /\ mem[a].status = "started" /\ disk[a].status = "started"
                           /\ Says(mem[a], pc[a], plan[a]) /\ mem[a].failStage = "none"
                           /\ OnPath(pc[a], plan[a])
                           /\ mainStage[a] = MainAt(pc[a], plan[a])
                           /\ \A o \in Outputs : effect[a][o] = EffectAt(pc[a], plan[a], o)
  BY DEF AttemptInv, Running, Steps, Ended, Working, Before, During, Recorded, OnCourse
<1>d. plan'[a] = plan[a]
  BY PlanStays DEF Next
<1>e. plan[a].json => plan[a].cli
  BY DEF TypeOK
<1>1. CASE Start(a)
  <2>1. disk[a] = NoRecord /\ disk'[a] \in {NoRecord, FreshRecord(plan[a])}
    BY <1>1 DEF Start, Recorded, TypeOK
  <2>2. disk'[a].status \in {"unpublished", "started"}
    <3>1. NoRecord.status = "unpublished" /\ FreshRecord(plan[a]).status = "started"
      BY DEF NoRecord, FreshRecord
    <3> QED BY <2>1, <3>1
  <2>5. pc[a] = "start"
    BY <1>1 DEF Start
  <2>3. CASE pc'[a] = "raised"
    BY <1>d, <2>2, <2>3, <2>5 DEF Recorded, Working, Before, During
  <2>4. CASE /\ mem'[a] = FreshRecord(plan[a]) /\ disk'[a] = FreshRecord(plan[a])
             /\ pc'[a] = IF plan[a].cli THEN "read" ELSE "inputs"
    <3>1. Says(FreshRecord(plan[a]), pc'[a], plan[a]) /\ FreshRecord(plan[a]).failStage = "none"
      BY <2>4 DEF Says, FreshRecord, NoRecord, StageAt, WordAt, Before, During, Requested
    <3> QED BY <1>d, <2>2, <2>4, <2>5, <3>1 DEF Recorded, Follows, Says, Digested, Before, During, Working
  <2> QED BY <1>1, <2>3, <2>4, <2>5 DEF Start, GoTo, TypeOK
<1>2. CASE ReadInputs(a) \/ CheckInputs(a) \/ RunFolds(a) \/ RebuildReturns(a) \/ PrintSummary(a)
  <2> DEFINE to == IF pc[a] = "read" THEN "inputs" ELSE IF pc[a] = "inputs" THEN "begin_folds"
                   ELSE IF pc[a] = "folds" THEN "begin_baseline"
                   ELSE IF pc[a] = "rebuild" THEN "write_returns" ELSE "finish"
  <2>1. /\ pc[a] \in {"read", "inputs", "folds", "rebuild", "print"}
        /\ pc'[a] \in {to, "unwind"} /\ UNCHANGED <<plan, mem, disk, effect>>
        /\ mainStage'[a] = mainStage[a] \/ (pc[a] = "read" /\ mainStage'[a] = "run")
    BY <1>2 DEF ReadInputs, CheckInputs, RunFolds, RebuildReturns, PrintSummary, Work, GoTo, TypeOK
  <2>2. pc[a] \in Working /\ to \in Working
    BY <2>1 DEF Working, Before, During
  <2>3. Says(mem[a], to, plan[a])
    BY <1>a, <1>c, <2>1, <2>2 DEF Says, StageAt, WordAt, Before, During, OnPath, Requested, PlanType
  <2>4. pc[a] = "read" => OnPath(to, plan[a]) /\ MainAt(to, plan[a]) = "run"
    BY DEF OnPath, MainAt, Before, During
  <2>5. /\ to \in {"print", "finish"} \/ pc[a] \notin {"print", "finish"}
        /\ \A f \in Files : Requested(plan[a], f) /\ Digested(to, f) => Digested(pc[a], f)
    BY <2>1 DEF Digested, Before, During
  <2> HIDE DEF to
  <2> QED BY <1>c, <2>1, <2>2, <2>3, <2>4, <2>5, QuietRecords
<1>3. CASE Persist(a) \/ WriteReturns(a) \/ WriteJson(a)
  <2> DEFINE to == IF pc[a] = "persist" THEN "persisting" ELSE IF pc[a] = "write_returns"
                   THEN "writing_returns" ELSE "writing_json"
  <2>1. /\ pc[a] \in {"persist", "write_returns", "write_json"} /\ pc'[a] = to
        /\ UNCHANGED <<plan, mem, disk, mainStage>>
    BY <1>3 DEF Persist, WriteReturns, WriteJson, Enter, GoTo, TypeOK
  <2>2. PICK o \in Outputs : /\ effect' = [effect EXCEPT ![a][o] = "begun"]
                             /\ effect[a][o] = "untouched"
    BY <1>3, <1>c DEF Persist, WriteReturns, WriteJson, Enter, EffectAt, Before, During, Openings,
          Working
  <2>3. \A q \in Outputs : effect[a][q] = "done" => effect'[a][q] = "done"
    BY <2>2 DEF TypeOK
  <2>4. pc[a] \in Working /\ to \in Working
    BY <2>1 DEF Working, Before, During
  <2>5. Says(mem[a], to, plan[a])
    BY <1>a, <1>c, <2>1, <2>4 DEF Says, StageAt, WordAt, Before, During, OnPath, Requested, PlanType
  <2>6. /\ to \in {"print", "finish"} \/ pc[a] \notin {"print", "finish"}
        /\ \A f \in Files : Requested(plan[a], f) /\ Digested(to, f) => Digested(pc[a], f)
    BY <2>1 DEF Digested, Before, During
  <2> HIDE DEF to
  <2> QED BY <1>c, <2>1, <2>3, <2>4, <2>5, <2>6, QuietRecords
<1>4. CASE PersistReturns(a) \/ ReturnsWritten(a) \/ JsonWritten(a)
  <2> DEFINE to == IF pc[a] = "persisting" THEN "commit" ELSE IF pc[a] = "writing_returns"
                   THEN "digest_returns" ELSE "digest_json"
  <2>1. /\ pc[a] \in {"persisting", "writing_returns", "writing_json"} /\ pc'[a] \in {to, "unwind"}
        /\ UNCHANGED <<plan, mem, disk, mainStage>>
    BY <1>4 DEF PersistReturns, ReturnsWritten, JsonWritten, Leave, GoTo, TypeOK
  <2>2. \A q \in Outputs : effect[a][q] = "done" => effect'[a][q] = "done"
    BY <1>4 DEF PersistReturns, ReturnsWritten, JsonWritten, Leave, TypeOK
  <2>4. pc[a] \in Working /\ to \in Working
    BY <2>1 DEF Working, Before, During
  <2>5. Says(mem[a], to, plan[a])
    BY <1>a, <1>c, <2>1, <2>4 DEF Says, StageAt, WordAt, Before, During, OnPath, Requested, PlanType
  <2>6. /\ to \in {"print", "finish"} \/ pc[a] \notin {"print", "finish"}
        /\ \A f \in Files : Requested(plan[a], f) /\ Digested(to, f) => Digested(pc[a], f)
    BY <2>1 DEF Digested, Before, During
  <2> HIDE DEF to
  <2> QED BY <1>c, <2>1, <2>2, <2>4, <2>5, <2>6, QuietRecords
<1>5. CASE BeginFolds(a)
  <2> DEFINE m == [mem[a] EXCEPT !.stage = "folds"]
             to == "folds"
  <2>1. /\ pc[a] \in Working \ {"print", "finish"} /\ to \in Working \ {"print"}
        /\ OnPath(to, plan[a])
    BY <1>5, <1>c DEF BeginFolds, Working, Before, During, OnPath, AfterCommit
  <2>2. m \in RecordType /\ m.status = "started" /\ m.failStage = "none"
    BY <1>a, <1>c, <2>1 DEF RecordType, Statuses
  <2>3. Says(m, to, plan[a]) /\ Follows(m, mem[a], effect[a])
    <3>1. pc[a] = "begin_folds"
      BY <1>5 DEF BeginFolds
    <3> QED BY <1>a, <1>b, <1>c, <1>e, <2>1, <3>1 DEF RecordType, Says, Follows, StageAt, WordAt,
          EffectAt, Before, During, Openings, Calls, OnPath, Requested, PlanType, Done, AfterCommit
  <2>4. \A f \in Files : Requested(plan[a], f) /\ Digested(to, f) => m.digest[f] # NoDigest
    BY <1>5, <1>a, <1>c, <2>1 DEF BeginFolds, RecordType, Recorded, Requested, Digested, Before,
       During, AfterCommit, OnPath, PlanType
  <2>5. Checkpoint(a, m, to, "unwind") /\ UNCHANGED <<plan, effect>>
    BY <1>5 DEF BeginFolds
  <2>6. mainStage'[a] = MainAt(to, plan[a])
    BY <1>5, <1>a, <1>c, <2>1 DEF BeginFolds, MainAt, Before, During, AfterCommit, OnPath, PlanType
  <2> HIDE DEF m, to
  <2> QED BY <2>1, <2>2, <2>3, <2>4, <2>5, <2>6, CheckpointRecords
<1>6. CASE BeginBaseline(a)
  <2> DEFINE m == [mem[a] EXCEPT !.stage = "baseline", !.out["baseline"] = "unknown"]
             to == "persist"
  <2>1. /\ pc[a] \in Working \ {"print", "finish"} /\ to \in Working \ {"print"}
        /\ OnPath(to, plan[a])
    BY <1>6, <1>c DEF BeginBaseline, Working, Before, During, OnPath, AfterCommit
  <2>2. m \in RecordType /\ m.status = "started" /\ m.failStage = "none"
    BY <1>a, <1>c, <2>1 DEF RecordType, Statuses
  <2>3. Says(m, to, plan[a]) /\ Follows(m, mem[a], effect[a])
    <3>1. pc[a] = "begin_baseline"
      BY <1>6 DEF BeginBaseline
    <3> QED BY <1>a, <1>b, <1>c, <1>e, <2>1, <3>1 DEF RecordType, Says, Follows, StageAt, WordAt,
          EffectAt, Before, During, Openings, Calls, OnPath, Requested, PlanType, Done, AfterCommit
  <2>4. \A f \in Files : Requested(plan[a], f) /\ Digested(to, f) => m.digest[f] # NoDigest
    BY <1>6, <1>a, <1>c, <2>1 DEF BeginBaseline, RecordType, Recorded, Requested, Digested, Before,
       During, AfterCommit, OnPath, PlanType
  <2>5. Checkpoint(a, m, to, "unwind") /\ UNCHANGED <<plan, effect>>
    BY <1>6 DEF BeginBaseline
  <2>6. mainStage'[a] = MainAt(to, plan[a])
    BY <1>6, <1>a, <1>c, <2>1 DEF BeginBaseline, MainAt, Before, During, AfterCommit, OnPath, PlanType
  <2> HIDE DEF m, to
  <2> QED BY <2>1, <2>2, <2>3, <2>4, <2>5, <2>6, CheckpointRecords
<1>7. CASE RecordBaseline(a)
  <2> DEFINE m == [mem[a] EXCEPT !.out["baseline"] = "committed"]
             to == AfterCommit(plan[a])
  <2>1. /\ pc[a] \in Working \ {"print", "finish"} /\ to \in Working \ {"print"}
        /\ OnPath(to, plan[a])
    BY <1>7, <1>c DEF RecordBaseline, Working, Before, During, OnPath, AfterCommit
  <2>2. m \in RecordType /\ m.status = "started" /\ m.failStage = "none"
    BY <1>a, <1>c, <2>1 DEF RecordType, Statuses
  <2>3. Says(m, to, plan[a]) /\ Follows(m, mem[a], effect[a])
    <3>1. pc[a] = "commit"
      BY <1>7 DEF RecordBaseline
    <3> QED BY <1>a, <1>b, <1>c, <1>e, <2>1, <3>1 DEF RecordType, Says, Follows, StageAt, WordAt,
          EffectAt, Before, During, Openings, Calls, OnPath, Requested, PlanType, Done, AfterCommit
  <2>4. \A f \in Files : Requested(plan[a], f) /\ Digested(to, f) => m.digest[f] # NoDigest
    BY <1>7, <1>a, <1>c, <2>1 DEF RecordBaseline, RecordType, Recorded, Requested, Digested, Before,
       During, AfterCommit, OnPath, PlanType
  <2>5. Checkpoint(a, m, to, "unwind") /\ UNCHANGED <<plan, effect>>
    BY <1>7 DEF RecordBaseline
  <2>6. mainStage'[a] = MainAt(to, plan[a])
    BY <1>7, <1>a, <1>c, <2>1 DEF RecordBaseline, MainAt, Before, During, AfterCommit, OnPath, PlanType
  <2> HIDE DEF m, to
  <2> QED BY <2>1, <2>2, <2>3, <2>4, <2>5, <2>6, CheckpointRecords
<1>8. CASE BeginReturns(a)
  <2> DEFINE m == [mem[a] EXCEPT !.stage = "returns_output", !.out["returns"] = "unknown"]
             to == "rebuild"
  <2>1. /\ pc[a] \in Working \ {"print", "finish"} /\ to \in Working \ {"print"}
        /\ OnPath(to, plan[a])
    BY <1>8, <1>c DEF BeginReturns, Working, Before, During, OnPath, AfterCommit
  <2>2. m \in RecordType /\ m.status = "started" /\ m.failStage = "none"
    BY <1>a, <1>c, <2>1 DEF RecordType, Statuses
  <2>3. Says(m, to, plan[a]) /\ Follows(m, mem[a], effect[a])
    <3>1. pc[a] = "begin_returns"
      BY <1>8 DEF BeginReturns
    <3> QED BY <1>a, <1>b, <1>c, <1>e, <2>1, <3>1 DEF RecordType, Says, Follows, StageAt, WordAt,
          EffectAt, Before, During, Openings, Calls, OnPath, Requested, PlanType, Done, AfterCommit
  <2>4. \A f \in Files : Requested(plan[a], f) /\ Digested(to, f) => m.digest[f] # NoDigest
    BY <1>8, <1>a, <1>c, <2>1 DEF BeginReturns, RecordType, Recorded, Requested, Digested, Before,
       During, AfterCommit, OnPath, PlanType
  <2>5. Checkpoint(a, m, to, "unwind") /\ UNCHANGED <<plan, effect>>
    BY <1>8 DEF BeginReturns
  <2>6. mainStage'[a] = MainAt(to, plan[a])
    BY <1>8, <1>a, <1>c, <2>1 DEF BeginReturns, MainAt, Before, During, AfterCommit, OnPath, PlanType
  <2> HIDE DEF m, to
  <2> QED BY <2>1, <2>2, <2>3, <2>4, <2>5, <2>6, CheckpointRecords
<1>9. CASE Summarize(a)
  <2> DEFINE m == mem[a]
             to == IF plan[a].cli THEN "begin_json" ELSE "finish"
  <2>1. /\ pc[a] \in Working \ {"print", "finish"} /\ to \in Working \ {"print"}
        /\ OnPath(to, plan[a])
    BY <1>9, <1>c DEF Summarize, Working, Before, During, OnPath, AfterCommit
  <2>2. m \in RecordType /\ m.status = "started" /\ m.failStage = "none"
    BY <1>a, <1>c, <2>1 DEF RecordType, Statuses
  <2>3. Says(m, to, plan[a]) /\ Follows(m, mem[a], effect[a])
    <3>1. pc[a] = "summarize"
      BY <1>9 DEF Summarize
    <3> QED BY <1>a, <1>b, <1>c, <1>e, <2>1, <3>1 DEF RecordType, Says, Follows, StageAt, WordAt,
          EffectAt, Before, During, Openings, Calls, OnPath, Requested, PlanType, Done, AfterCommit
  <2>4. \A f \in Files : Requested(plan[a], f) /\ Digested(to, f) => m.digest[f] # NoDigest
    <3>1. pc[a] = "summarize"
      BY <1>9 DEF Summarize
    <3>2. \A f \in Files : Requested(plan[a], f) /\ Digested(to, f) => Digested(pc[a], f)
      BY <1>e, <3>1 DEF Requested, Digested, Before, During
    <3> QED BY <2>1, <3>2 DEF Recorded
  <2>5. Checkpoint(a, m, to, "unwind") /\ UNCHANGED <<plan, effect>>
    BY <1>9 DEF Summarize
  <2>6. mainStage'[a] = MainAt(to, plan[a])
    BY <1>9, <1>a, <1>c, <2>1 DEF Summarize, MainAt, Before, During, AfterCommit, OnPath, PlanType
  <2> HIDE DEF m, to
  <2> QED BY <2>1, <2>2, <2>3, <2>4, <2>5, <2>6, CheckpointRecords
<1>10. CASE DigestReturns(a)
  <2> DEFINE written == [mem[a] EXCEPT !.out["returns"] = "written"]
             digested == [written EXCEPT !.digest["returns"] = files[PathOf[a]["returns"]]]
  <2>1. /\ pc[a] = "digest_returns" /\ pc[a] \in Working \ {"print", "finish"}
        /\ "summarize" \in Working \ {"print"} /\ OnPath("summarize", plan[a])
        /\ mainStage'[a] = MainAt("summarize", plan[a])
    BY <1>10, <1>c DEF DigestReturns, Working, Before, During, OnPath, MainAt
  <2>2. effect[a]["returns"] = "done"
    BY <1>c, <2>1 DEF EffectAt, OnPath, Requested, Before, During, Openings, Calls
  <2>3. files[PathOf[a]["returns"]] # {} /\ files[PathOf[a]["returns"]] \in SUBSET Pieces
    BY <2>2 DEF FileAgrees, TypeOK
  <2>4. /\ written \in RecordType /\ written.status = "started" /\ written.failStage = "none"
        /\ written.stage = mem[a].stage
        /\ written.out = [mem[a].out EXCEPT !["returns"] = "written"]
    BY <1>a, <1>c, <2>1 DEF RecordType, Statuses
  <2>5. Says(written, "summarize", plan[a]) /\ Follows(written, mem[a], effect[a])
    <3> HIDE DEF written
    <3> QED BY <1>a, <1>b, <1>c, <2>1, <2>2, <2>4 DEF Says, Follows, StageAt, WordAt, Before,
          During, OnPath, Requested, PlanType, Done
  <2>6. /\ digested \in RecordType /\ digested.status = "started" /\ digested.failStage = "none"
        /\ digested.stage = written.stage /\ digested.out = written.out
        /\ digested.digest["returns"] # NoDigest
    <3> HIDE DEF written
    <3> QED BY <2>3, <2>4 DEF RecordType, NoDigest
  <2>7. Says(digested, "summarize", plan[a]) /\ Follows(digested, mem[a], effect[a])
    BY <2>5, <2>6 DEF Says, Follows
  <2>8. \A f \in Files : Requested(plan[a], f) /\ Digested("summarize", f) => digested.digest[f] # NoDigest
    BY <2>6 DEF Digested, Before, During
  <2>9. CASE Checkpoint(a, digested, "summarize", "unwind")
    <3> HIDE DEF digested
    <3>1. UNCHANGED <<plan, effect>>
      BY <1>10 DEF DigestReturns
    <3> QED BY <2>1, <2>6, <2>7, <2>8, <2>9, <3>1, CheckpointRecords
  <2>10. CASE mem' = [mem EXCEPT ![a] = written] /\ GoTo(a, "unwind") /\ UNCHANGED disk
    <3> HIDE DEF written
    <3>1. /\ mem'[a] = written /\ pc'[a] = "unwind" /\ disk'[a] = disk[a] /\ effect'[a] = effect[a]
          /\ disk[a].out = mem[a].out
      BY <1>10, <2>1, <2>10 DEF DigestReturns, GoTo, TypeOK, Recorded
    <3>2. Follows(mem'[a], disk'[a], effect'[a])
      BY <2>5, <3>1 DEF Follows
    <3>3. Says(mem'[a], "summarize", plan'[a])
      BY <1>d, <2>5, <3>1
    <3>4. OnPath("summarize", plan'[a]) /\ mainStage'[a] = MainAt("summarize", plan'[a])
      BY <1>d, <2>1
    <3>5. "unwind" \notin Working \cup {"start"}
      BY DEF Working, Before, During
    <3> QED BY <1>c, <2>1, <2>4, <3>1, <3>2, <3>3, <3>4, <3>5 DEF Recorded, Says, Follows
  <2> QED BY <1>10, <2>9, <2>10 DEF DigestReturns
<1>11. CASE BeginJson(a)
  <2>1. pc[a] = "begin_json" /\ pc[a] \in Working \ {"print", "finish"}
    BY <1>11 DEF BeginJson, Working, Before, During
  <2>2. mainStage'[a] = "json_output" /\ UNCHANGED <<plan, effect, files>>
    BY <1>11 DEF BeginJson, TypeOK
  <2>3. CASE plan[a].json
    <3> DEFINE m == [mem[a] EXCEPT !.out["json"] = "unknown"]
    <3>1. /\ "write_json" \in Working \ {"print"} /\ OnPath("write_json", plan[a])
          /\ mainStage'[a] = MainAt("write_json", plan[a])
      BY <1>e, <2>2, <2>3 DEF Working, Before, During, OnPath, MainAt
    <3>2. /\ m \in RecordType /\ m.status = "started" /\ m.failStage = "none"
          /\ m.stage = mem[a].stage /\ m.digest = mem[a].digest
          /\ m.out = [mem[a].out EXCEPT !["json"] = "unknown"]
      BY <1>a, <1>c, <2>1 DEF RecordType, Statuses
    <3>3. Checkpoint(a, m, "write_json", "unwind")
      BY <1>11, <2>3 DEF BeginJson
    <3> HIDE DEF m
    <3>4. Says(m, "write_json", plan[a]) /\ Follows(m, mem[a], effect[a])
      BY <1>a, <1>b, <1>c, <2>1, <2>3, <3>2 DEF Says, Follows, StageAt, WordAt, Before,
         During, OnPath, Requested, PlanType, Done
    <3>5. \A f \in Files : Requested(plan[a], f) /\ Digested("write_json", f) => m.digest[f] # NoDigest
      BY <2>1, <3>2 DEF Recorded, Digested, Before, During
    <3> QED BY <2>1, <2>2, <3>1, <3>2, <3>3, <3>4, <3>5, CheckpointRecords
  <2>4. CASE ~plan[a].json
    <3>1. pc'[a] \in {"print", "unwind"} /\ UNCHANGED <<plan, mem, disk, effect>>
      BY <1>11, <2>4 DEF BeginJson, GoTo, TypeOK
    <3>2. /\ "print" \in Working /\ OnPath("print", plan[a])
          /\ mainStage'[a] = MainAt("print", plan[a])
      BY <1>c, <2>1, <2>2 DEF Working, Before, During, OnPath, MainAt
    <3>3. Says(mem[a], "print", plan[a])
      BY <1>a, <1>c, <2>1, <2>4 DEF Says, StageAt, WordAt, Before, During, OnPath, Requested, PlanType
    <3>4. \A f \in Files : Requested(plan[a], f) /\ Digested("print", f) => Digested(pc[a], f)
      BY <2>1, <2>4 DEF Requested, Digested, Before, During
    <3> QED BY <1>c, <2>1, <3>1, <3>2, <3>3, <3>4, QuietRecords
  <2> QED BY <2>3, <2>4
<1>12. CASE DigestJson(a)
  <2> DEFINE written == [mem[a] EXCEPT !.out["json"] = "written"]
             digested == [written EXCEPT !.digest["json"] = files[PathOf[a]["json"]]]
  <2>1. /\ pc[a] = "digest_json" /\ pc[a] \in Working
        /\ "print" \in Working /\ OnPath("print", plan[a])
        /\ mainStage'[a] = MainAt("print", plan[a])
    BY <1>12, <1>c, <1>e DEF DigestJson, Working, Before, During, OnPath, MainAt
  <2>2. effect[a]["json"] = "done"
    BY <1>c, <2>1 DEF EffectAt, OnPath, Requested, Before, During, Openings, Calls
  <2>3. files[PathOf[a]["json"]] # {} /\ files[PathOf[a]["json"]] \in SUBSET Pieces
    BY <2>2 DEF FileAgrees, TypeOK
  <2>4. /\ written \in RecordType /\ written.status = "started" /\ written.failStage = "none"
        /\ written.stage = mem[a].stage /\ written.digest = mem[a].digest
        /\ written.out = [mem[a].out EXCEPT !["json"] = "written"]
    BY <1>a, <1>c, <2>1 DEF RecordType, Statuses
  <2>5. Says(written, "print", plan[a]) /\ Follows(written, mem[a], effect[a])
    <3> HIDE DEF written
    <3> QED BY <1>a, <1>b, <1>c, <2>1, <2>2, <2>4 DEF Says, Follows, StageAt, WordAt, Before,
          During, OnPath, Requested, PlanType, Done
  <2>6. /\ digested.failStage = "none" /\ digested.stage = written.stage
        /\ digested.out = written.out
        /\ digested.digest = [written.digest EXCEPT !["json"] = files[PathOf[a]["json"]]]
    <3> HIDE DEF written
    <3> QED BY <2>3, <2>4 DEF RecordType, NoDigest
  <2>7. digested.digest["json"] # NoDigest /\ digested.digest["returns"] = mem[a].digest["returns"]
    BY <1>a, <2>3, <2>4, <2>6 DEF RecordType, NoDigest
  <2>8. Says(digested, "print", plan[a]) /\ Follows(digested, mem[a], effect[a])
    BY <2>5, <2>6 DEF Says, Follows
  <2>9. \A f \in Files : Requested(plan[a], f) => digested.digest[f] # NoDigest
    BY <2>1, <2>7 DEF Recorded, Digested, Before, During
  <2> HIDE DEF written, digested
  <2>10. /\ effect'[a] = effect[a] /\ disk'[a] = disk[a] /\ disk[a].out = mem[a].out
         /\ \/ mem'[a] = digested /\ pc'[a] = "print"
            \/ mem'[a] = written /\ pc'[a] = "unwind"
    BY <1>12, <2>1 DEF DigestJson, GoTo, TypeOK, Recorded, written, digested
  <2>11. Follows(mem'[a], disk'[a], effect'[a]) /\ mem'[a].failStage = "none"
    <3>1. Follows(mem'[a], mem[a], effect[a])
      BY <2>5, <2>8, <2>10
    <3>2. disk'[a].out = mem[a].out /\ effect'[a] = effect[a]
      BY <2>10
    <3>3. Follows(mem'[a], disk'[a], effect'[a])
      BY <3>1, <3>2 DEF Follows
    <3>4. written.failStage = "none" /\ digested.failStage = "none"
      BY <2>4, <2>6
    <3> QED BY <2>10, <3>3, <3>4
  <2>12. Says(mem'[a], "print", plan'[a]) /\ OnPath("print", plan'[a])
         /\ mainStage'[a] = MainAt("print", plan'[a])
    BY <1>d, <2>1, <2>5, <2>8, <2>10
  <2>13. "unwind" \notin Working \cup {"start"}
    BY DEF Working, Before, During
  <2> QED BY <1>c, <1>d, <2>1, <2>9, <2>10, <2>11, <2>12, <2>13 DEF Recorded, Says, Follows
<1>13. CASE Finish(a)
  <2> DEFINE m == [mem[a] EXCEPT !.status = "completed"]
  <2>1. pc[a] = "finish" /\ pc[a] \in Working
    BY <1>13 DEF Finish, Working, Before, During
  <2>2. /\ m.status = "completed" /\ m.out = mem[a].out /\ m.digest = mem[a].digest
        /\ m.failStage = "none"
    BY <1>a, <1>c, <2>1 DEF RecordType
  <2> HIDE DEF m
  <2>3. Whole(m, plan[a])
    BY <1>c, <2>1, <2>2 DEF Whole, Recorded, Says, WordAt, Digested, Before, During
  <2>6. Follows(m, disk[a], effect[a])
    BY <2>1, <2>2 DEF Recorded, Follows
  <2>4. pc'[a] \in {"returned", "raised"} /\ disk'[a] \in {disk[a], m}
    BY <1>13 DEF Finish, Checkpoint, GoTo, TypeOK, m
  <2>5. pc'[a] \notin Working \cup {"start", "unwind"}
    BY <2>4 DEF Working, Before, During
  <2>7. Follows(disk'[a], disk[a], effect[a])
    BY <2>4, <2>6 DEF Follows
  <2> QED BY <1>c, <1>d, <2>1, <2>2, <2>3, <2>4, <2>5, <2>7 DEF Recorded
<1>14. CASE Unwind(a)
  <2> DEFINE m == [mem[a] EXCEPT !.status = "failed", !.failStage = FailStage(a)]
  <2>1. pc[a] = "unwind" /\ disk[a].status = "started"
    BY <1>14 DEF Unwind, AttemptInv, Running, Steps, Ended
  <2>2. m.status = "failed" /\ m.out = mem[a].out /\ m.failStage = FailStage(a)
    BY <1>a DEF RecordType
  <2>3. PICK step \in Working : /\ OnPath(step, plan[a]) /\ Says(mem[a], step, plan[a])
                                /\ mainStage[a] = MainAt(step, plan[a])
    BY <2>1 DEF Recorded
  <2> HIDE DEF m
  <2>4. plan[a] \in Plans
    BY DEF TypeOK
  <2>5. Agrees(m)
    BY <2>2, <2>3, <2>4, SaysAgrees DEF FailStage
  <2>6. pc'[a] = "raised" /\ disk'[a] \in {disk[a], m}
    BY <1>14 DEF Unwind, Checkpoint, GoTo, TypeOK, m
  <2>7. pc'[a] \notin Working \cup {"start", "unwind"}
    BY <2>6 DEF Working, Before, During
  <2>8. Follows(disk'[a], disk[a], effect[a])
    BY <2>1, <2>2, <2>6 DEF Recorded, Follows
  <2> QED BY <1>d, <2>1, <2>2, <2>5, <2>6, <2>7, <2>8 DEF Recorded
<1>15. CASE Kill(a)
  <2>1. pc'[a] = "killed" /\ disk'[a] = disk[a]
    BY <1>15 DEF Kill, GoTo, TypeOK
  <2>2. pc'[a] \notin Working \cup {"start", "unwind"}
    BY <2>1 DEF Working, Before, During
  <2>3. Follows(disk'[a], disk[a], effect[a])
    BY <2>1 DEF Follows
  <2> QED BY <1>d, <2>1, <2>2, <2>3 DEF Recorded
<1> QED BY <1>1, <1>2, <1>3, <1>4, <1>5, <1>6, <1>7, <1>8, <1>9, <1>10, <1>11, <1>12, <1>13,
           <1>14, <1>15 DEF Step

(* A step writes at most one file, which is asked for and not yet done. *)
FileWritten(b, g) ==
    /\ Requested(plan[b], g)
    /\ \A a \in Attempts, f \in Files : <<a, f>> # <<b, g>> => effect'[a][f] = effect[a][f]
    /\ \/ /\ effect[b][g] = "untouched" /\ effect'[b][g] = "begun"
          /\ files' = [files EXCEPT ![PathOf[b][g]] = {<<b, g, "part">>}]
       \/ /\ effect[b][g] = "begun" /\ effect'[b][g] = "done"
          /\ files' = [files EXCEPT ![PathOf[b][g]] =
                         IF <<b, g, "part">> \in @
                           THEN (@ \ {<<b, g, "part">>}) \cup {<<b, g, "whole">>}
                           ELSE @ \cup {<<b, g, "part">>}]

NoFileWritten ==
    /\ files' = files
    /\ \A a \in Attempts, f \in Files : effect'[a][f] = effect[a][f]

LEMMA WritesOne ==
    ASSUME TypeOK, NEW b \in Attempts, OnCourse(b), Step(b) \/ Kill(b)
    PROVE  NoFileWritten \/ \E g \in Files : FileWritten(b, g)
<1>1. CASE UNCHANGED <<files, effect>>
  BY <1>1 DEF NoFileWritten
<1>2. CASE Persist(b) \/ PersistReturns(b)
  <2>1. files' = files /\ (effect' = effect \/ \E w : effect' = [effect EXCEPT ![b]["baseline"] = w])
    BY <1>2 DEF Persist, PersistReturns, Enter, Leave, Files
  <2>2. \A a \in Attempts, f \in Files : effect'[a][f] = effect[a][f]
    <3>2. CASE effect' = effect
      BY <3>2
    <3>3. ASSUME NEW w, effect' = [effect EXCEPT ![b]["baseline"] = w]
          PROVE  \A a \in Attempts, f \in Files : effect'[a][f] = effect[a][f]
      BY <3>3 DEF TypeOK, Outputs, Files
    <3> QED BY <2>1, <3>2, <3>3
  <2> QED BY <2>1, <2>2 DEF NoFileWritten
<1>3. ASSUME NEW g \in Files, NEW from, NEW to, NEW step \in {"write_returns", "write_json"},
             g = IF step = "write_returns" THEN "returns" ELSE "json",
             Enter(b, g, step, to)
      PROVE  FileWritten(b, g)
  <2>1. pc[b] = step /\ step \in Working
    BY <1>3 DEF Enter, Working, Before, During
  <2>2. Requested(plan[b], g) /\ effect[b][g] = "untouched"
    BY <1>3, <2>1 DEF OnCourse, OnPath, EffectAt, Requested, Before, During, Openings, Calls,
       Files, Outputs
  <2>3. /\ effect' = [effect EXCEPT ![b][g] = "begun"]
        /\ files' = [files EXCEPT ![PathOf[b][g]] = {<<b, g, "part">>}]
    BY <1>3 DEF Enter
  <2>4. \A a \in Attempts, f \in Files :
          effect'[a][f] = IF <<a, f>> = <<b, g>> THEN "begun" ELSE effect[a][f]
    BY <2>3 DEF TypeOK, Outputs, Files
  <2> QED BY <2>2, <2>3, <2>4 DEF FileWritten
<1>4. ASSUME NEW g \in Files, NEW to, NEW step \in {"writing_returns", "writing_json"},
             g = IF step = "writing_returns" THEN "returns" ELSE "json",
             Leave(b, g, step, to)
      PROVE  NoFileWritten \/ FileWritten(b, g)
  <2>1. pc[b] = step /\ step \in Working
    BY <1>4 DEF Leave, Working, Before, During
  <2>2. Requested(plan[b], g) /\ effect[b][g] = "begun"
    BY <1>4, <2>1 DEF OnCourse, OnPath, EffectAt, Requested, Before, During, Openings, Calls,
       Files, Outputs
  <2>3. CASE /\ effect' = [effect EXCEPT ![b][g] = "done"]
             /\ files' = [files EXCEPT ![PathOf[b][g]] =
                            IF <<b, g, "part">> \in @
                              THEN (@ \ {<<b, g, "part">>}) \cup {<<b, g, "whole">>}
                              ELSE @ \cup {<<b, g, "part">>}]
    <3>1. \A a \in Attempts, f \in Files :
            effect'[a][f] = IF <<a, f>> = <<b, g>> THEN "done" ELSE effect[a][f]
      BY <2>3 DEF TypeOK, Outputs, Files
    <3> QED BY <2>2, <2>3, <3>1 DEF FileWritten
  <2>4. CASE UNCHANGED <<effect, files>>
    BY <2>4 DEF NoFileWritten
  <2> QED BY <1>4, <2>3, <2>4 DEF Leave
<1>5. CASE WriteReturns(b) \/ WriteJson(b)
  BY <1>3, <1>5 DEF WriteReturns, WriteJson, Files
<1>6. CASE ReturnsWritten(b) \/ JsonWritten(b)
  BY <1>4, <1>6 DEF ReturnsWritten, JsonWritten, Files
<1> QED BY <1>1, <1>2, <1>5, <1>6 DEF Step, Start, ReadInputs, CheckInputs, RunFolds,
      RebuildReturns, PrintSummary, Work, BeginFolds, BeginBaseline, RecordBaseline,
      BeginReturns, Summarize, Finish, Unwind, DigestReturns, BeginJson, DigestJson, Kill

(* Whoever takes the step, a file keeps agreeing with the effects on it.   *)
LEMMA FilesKeep ==
    ASSUME TypeOK, NEW b \in Attempts, NoFileWritten \/ \E g \in Files : FileWritten(b, g),
           plan' = plan, NEW a \in Attempts, NEW f \in Files, FileAgrees(a, f)
    PROVE  FileAgrees(a, f)' /\ (effect[a][f] = "done" => effect'[a][f] = "done")
<1>1. CASE NoFileWritten
  BY <1>1 DEF NoFileWritten, FileAgrees, Exclusive
<1>2. ASSUME NEW g \in Files, FileWritten(b, g)
      PROVE  FileAgrees(a, f)' /\ (effect[a][f] = "done" => effect'[a][f] = "done")
  <2>1. Exclusive(a, f)' = Exclusive(a, f)
    BY DEF Exclusive
  <2>2. PathOf[a][f] \in Paths /\ PathOf[b][g] \in Paths /\ DOMAIN files = Paths
    BY DEF TypeOK
  <2>3. files'[PathOf[b][g]] # {}
    <3> DEFINE old == files[PathOf[b][g]]
    <3>1. PICK new : files' = [files EXCEPT ![PathOf[b][g]] = new] /\ new # {}
      <4>1. CASE files' = [files EXCEPT ![PathOf[b][g]] = {<<b, g, "part">>}]
        BY <4>1
      <4>2. CASE files' = [files EXCEPT ![PathOf[b][g]] =
                             IF <<b, g, "part">> \in old
                               THEN (old \ {<<b, g, "part">>}) \cup {<<b, g, "whole">>}
                               ELSE old \cup {<<b, g, "part">>}]
        <5> DEFINE next == IF <<b, g, "part">> \in old
                             THEN (old \ {<<b, g, "part">>}) \cup {<<b, g, "whole">>}
                             ELSE old \cup {<<b, g, "part">>}
        <5>1. next # {}
          OBVIOUS
        <5> HIDE DEF next
        <5> QED BY <4>2, <5>1 DEF next
      <4> QED BY <1>2, <4>1, <4>2 DEF FileWritten
    <3> QED BY <2>2, <3>1
  <2>4. PathOf[a][f] # PathOf[b][g] => files'[PathOf[a][f]] = files[PathOf[a][f]]
    BY <1>2, <2>2 DEF FileWritten
  <2>5. CASE <<a, f>> = <<b, g>>
    BY <1>2, <2>1, <2>2, <2>3, <2>5 DEF FileWritten, FileAgrees
  <2>6. CASE <<a, f>> # <<b, g>>
    <3>1. effect'[a][f] = effect[a][f]
      BY <1>2, <2>6 DEF FileWritten
    <3>2. Exclusive(a, f) => PathOf[b][g] # PathOf[a][f]
      BY <1>2, <2>6 DEF FileWritten, Exclusive
    <3> QED BY <2>1, <2>3, <2>4, <3>1, <3>2 DEF FileAgrees
  <2> QED BY <2>5, <2>6
<1> QED BY <1>1, <1>2

(* A digest that is new is that of a file that is done. *)
LEMMA DigestTaken ==
    ASSUME TypeOK, NEW a \in Attempts, OnCourse(a), Step(a) \/ Kill(a), NEW f \in Files,
           NEW r \in {mem'[a], disk'[a]}
    PROVE  \/ r.digest[f] \in {NoDigest, mem[a].digest[f], disk[a].digest[f]}
           \/ r.digest[f] = files[PathOf[a][f]] /\ effect[a][f] = "done"
<1> DEFINE Old(d) == \/ d \in {NoDigest, mem[a].digest[f], disk[a].digest[f]}
                     \/ d = files[PathOf[a][f]] /\ effect[a][f] = "done"
<1>a. mem[a] \in RecordType
  BY DEF TypeOK
<1>1. CASE UNCHANGED <<mem, disk>>
  BY <1>1
<1>2. CASE Start(a)
  <2>1. FreshRecord(plan[a]).digest[f] = NoDigest
    BY DEF FreshRecord, NoRecord
  <2>2. mem'[a] \in {mem[a], FreshRecord(plan[a])} /\ disk'[a] \in {disk[a], FreshRecord(plan[a])}
    BY <1>2 DEF Start, TypeOK
  <2> QED BY <2>1, <2>2
<1>3. ASSUME NEW m, NEW to, NEW otherwise, Checkpoint(a, m, to, otherwise), Old(m.digest[f])
      PROVE  Old(r.digest[f])
  <2>1. mem'[a] \in {mem[a], m} /\ disk'[a] \in {disk[a], m}
    BY <1>3 DEF Checkpoint, TypeOK
  <2> QED BY <1>3, <2>1
<1>4. CASE BeginFolds(a) \/ BeginBaseline(a) \/ RecordBaseline(a) \/ BeginReturns(a)
           \/ Summarize(a) \/ Finish(a) \/ Unwind(a)
  <2>1. \A g, w, o :
          /\ [mem[a] EXCEPT !.stage = g].digest = mem[a].digest
          /\ [mem[a] EXCEPT !.out[o] = w].digest = mem[a].digest
          /\ [mem[a] EXCEPT !.status = g].digest = mem[a].digest
    BY <1>a DEF RecordType
  <2>2. \E m, to, otherwise : Checkpoint(a, m, to, otherwise) /\ m.digest = mem[a].digest
    <3>1. CASE BeginFolds(a)
      BY <2>1, <3>1 DEF BeginFolds
    <3>2. CASE BeginBaseline(a)
      <4> DEFINE m == [mem[a] EXCEPT !.stage = "baseline", !.out["baseline"] = "unknown"]
      <4>1. m.digest = mem[a].digest
        BY <1>a DEF RecordType
      <4>2. \E to, otherwise : Checkpoint(a, m, to, otherwise)
        BY <3>2 DEF BeginBaseline
      <4> HIDE DEF m
      <4> QED BY <4>1, <4>2
    <3>3. CASE RecordBaseline(a)
      BY <2>1, <3>3 DEF RecordBaseline
    <3>4. CASE BeginReturns(a)
      <4> DEFINE m == [mem[a] EXCEPT !.stage = "returns_output", !.out["returns"] = "unknown"]
      <4>1. m.digest = mem[a].digest
        BY <1>a DEF RecordType
      <4>2. \E to, otherwise : Checkpoint(a, m, to, otherwise)
        BY <3>4 DEF BeginReturns
      <4> HIDE DEF m
      <4> QED BY <4>1, <4>2
    <3>5. CASE Summarize(a)
      BY <3>5 DEF Summarize
    <3>6. CASE Finish(a)
      BY <2>1, <3>6 DEF Finish
    <3>7. CASE Unwind(a)
      <4> DEFINE m == [mem[a] EXCEPT !.status = "failed", !.failStage = FailStage(a)]
      <4>1. m.digest = mem[a].digest
        BY <1>a DEF RecordType
      <4>2. \E to, otherwise : Checkpoint(a, m, to, otherwise)
        BY <3>7 DEF Unwind
      <4> HIDE DEF m
      <4> QED BY <4>1, <4>2
    <3> QED BY <1>4, <3>1, <3>2, <3>3, <3>4, <3>5, <3>6, <3>7
  <2> QED BY <1>3, <2>2
<1>5. CASE BeginJson(a)
  <2>1. CASE UNCHANGED <<mem, disk>>
    BY <1>1, <2>1
  <2>2. CASE plan[a].json
    <3>1. PICK m, to, otherwise : Checkpoint(a, m, to, otherwise) /\ m.digest = mem[a].digest
      BY <1>5, <1>a, <2>2 DEF BeginJson, RecordType
    <3> QED BY <1>3, <3>1
  <2> QED BY <1>5, <2>1, <2>2 DEF BeginJson
<1>6. CASE DigestReturns(a) \/ DigestJson(a)
  <2> DEFINE g == IF pc[a] = "digest_returns" THEN "returns" ELSE "json"
             written == [mem[a] EXCEPT !.out[g] = "written"]
             digested == [written EXCEPT !.digest[g] = files[PathOf[a][g]]]
  <2>1. pc[a] \in {"digest_returns", "digest_json"} /\ pc[a] \in Working
    BY <1>6 DEF DigestReturns, DigestJson, Working, Before, During
  <2>2. effect[a][g] = "done"
    BY <2>1 DEF OnCourse, OnPath, EffectAt, Requested, Before, During, Openings, Calls,
       Outputs, Files
  <2>3. written.digest = mem[a].digest /\ DOMAIN written = DOMAIN mem[a]
    BY <1>a DEF RecordType
  <2>4. digested.digest = [mem[a].digest EXCEPT ![g] = files[PathOf[a][g]]]
    <3> HIDE DEF written
    <3> QED BY <1>a, <2>3 DEF RecordType
  <2>5. digested.digest[f] = IF f = g THEN files[PathOf[a][g]] ELSE mem[a].digest[f]
    BY <1>a, <2>4 DEF RecordType
  <2>6. Old(written.digest[f]) /\ Old(digested.digest[f])
    BY <2>2, <2>3, <2>5
  <2>7. mem'[a] \in {mem[a], written, digested} /\ disk'[a] \in {disk[a], digested}
    <3>1. CASE DigestReturns(a)
      <4>1. g = "returns"
        BY <3>1 DEF DigestReturns
      <4> HIDE DEF g
      <4> QED BY <3>1, <4>1 DEF DigestReturns, Checkpoint, TypeOK
    <3>2. CASE DigestJson(a)
      <4>1. g = "json"
        BY <3>2 DEF DigestJson
      <4> HIDE DEF g
      <4> QED BY <3>2, <4>1 DEF DigestJson, TypeOK
    <3> QED BY <1>6, <3>1, <3>2
  <2> HIDE DEF written, digested
  <2> QED BY <2>6, <2>7
<1>7. CASE Persist(a) \/ WriteReturns(a) \/ WriteJson(a) \/ PersistReturns(a) \/ ReturnsWritten(a)
           \/ JsonWritten(a)
  BY <1>1, <1>7 DEF Persist, WriteReturns, WriteJson, Enter, PersistReturns, ReturnsWritten,
     JsonWritten, Leave
<1>8. CASE ReadInputs(a) \/ CheckInputs(a) \/ RunFolds(a) \/ RebuildReturns(a) \/ PrintSummary(a)
           \/ Kill(a)
  BY <1>1, <1>8 DEF ReadInputs, CheckInputs, RunFolds, RebuildReturns, PrintSummary, Work, Kill
<1> QED BY <1>2, <1>4, <1>5, <1>6, <1>7, <1>8 DEF Step

LEMMA CourseNext == TypeOK /\ RecordInv /\ CourseInv /\ [Next]_vars => CourseInv'
<1> SUFFICES ASSUME TypeOK, RecordInv, CourseInv, [Next]_vars, NEW a \in Attempts
             PROVE  /\ OnCourse(a)'
                    /\ plan[a].record => Recorded(a)'
                    /\ ~plan[a].record => disk'[a] = NoRecord /\ mem'[a] = NoRecord
                    /\ \A f \in Files : FileAgrees(a, f)' /\ DigestAgrees(a, f, mem[a])'
                                        /\ DigestAgrees(a, f, disk[a])'
  BY PlanStays DEF CourseInv
<1>1. /\ OnCourse(a)
      /\ plan[a].record => Recorded(a) /\ AttemptInv(a)
      /\ ~plan[a].record => disk[a] = NoRecord /\ mem[a] = NoRecord
      /\ \A f \in Files : FileAgrees(a, f) /\ DigestAgrees(a, f, mem[a]) /\ DigestAgrees(a, f, disk[a])
  BY DEF CourseInv, RecordInv
<1>2. CASE UNCHANGED vars
  <2>1. UNCHANGED <<plan, pc, mainStage, mem, disk, effect, files>>
    BY <1>2 DEF vars
  <2>2. OnCourse(a)'
    BY <1>1, <2>1 DEF OnCourse
  <2>3. plan[a].record => Recorded(a)'
    BY <1>1, <2>1 DEF Recorded, Says, Follows
  <2>4. \A f \in Files : FileAgrees(a, f)' /\ DigestAgrees(a, f, mem[a])' /\ DigestAgrees(a, f, disk[a])'
    BY <1>1, <2>1 DEF FileAgrees, DigestAgrees, Exclusive
  <2> QED BY <1>1, <2>1, <2>2, <2>3, <2>4
<1>3. ASSUME NEW b \in Attempts, Step(b) \/ Kill(b)
      PROVE  /\ OnCourse(a)'
             /\ plan[a].record => Recorded(a)'
             /\ ~plan[a].record => disk'[a] = NoRecord /\ mem'[a] = NoRecord
             /\ \A f \in Files : FileAgrees(a, f)' /\ DigestAgrees(a, f, mem[a])'
                                 /\ DigestAgrees(a, f, disk[a])'
  <2>1. OnCourse(b) /\ plan' = plan
    BY <1>3, PlanStays DEF CourseInv, Next
  <2>2. NoFileWritten \/ \E g \in Files : FileWritten(b, g)
    BY <1>3, <2>1, WritesOne
  <2>3. \A f \in Files : FileAgrees(a, f)' /\ (effect[a][f] = "done" => effect'[a][f] = "done")
    BY <1>1, <2>1, <2>2, FilesKeep
  <2>4. \A f \in Files : Exclusive(a, f)' = Exclusive(a, f)
    BY <2>1 DEF Exclusive
  <2>5. CASE a # b
    <3>1. /\ pc'[a] = pc[a] /\ mem'[a] = mem[a] /\ disk'[a] = disk[a]
          /\ effect'[a] = effect[a] /\ mainStage'[a] = mainStage[a] /\ plan'[a] = plan[a]
      BY <1>3, <2>1, <2>5, StepIsLocal
    <3>2. OnCourse(a)'
      BY <1>1, <3>1 DEF OnCourse
    <3>3. plan[a].record => Recorded(a)'
      BY <1>1, <3>1 DEF Recorded, Says, Follows
    <3>4. \A f \in Files : DigestAgrees(a, f, mem[a])' /\ DigestAgrees(a, f, disk[a])'
      BY <1>1, <2>4, <3>1 DEF DigestAgrees
    <3> QED BY <1>1, <2>3, <3>1, <3>2, <3>3, <3>4
  <2>6. CASE a = b
    <3>1. OnCourse(a)'
      BY <1>1, <1>3, <2>6, CourseOwn
    <3>2. plan[a].record => Recorded(a)'
      BY <1>1, <1>3, <2>6, <3>1, RecordedOwn
    <3>3. ~plan[a].record => disk'[a] = NoRecord /\ mem'[a] = NoRecord
      <4>1. ~plan[a].record => UNCHANGED <<mem, disk>>
        BY <1>3, <2>6 DEF Step, Kill, Start, ReadInputs, CheckInputs, RunFolds,
            RebuildReturns, PrintSummary, Work, BeginFolds, BeginBaseline, RecordBaseline,
            BeginReturns, Summarize, Finish, Unwind, DigestReturns, BeginJson, Persist,
            WriteReturns, WriteJson, Enter, PersistReturns, ReturnsWritten, JsonWritten,
            Leave, DigestJson, Checkpoint
      <4> QED BY <1>1, <4>1
    <3>4. ASSUME NEW f \in Files, NEW r \in {mem'[a], disk'[a]}, r.digest[f] # NoDigest
          PROVE  effect'[a][f] = "done" /\ (Exclusive(a, f)' => r.digest[f] = {<<a, f, "whole">>})
      <4>1. \/ r.digest[f] \in {NoDigest, mem[a].digest[f], disk[a].digest[f]}
            \/ r.digest[f] = files[PathOf[a][f]] /\ effect[a][f] = "done"
        BY <1>1, <1>3, <2>6, DigestTaken
      <4>2. effect[a][f] = "done" /\ (Exclusive(a, f) => r.digest[f] = {<<a, f, "whole">>})
        BY <1>1, <3>4, <4>1 DEF DigestAgrees, FileAgrees
      <4> QED BY <2>3, <2>4, <4>2
    <3>5. \A f \in Files : DigestAgrees(a, f, mem[a])' /\ DigestAgrees(a, f, disk[a])'
      BY <3>4 DEF DigestAgrees
    <3> QED BY <2>3, <3>1, <3>2, <3>3, <3>5
  <2> QED BY <2>5, <2>6
<1> QED BY <1>2, <1>3 DEF Next

LEMMA CourseInit == Init => CourseInv
<1> SUFFICES ASSUME Init, NEW a \in Attempts
             PROVE  /\ OnCourse(a)
                    /\ plan[a].record => Recorded(a)
                    /\ ~plan[a].record => disk[a] = NoRecord /\ mem[a] = NoRecord
                    /\ \A f \in Files : FileAgrees(a, f) /\ DigestAgrees(a, f, mem[a])
                                        /\ DigestAgrees(a, f, disk[a])
  BY DEF CourseInv
<1>1. pc[a] = "start" /\ mem[a] = NoRecord /\ disk[a] = NoRecord
  BY DEF Init
<1>2. OnCourse(a)
  BY DEF Init, OnCourse, OnPath, MainAt, EffectAt, Before, During
<1>3. NoRecord.status = "unpublished" /\ \A f \in Files : NoRecord.digest[f] = NoDigest
  BY DEF NoRecord
<1>4. Recorded(a)
  BY <1>1, <1>3 DEF Recorded, Working, Before, During
<1>5. \A f \in Files : FileAgrees(a, f)
  BY DEF Init, FileAgrees, Outputs, Files
<1> QED BY <1>1, <1>2, <1>3, <1>4, <1>5 DEF DigestAgrees

(* Steps, effects, records, files and digests of every attempt go together.*)
THEOREM CourseInvariant == Spec => []CourseInv
<1> QED BY CourseInit, CourseNext, TypeCorrect, RecordInvariant, PTL DEF Spec

(* A completed record names no failure, and every output that was asked    *)
(* for is done and digested: run_walk_forward and main mark the record     *)
(* completed only past all their outputs.                                  *)
THEOREM CompletedRecords == Spec => []CompletedIsWhole
<1>1. CourseInv => CompletedIsWhole
  <2> SUFFICES ASSUME CourseInv, NEW a \in Attempts, disk[a].status = "completed"
               PROVE  Whole(disk[a], plan[a])
    BY DEF CompletedIsWhole, Whole
  <2>1. disk[a] # NoRecord
    BY DEF NoRecord
  <2> QED BY <2>1 DEF CourseInv, Recorded
<1> QED BY <1>1, CourseInvariant, PTL

(* The stage a failed record names agrees with what it says of its outputs.*)
(* The stages of main and of _run_walk_forward are two variables, of which *)
(* the handler must name the right one.                                    *)
THEOREM FailuresAgree == Spec => []FailureStageAgrees
<1>1. CourseInv => FailureStageAgrees
  <2> SUFFICES ASSUME CourseInv, NEW a \in Attempts, disk[a].status = "failed"
               PROVE  Agrees(disk[a])
    BY DEF FailureStageAgrees, Agrees
  <2>1. disk[a] # NoRecord
    BY DEF NoRecord
  <2> QED BY <2>1 DEF CourseInv, Recorded
<1> QED BY <1>1, CourseInvariant, PTL

(* A digest in a record stays that of the whole file, however the attempt  *)
(* goes on and ends, if no other output goes to its path.                  *)
THEOREM DigestsMatch == Spec => []DigestMatchesFile
<1>1. CourseInv => DigestMatchesFile
  <2> SUFFICES ASSUME CourseInv, NEW a \in Attempts, NEW f \in Files,
                      disk[a].digest[f] # NoDigest, Exclusive(a, f)
               PROVE  /\ disk[a].digest[f] = {<<a, f, "whole">>}
                      /\ files[PathOf[a][f]] = disk[a].digest[f]
    BY DEF DigestMatchesFile
  <2>1. DigestAgrees(a, f, disk[a]) /\ FileAgrees(a, f)
    BY DEF CourseInv
  <2> QED BY <2>1 DEF DigestAgrees, FileAgrees
<1> QED BY <1>1, CourseInvariant, PTL

-----------------------------------------------------------------------------
(* The contract: published records, as AttemptRecord sees them *)

LEMMA ContractInit == Init => Contract!Init
BY DEF Init, Contract!Init, Contract!Unpublished, Contract!Outputs, NoRecord, Outputs, Files

(* A record that is replaced by one that follows it is rewritten. *)
LEMMA Rewrites ==
    ASSUME TypeOK, NEW a \in Attempts, disk[a].status = "started",
           disk'[a] \in RecordType, disk'[a].status \in {"started"} \cup Terminal,
           Follows(disk'[a], disk[a], effect[a]),
           disk'[a].status = "completed" => Whole(disk'[a], plan[a]),
           \A b \in Attempts : a # b => disk'[b] = disk[b], DOMAIN disk' = Attempts,
           UNCHANGED <<effect, plan>>
    PROVE  Contract!Rewrite(a)
<1> DEFINE status == disk'[a].status
           out == disk'[a].out
           record == [b \in Attempts |-> [status |-> disk[b].status, out |-> disk[b].out]]
           next == [b \in Attempts |-> [status |-> disk'[b].status, out |-> disk'[b].out]]
<1>1. next = [record EXCEPT ![a] = [status |-> status, out |-> out]]
  OBVIOUS
<1>2. status \in {"started"} \cup Contract!Terminal /\ out \in [Contract!Outputs -> Contract!Statuses]
  BY DEF Contract!Terminal, Contract!Outputs, Contract!Statuses, RecordType, Outputs, Files,
     Statuses, Terminal
<1>3. \A o \in Contract!Outputs : out[o] \in Contract!MayBecome(record[a].out[o], effect[a][o], o)
  BY DEF Follows, Contract!MayBecome, Contract!Outputs, Outputs, Files, Done, Contract!Done
<1>4. status = "completed" =>
        \A o \in Contract!Outputs : out[o] \in {"not_requested", Contract!Done(o)}
  BY DEF Whole, Contract!Outputs, Outputs, Files, Done, Contract!Done
<1>5. record[a].status = "started"
  OBVIOUS
<1>6. {b \in Attempts : plan'[b].record} = {b \in Attempts : plan[b].record}
  OBVIOUS
<1> HIDE DEF status, out
<1> QED BY <1>1, <1>2, <1>3, <1>4, <1>5, <1>6 DEF Contract!Rewrite

(* Each step of an attempt publishes, rewrites, touches, returns or does   *)
(* nothing the contract sees.                                              *)
LEMMA ContractStep ==
    ASSUME TypeOK, TypeOK', RecordInv, RecordInv', CourseInv, CourseInv', NEW a \in Attempts,
           Step(a) \/ Kill(a)
    PROVE  \/ Contract!Publish(a) \/ Contract!Rewrite(a)
           \/ \E o \in Outputs : Contract!Touch(a, o) \/ Contract!Return(a, o)
           \/ UNCHANGED <<disk, effect, plan>>
<1> DEFINE record == [b \in Attempts |-> [status |-> disk[b].status, out |-> disk[b].out]]
           next == [b \in Attempts |-> [status |-> disk'[b].status, out |-> disk'[b].out]]
           recorded == {b \in Attempts : plan[b].record}
<1>a. plan' = plan /\ {b \in Attempts : plan'[b].record} = recorded
  BY PlanStays DEF Next
<1>b. OnCourse(a) /\ OnCourse(a)' /\ (plan[a].record => Recorded(a) /\ Recorded(a)' /\ AttemptInv(a))
  BY <1>a DEF CourseInv, RecordInv
<1>1. CASE Start(a)
  <2>1. CASE UNCHANGED <<disk, effect, plan>>
    BY <2>1
  <2>2. CASE disk' = [disk EXCEPT ![a] = FreshRecord(plan[a])] /\ plan[a].record
    <3> DEFINE out == FreshRecord(plan[a]).out
    <3>1. disk[a] = NoRecord
      BY <1>1, <1>b, <2>2 DEF Start, Recorded
    <3>2. FreshRecord(plan[a]).status = "started"
      BY DEF FreshRecord, NoRecord
    <3>3. next = [record EXCEPT ![a] = [status |-> "started", out |-> out]]
      BY <2>2, <3>2 DEF TypeOK
    <3>4. out \in [Contract!Outputs -> {"not_requested", "not_attempted"}]
      BY DEF FreshRecord, NoRecord, Contract!Outputs, Outputs, Files
    <3>5. record[a] = Contract!Unpublished
      BY <3>1 DEF NoRecord, Contract!Unpublished, Contract!Outputs, Outputs, Files
    <3>6. a \in recorded /\ effect' = effect
      BY <1>1, <2>2 DEF Start
    <3> HIDE DEF out
    <3> QED BY <1>a, <3>3, <3>4, <3>5, <3>6 DEF Contract!Publish
  <2> QED BY <1>1, <1>a, <2>1, <2>2 DEF Start
<1>2. CASE Persist(a) \/ WriteReturns(a) \/ WriteJson(a)
  <2>1. PICK o \in Outputs : /\ effect' = [effect EXCEPT ![a][o] = "begun"]
                             /\ effect[a][o] = "untouched" /\ disk' = disk
                             /\ pc[a] \in During(o) \cap Openings /\ pc[a] \in Working
                             /\ Requested(plan[a], o) /\ pc[a] \notin {"print", "finish"} \cup Before(o)
    BY <1>2, <1>b DEF Persist, WriteReturns, WriteJson, Enter, OnCourse, OnPath, EffectAt, Before,
       During, Openings, Working, Requested, Outputs, Files
  <2>2. plan[a].record => disk[a].status = "started" /\ disk[a].out[o] = "unknown"
    BY <1>b, <2>1 DEF Recorded, Says, WordAt, AttemptInv, Running, Steps, Ended, Working, Before, During
  <2>3. /\ record[a].status = disk[a].status /\ record[a].out[o] = disk[a].out[o]
        /\ a \in recorded => plan[a].record
    OBVIOUS
  <2>4. next = record
    BY <2>1
  <2> HIDE DEF record, next, recorded
  <2>5. Contract!Touch(a, o)
    BY <1>a, <2>1, <2>2, <2>3, <2>4 DEF Contract!Touch, record, next, recorded
  <2> QED BY <2>5
<1>3. CASE PersistReturns(a) \/ ReturnsWritten(a) \/ JsonWritten(a)
  <2>1. CASE UNCHANGED <<effect, files>>
    BY <1>3, <1>a, <2>1 DEF PersistReturns, ReturnsWritten, JsonWritten, Leave
  <2>2. CASE \E o \in Outputs : effect' = [effect EXCEPT ![a][o] = "done"] /\ effect[a][o] = "begun"
    <3>1. PICK o \in Outputs : effect' = [effect EXCEPT ![a][o] = "done"] /\ effect[a][o] = "begun"
      BY <2>2
    <3>2. disk' = disk
      BY <1>3 DEF PersistReturns, ReturnsWritten, JsonWritten, Leave
    <3>3. next = record
      BY <3>2
    <3>4. Contract!Return(a, o)
      BY <1>a, <3>1, <3>3 DEF Contract!Return
    <3> QED BY <3>4
  <2> QED BY <1>3, <1>b, <2>1, <2>2 DEF PersistReturns, ReturnsWritten, JsonWritten, Leave,
       OnCourse, OnPath, EffectAt, Before, During, Openings, Calls, Working, Requested, Outputs, Files
<1>4. CASE BeginFolds(a) \/ BeginBaseline(a) \/ RecordBaseline(a) \/ BeginReturns(a)
           \/ Summarize(a) \/ Finish(a) \/ Unwind(a) \/ DigestReturns(a) \/ BeginJson(a)
  <2>1. /\ effect' = effect /\ pc[a] \in Running
        /\ plan[a].record \/ disk' = disk
    BY <1>4 DEF BeginFolds, BeginBaseline, RecordBaseline, BeginReturns, Summarize, Finish,
       Unwind, DigestReturns, BeginJson, Checkpoint, Running, Steps, Ended
  <2>2. CASE disk' = disk
    BY <1>a, <2>1, <2>2
  <2>3. CASE plan[a].record /\ disk' # disk
    <3>1. Follows(disk'[a], disk[a], effect[a])
      <4>1. pc[a] # "start" /\ \A f \in Files : FileAgrees(a, f)
        BY <2>1 DEF Running, CourseInv
      <4> QED BY <1>b, <2>3, <4>1, RecordedOwn
    <3>2. disk[a].status = "started" /\ mem[a] \in RecordType
      BY <1>b, <2>1, <2>3 DEF AttemptInv, TypeOK
    <3>3. disk'[a].status \in {"started"} \cup Terminal
      <4>1. CASE pc'[a] \in Running
        <5>1. AttemptInv(a)'
          BY <1>a, <2>3 DEF RecordInv
        <5> QED BY <4>1, <5>1 DEF AttemptInv
      <4>2. CASE Finish(a)
        <5> DEFINE m == [mem[a] EXCEPT !.status = "completed"]
        <5>1. m.status = "completed"
          BY <3>2 DEF RecordType
        <5> HIDE DEF m
        <5>2. disk'[a] \in {disk[a], m}
          BY <4>2 DEF Finish, Checkpoint, TypeOK, m
        <5> QED BY <3>2, <5>1, <5>2 DEF Terminal
      <4>3. CASE Unwind(a)
        <5> DEFINE m == [mem[a] EXCEPT !.status = "failed", !.failStage = FailStage(a)]
        <5>1. m.status = "failed"
          BY <3>2 DEF RecordType
        <5> HIDE DEF m
        <5>2. disk'[a] \in {disk[a], m}
          BY <4>3 DEF Unwind, Checkpoint, TypeOK, m
        <5> QED BY <3>2, <5>1, <5>2 DEF Terminal
      <4>4. CASE ~Finish(a) /\ ~Unwind(a)
        <5>1. pc'[a] \in Running
          BY <1>4, <4>4 DEF BeginFolds, BeginBaseline, RecordBaseline, BeginReturns, Summarize,
             DigestReturns, BeginJson, Checkpoint, GoTo, AfterCommit, TypeOK, Running, Steps, Ended
        <5> QED BY <4>1, <5>1
      <4> QED BY <4>2, <4>3, <4>4
    <3>4. disk'[a].status = "completed" => Whole(disk'[a], plan[a])
      BY <1>a, <1>b, <2>3 DEF Recorded
    <3>5. \A b \in Attempts : a # b => disk'[b] = disk[b]
      BY StepIsLocal
    <3>6. disk'[a] \in RecordType /\ DOMAIN disk' = Attempts
      BY DEF TypeOK
    <3> QED BY <1>a, <2>1, <3>1, <3>2, <3>3, <3>4, <3>5, <3>6, Rewrites
  <2> QED BY <2>1, <2>2, <2>3
<1>5. CASE ReadInputs(a) \/ CheckInputs(a) \/ RunFolds(a) \/ RebuildReturns(a) \/ DigestJson(a)
           \/ PrintSummary(a) \/ Kill(a)
  BY <1>5, <1>a DEF ReadInputs, CheckInputs, RunFolds, RebuildReturns, DigestJson, PrintSummary,
     Work, Kill
<1> QED BY <1>1, <1>2, <1>3, <1>4, <1>5 DEF Step

(* The records and outputs of the attempts implement AttemptRecord: a      *)
(* record is published before anything is touched, claims only advance,    *)
(* and an output is touched only while its record admits it.               *)
THEOREM RecordsKeepContract == Spec => ContractSpec
<1>1. TypeOK /\ TypeOK' /\ RecordInv /\ RecordInv' /\ CourseInv /\ CourseInv' /\ [Next]_vars
        => [Contract!Next]_<<[a \in Attempts |-> [status |-> disk[a].status, out |-> disk[a].out]],
                             effect, {a \in Attempts : plan[a].record}>>
  <2> SUFFICES ASSUME TypeOK, TypeOK', RecordInv, RecordInv', CourseInv, CourseInv', Next
               PROVE  Contract!Next \/ UNCHANGED <<disk, effect, plan>>
    BY DEF vars
  <2>1. PICK a \in Attempts : Step(a) \/ Kill(a)
    BY DEF Next
  <2>2. \/ Contract!Publish(a) \/ Contract!Rewrite(a)
        \/ \E o \in Outputs : Contract!Touch(a, o) \/ Contract!Return(a, o)
        \/ UNCHANGED <<disk, effect, plan>>
    BY <2>1, ContractStep
  <2>3. Outputs = Contract!Outputs
    BY DEF Outputs, Files, Contract!Outputs
  <2> QED BY <2>2, <2>3 DEF Contract!Next
<1> QED BY <1>1, ContractInit, TypeCorrect, RecordInvariant, CourseInvariant, PTL
       DEF Spec, ContractSpec, Contract!Spec

-----------------------------------------------------------------------------
(* The preflight bundle *)

USE PreflightAssumption

TypeInv ==
    /\ invocation \in Nat
    /\ profile \in 1..NProfiles
    /\ stage \in {"idle", "walk", "check", "move", "done"}
    /\ baselines = [p \in 1..NProfiles |-> baselines[p]]
    /\ \A p \in 1..NProfiles :
        /\ IsFiniteSet(DOMAIN baselines[p])
        /\ \A n \in DOMAIN baselines[p] : baselines[p][n].version \in Versions

(* Profile p has the one baseline this build is to leave it. *)
Complete(p) ==
    \E n \in Versions :
        /\ DOMAIN baselines[p] = {n}
        /\ baselines[p][n].of = invocation /\ baselines[p][n].version = n

(* The profiles before the one in turn are complete, and the one in turn   *)
(* has the baseline its walk-forward has just persisted: among others      *)
(* until the count is checked, then alone.                                 *)
BuildInv ==
    /\ TypeInv
    /\ stage \in {"walk", "check", "move"} => \A p \in 1..NProfiles : p < profile => Complete(p)
    /\ stage = "check" => \E n \in DOMAIN baselines[profile] : baselines[profile][n].of = invocation
    /\ stage = "move" =>
         \E n : DOMAIN baselines[profile] = {n} /\ baselines[profile][n].of = invocation
    /\ BundleIsOwn

LEMMA InitBuild == BundleInit => BuildInv
<1> SUFFICES ASSUME BundleInit PROVE BuildInv
  OBVIOUS
<1>1. baselines = [p \in 1..NProfiles |-> baselines[p]]
  BY DEF BundleInit
<1>2. \A p \in 1..NProfiles : DOMAIN baselines[p] = {}
  BY DEF BundleInit
<1>3. IsFiniteSet({})
  BY FS_EmptySet
<1> QED BY <1>1, <1>2, <1>3 DEF BundleInit, BuildInv, TypeInv, BundleIsOwn

LEMMA StartKeeps == BuildInv /\ StartBundle => BuildInv'
BY DEF BuildInv, TypeInv, Complete, BundleIsOwn, StartBundle

LEMMA WalkForwardKeeps == BuildInv /\ WalkForward => BuildInv'
<1> SUFFICES ASSUME BuildInv, WalkForward PROVE BuildInv'
  OBVIOUS
<1>1. CASE UNCHANGED <<baselines, expected>> /\ stage' = "idle"
  BY <1>1 DEF BuildInv, TypeInv, BundleIsOwn, WalkForward
<1>2. ASSUME NEW name \in Names, NEW version \in Versions, NEW id \in RunIds,
             PersistBaseline(name, [of |-> invocation, id |-> id, version |-> version]),
             stage' \in {"check", "idle"}
      PROVE  BuildInv'
  <2> DEFINE baseline == [of |-> invocation, id |-> id, version |-> version]
  <2> DEFINE D == DOMAIN baselines[profile] \cup {name}
  <2>1. baselines' = [baselines EXCEPT ![profile] =
                    [n \in D |-> IF n = name THEN baseline ELSE baselines[profile][n]]]
    BY <1>2 DEF PersistBaseline
  <2>2. /\ baselines' = [p \in 1..NProfiles |-> baselines'[p]]
        /\ baselines'[profile] = [n \in D |-> IF n = name THEN baseline ELSE baselines[profile][n]]
        /\ \A p \in 1..NProfiles : p # profile => baselines'[p] = baselines[p]
    BY <2>1, Zenon DEF BuildInv, TypeInv
  <2>3. IsFiniteSet(D)
    BY FS_AddElement DEF BuildInv, TypeInv
  <2>4. /\ invocation' = invocation /\ profile' = profile /\ stage = "walk"
        /\ baseline.of = invocation /\ baseline.version = version
    BY DEF WalkForward
  <2>5. DOMAIN baselines'[profile] = D
    BY <2>2
  <2>6. /\ baselines'[profile][name] = baseline
        /\ \A n \in D : n # name => baselines'[profile][n] = baselines[profile][n] /\ n \in DOMAIN baselines[profile]
    BY <2>2
  <2>7. TypeInv'
    <3>1. \A n \in D : baselines'[profile][n].version \in Versions
      BY <2>4, <2>6 DEF BuildInv, TypeInv
    <3> QED BY <1>2, <2>2, <2>3, <2>4, <2>5, <3>1 DEF BuildInv, TypeInv
  <2>8. \A p \in 1..NProfiles : p < profile => Complete(p)'
    <3> SUFFICES ASSUME NEW p \in 1..NProfiles, p < profile PROVE Complete(p)'
      OBVIOUS
    <3>1. Complete(p) /\ baselines'[p] = baselines[p]
      BY <2>2, <2>4 DEF BuildInv, TypeInv
    <3> QED BY <2>4, <3>1 DEF Complete
  <2>9. name \in DOMAIN baselines'[profile] /\ baselines'[profile][name].of = invocation
    BY <2>4, <2>5, <2>6
  <2> QED BY <1>2, <2>4, <2>7, <2>8, <2>9 DEF BuildInv, BundleIsOwn
<1> QED BY <1>1, <1>2 DEF WalkForward

LEMMA CheckKeeps == BuildInv /\ Check => BuildInv'
<1> SUFFICES ASSUME BuildInv, Check PROVE BuildInv'
  OBVIOUS
<1>1. PICK latest \in DOMAIN baselines[profile] :
        stage' = IF Accepted(latest) THEN "move" ELSE "idle"
  BY DEF Check
<1>2. UNCHANGED <<baselines, invocation, profile, expected>> /\ stage = "check"
  BY DEF Check
<1>3. CASE ~Accepted(latest)
  BY <1>1, <1>2, <1>3 DEF BuildInv, TypeInv, BundleIsOwn
<1>4. CASE Accepted(latest)
  <2>1. PICK n : DOMAIN baselines[profile] = {n}
    <3>1. IsFiniteSet(DOMAIN baselines[profile]) /\ Cardinality(DOMAIN baselines[profile]) = 1
      BY <1>4 DEF Accepted, BuildInv, TypeInv
    <3> QED BY <3>1, FS_Singleton
  <2>2. baselines[profile][n].of = invocation
    BY <1>2, <2>1 DEF BuildInv
  <2> QED BY <1>1, <1>2, <1>4, <2>1, <2>2 DEF BuildInv, TypeInv, Complete, BundleIsOwn
<1> QED BY <1>3, <1>4

LEMMA MoveKeeps == BuildInv /\ Move => BuildInv'
<1> SUFFICES ASSUME BuildInv, Move PROVE BuildInv'
  OBVIOUS
<1>1. PICK found \in DOMAIN baselines[profile] :
        baselines' = [baselines EXCEPT ![profile] =
            [n \in (DOMAIN baselines[profile] \ {found}) \cup {baselines[profile][found].version} |->
                IF n = baselines[profile][found].version
                  THEN baselines[profile][found] ELSE baselines[profile][n]]]
  BY DEF Move
<1> DEFINE version == baselines[profile][found].version
<1>2. stage = "move" /\ UNCHANGED <<invocation, expected>> /\ version \in Versions
  BY DEF Move, BuildInv, TypeInv
<1>3. DOMAIN baselines[profile] = {found} /\ baselines[profile][found].of = invocation
  BY <1>2 DEF BuildInv
<1>4. (DOMAIN baselines[profile] \ {found}) \cup {version} = {version}
  BY <1>3
<1>5. baselines'[profile] = [n \in {version} |->
                IF n = version THEN baselines[profile][found] ELSE baselines[profile][n]]
  BY <1>1, <1>4 DEF BuildInv, TypeInv
<1>6. /\ DOMAIN baselines'[profile] = {version}
      /\ baselines'[profile][version] = baselines[profile][found]
  BY <1>5
<1>7. /\ baselines' = [p \in 1..NProfiles |-> baselines'[p]]
      /\ \A p \in 1..NProfiles : p # profile => baselines'[p] = baselines[p]
  BY <1>1, Zenon DEF BuildInv, TypeInv
<1>8. \A p \in 1..NProfiles : p <= profile => Complete(p)'
  <2> SUFFICES ASSUME NEW p \in 1..NProfiles, p <= profile PROVE Complete(p)'
    OBVIOUS
  <2>1. CASE p = profile
    BY <1>2, <1>3, <1>6, <2>1 DEF Complete
  <2>2. CASE p # profile
    <3>1. Complete(p) /\ baselines'[p] = baselines[p]
      BY <1>2, <1>7, <2>2 DEF BuildInv, TypeInv
    <3> QED BY <1>2, <3>1 DEF Complete
  <2> QED BY <2>1, <2>2
<1>9. /\ profile' \in 1..NProfiles
      /\ stage' \in {"walk", "done"}
      /\ stage' = "walk" => profile' = profile + 1
      /\ stage' = "done" => profile = NProfiles
  BY DEF Move, BuildInv, TypeInv
<1>10. TypeInv'
  <2>1. IsFiniteSet({version})
    BY FS_Singleton
  <2>2. \A p \in 1..NProfiles :
          /\ IsFiniteSet(DOMAIN baselines'[p])
          /\ \A n \in DOMAIN baselines'[p] : baselines'[p][n].version \in Versions
    BY <1>2, <1>6, <1>7, <2>1 DEF BuildInv, TypeInv
  <2> QED BY <1>2, <1>7, <1>9, <2>2 DEF BuildInv, TypeInv
<1>11. CASE stage' = "walk"
  <2>1. \A p \in 1..NProfiles : p < profile' => p <= profile
    BY <1>9, <1>11 DEF BuildInv, TypeInv
  <2> QED BY <1>8, <1>10, <1>11, <2>1 DEF BuildInv, BundleIsOwn
<1>12. CASE stage' = "done"
  <2>1. \A p \in 1..NProfiles : p <= profile
    BY <1>9, <1>12
  <2>2. BundleIsOwn'
    BY <1>8, <2>1 DEF BundleIsOwn, Complete
  <2> QED BY <1>10, <1>12, <2>2 DEF BuildInv
<1> QED BY <1>9, <1>11, <1>12

LEMMA BuildStep == BuildInv /\ [BundleNext]_bundleVars => BuildInv'
<1> SUFFICES ASSUME BuildInv, [BundleNext]_bundleVars PROVE BuildInv'
  OBVIOUS
<1>1. CASE Crash
  BY <1>1 DEF BuildInv, TypeInv, BundleIsOwn, Crash
<1>2. CASE UNCHANGED bundleVars
  BY <1>2 DEF BuildInv, TypeInv, Complete, BundleIsOwn, bundleVars
<1> QED
  BY <1>1, <1>2, StartKeeps, WalkForwardKeeps, CheckKeeps, MoveKeeps DEF BundleNext

(* A build that ends without an error leaves every profile one baseline,   *)
(* under its version's name, and it is this build's own, whatever earlier  *)
(* builds left behind: the count of the baselines is what excludes theirs. *)
THEOREM BundleOwn == BundleSpec => []BundleIsOwn
<1>1. BuildInv => BundleIsOwn
  BY DEF BuildInv
<1> QED BY <1>1, InitBuild, BuildStep, PTL DEF BundleSpec

==============================================================================
