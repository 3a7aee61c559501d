------------------------- MODULE CampaignJobProofs -------------------------
(***************************************************************************)
(* Proofs about the Jobs of a campaign: the wave worker (WaveWorker), for  *)
(* any trials, shardings, pool sizes, judge limits, waves and killed Jobs, *)
(* and the controllers with their launchers (ControllerAttempts), for any  *)
(* number of attempts, Jobs and failed or stopped launches.                *)
(*                                                                         *)
(* None of the worker's properties is inductive.  That attempts are        *)
(* numbered without a gap rests on what a thread holds while it executes;  *)
(* that markers come in order, on what a thread's step says of the Bucket; *)
(* that judge records are counted, on how the recorder's counters, the     *)
(* calls in progress and the step of the execution fit together.           *)
(*                                                                         *)
(* One controller Job lives because attempts are used up in order: before  *)
(* a later one is launched every earlier one has its one Job, and that Job *)
(* is dead; whoever may create a Job holds the launch lease, which a       *)
(* request under way keeps fresh unless the launch overran it.             *)
(***************************************************************************)
EXTENDS WaveWorker, ControllerAttempts, FiniteSetTheorems, TLAPS

ThreadType == [pc : ThreadSteps, attempt : Nat, error : {"none", "local", "raised"},
               revoked : BOOLEAN, sealed : SUBSET Nat]
RecordType == [active : Int, count : Nat, rejected : Nat, bad : BOOLEAN, dirs : SUBSET Nat,
               summary : [written : BOOLEAN, count : Nat, rejected : Nat],
               moved : BOOLEAN, strays : SUBSET Nat, raced : BOOLEAN]
ExecutionType == [ok : BOOLEAN, attempt : Nat, counted : BOOLEAN, raced : BOOLEAN]

(* The types of the parts: what the Bucket holds, the wave, the threads    *)
(* field by field, and the recorders field by field.                       *)
BucketTypes ==
  /\ sharding \in Shardings
  /\ execs \in [Trials -> Seq(ExecutionType)]
  /\ partial \subseteq Trials
  /\ unit \in [Trials -> {"none", "partial", "complete", "success"}]
  /\ shardMark \subseteq Shards

WaveTypes ==
  /\ waveMark \in [1..MaxWaves -> {"none", "success", "failed"}]
  /\ wave \in [id : 0..MaxWaves, selected : SUBSET Trials,
               pc : {"off", "starting", "running", "cleanup", "ended", "dead"},
               failed : BOOLEAN]
  /\ wave.pc # "off" => wave.id \in 1..MaxWaves
  /\ kills \in 0..MaxKills

ThreadTypes == th \in [Trials -> ThreadType]

RecorderTypes ==
  /\ scope \in [Trials -> BOOLEAN]
  /\ call \in [Trials -> {"none", "looked", "begun"}]
  /\ rec \in [Trials -> RecordType]

WorkerTypes == BucketTypes /\ WaveTypes /\ ThreadTypes /\ RecorderTypes

(* The steps between taking a slot and the execution's marker.             *)
Executing == {"harbor", "revoke", "drain", "assemble", "finish", "finish-drain", "seal",
              "publish", "mark"}

(* An execution starts only when no unmarked one is left, and no other     *)
(* execution of its trial is published while it runs.                      *)
AttemptOK(t) ==
  /\ th[t].pc = "queued" => t \notin partial
  /\ th[t].pc \in Executing => th[t].attempt = Len(execs[t]) + 1
  /\ \A i \in DOMAIN execs[t] : execs[t][i].attempt = i

(* A thread publishes the trial's unit after a successful execution, and   *)
(* a thread that has nothing left to do found or wrote the unit's marker.  *)
UnitOK(t) ==
  /\ unit[t] # "none" \/ th[t].pc = "unit" => \E i \in DOMAIN execs[t] : execs[t][i].ok
  /\ th[t].pc = "unit-mark" => unit[t] = "complete"
  /\ th[t].pc \in {"recovered", "done"} => unit[t] = "success"

(* The recorder: one call is active while one has begun; a call that has   *)
(* begun when the summary is written began after it; only such a call      *)
(* writes into the directory left behind.                                  *)
RecorderOK(t) ==
  /\ rec[t].active = IF call[t] = "begun" THEN 1 ELSE 0
  /\ rec[t].summary.written /\ call[t] = "begun" => rec[t].raced
  /\ rec[t].moved \/ th[t].pc = "assemble" => rec[t].summary.written
  /\ rec[t].strays # {} => rec[t].raced
  /\ th[t].sealed \subseteq rec[t].strays

(* An execution without an error has complete evidence, moved away from    *)
(* the recorder, and its judge scope is not closed a second time.          *)
EvidenceOK(t) ==
  /\ th[t].pc = "assemble" => th[t].revoked
  /\ th[t].error = "none" /\ th[t].pc \in {"finish", "finish-drain", "seal", "publish", "mark"} =>
       /\ th[t].pc # "finish-drain"
       /\ th[t].revoked /\ rec[t].moved
       /\ Cardinality(rec[t].dirs) = rec[t].summary.count
  /\ \A i \in DOMAIN execs[t] : execs[t][i].ok /\ ~ execs[t][i].raced => execs[t][i].counted

TrialOK(t) == AttemptOK(t) /\ UnitOK(t) /\ RecorderOK(t) /\ EvidenceOK(t)

ShardsOK == \A s \in shardMark : \A t \in TrialsOf(s) : unit[t] = "success"

(* What a step on another trial leaves as it is.                           *)
Same(u) ==
  /\ th'[u] = th[u] /\ execs'[u] = execs[u] /\ unit'[u] = unit[u]
  /\ rec'[u] = rec[u] /\ call'[u] = call[u]
  /\ u \in partial' => u \in partial

(* The types of a fresh thread and a fresh recorder.                       *)
LEMMA Fresh == NoThread \in ThreadType /\ NoRecord \in RecordType
  BY DEF NoThread, ThreadType, ThreadSteps, NoRecord, RecordType

(* A new campaign is well typed.                                           *)
LEMMA TypesInit == Init => WorkerTypes
  <1> SUFFICES ASSUME Init PROVE WorkerTypes
    OBVIOUS
  <1>1. BucketTypes
    BY DEF Init, BucketTypes
  <1>2. WaveTypes
    BY WorkerAssumption DEF Init, WaveTypes
  <1>3. ThreadTypes /\ RecorderTypes
    BY Fresh DEF Init, ThreadTypes, RecorderTypes
  <1>4. QED
    BY <1>1, <1>2, <1>3 DEF WorkerTypes

(* Every step leaves a well-typed Bucket.                                  *)
LEMMA BucketTypesNext ==
    ASSUME WorkerTypes, [Next]_vars
    PROVE  BucketTypes'
  <1> USE DEF BucketTypes
  <1>0. BucketTypes
    BY DEF WorkerTypes
  <1>1. CASE UNCHANGED <<sharding, bucket>>
    BY <1>0, <1>1 DEF bucket, Shards
  <1>2. CASE UNCHANGED vars
    BY <1>1, <1>2 DEF vars
  <1>3. ASSUME NEW selected \in SUBSET Trials, SubmitWave(selected) PROVE BucketTypes'
    BY <1>1, <1>3 DEF SubmitWave
  <1>4. CASE PrepareTransport \/ CleanupTransport \/ JobKilled
    BY <1>1, <1>4 DEF PrepareTransport, CleanupTransport, JobKilled
  <1>5. CASE PublishWave
    BY <1>0, <1>5 DEF PublishWave, Shards
  <1>6. ASSUME NEW s \in Shards, StartShard(s) PROVE BucketTypes'
    BY <1>0, <1>6 DEF StartShard, PartialRemoved, Shards
  <1>7. ASSUME NEW s \in Shards, EndShard(s) PROVE BucketTypes'
    BY <1>0, <1>7 DEF EndShard, Shards
  <1>8. ASSUME NEW t \in Trials,
               \/ BeginExecution(t) \/ HarborEnds(t) \/ RevokeJudge(t) \/ AssembleEvidence(t)
               \/ FinishRoutes(t) \/ SealExecution(t) \/ CallLooksUp(t) \/ CallStep(t)
        PROVE  BucketTypes'
    BY <1>1, <1>8 DEF BeginExecution, HarborEnds, RevokeJudge, RevokeScope, AssembleEvidence,
                      FinishRoutes, SealExecution, CallLooksUp, CallStep, CallBegins,
                      CallRejected, CallRecords, RecorderOnly
  <1>9. ASSUME NEW t \in Trials, PublishExecution(t) PROVE BucketTypes'
    <2>1. CASE th[t].pc = "publish"
      BY <1>0, <1>9, <2>1 DEF PublishExecution, Shards
    <2>2. CASE th[t].pc = "mark"
      <3>1. PICK e : execs' = [execs EXCEPT ![t] = Append(@, e)] /\ e \in ExecutionType
        <4>1. th[t] \in ThreadType /\ rec[t] \in RecordType
          BY DEF WorkerTypes, ThreadTypes, RecorderTypes
        <4>2. th[t].attempt \in Nat /\ rec[t].raced \in BOOLEAN
          BY <4>1 DEF ThreadType, RecordType
        <4>3. [ok |-> th[t].error = "none", attempt |-> th[t].attempt,
               counted |-> rec[t].summary.count =
                              Cardinality(rec[t].dirs) + Cardinality(th[t].sealed),
               raced |-> rec[t].raced] \in ExecutionType
          BY <4>2 DEF ExecutionType
        <4>4. QED
          BY <1>9, <2>2, <4>3 DEF PublishExecution
      <3>2. execs' \in [Trials -> Seq(ExecutionType)]
        BY <1>0, <3>1
      <3>3. QED
        BY <1>0, <1>9, <2>2, <3>2 DEF PublishExecution, Shards
    <2>3. QED
      BY <1>9, <2>1, <2>2 DEF PublishExecution
  <1>10. ASSUME NEW t \in Trials, PublishTrial(t) PROVE BucketTypes'
    BY <1>0, <1>10 DEF PublishTrial, Shards
  <1>11. QED
    BY <1>2, <1>3, <1>4, <1>5, <1>6, <1>7, <1>8, <1>9, <1>10 DEF Next, WaveStep, TrialStep

(* Every step leaves a well-typed wave.                                    *)
LEMMA WaveTypesNext ==
    ASSUME WorkerTypes, [Next]_vars
    PROVE  WaveTypes'
  <1> USE DEF WaveTypes
  <1>0. WaveTypes
    BY DEF WorkerTypes
  <1>1. CASE UNCHANGED <<waveMark, wave, kills>>
    BY <1>0, <1>1
  <1>2. CASE UNCHANGED vars
    BY <1>1, <1>2 DEF vars, bucket
  <1>3. ASSUME NEW selected \in SUBSET Trials, SubmitWave(selected) PROVE WaveTypes'
    BY <1>0, <1>3, WorkerAssumption DEF SubmitWave, bucket
  <1>4. CASE PrepareTransport
    BY <1>0, <1>4 DEF PrepareTransport, bucket
  <1>5. CASE CleanupTransport
    BY <1>0, <1>5 DEF CleanupTransport, bucket
  <1>6. CASE PublishWave
    BY <1>0, <1>6 DEF PublishWave
  <1>7. CASE JobKilled
    <2>1. wave.id \in 1..MaxWaves /\ wave' = [wave EXCEPT !.pc = "dead"] /\ UNCHANGED waveMark
      BY <1>0, <1>7 DEF JobKilled, bucket
    <2>2. kills' \in 0..MaxKills
      BY <1>0, <1>7, WorkerAssumption DEF JobKilled
    <2>3. QED
      BY <1>0, <2>1, <2>2
  <1>8. ASSUME NEW s \in Shards, StartShard(s) \/ EndShard(s) PROVE WaveTypes'
    BY <1>1, <1>8 DEF StartShard, EndShard
  <1>9. ASSUME NEW t \in Trials, TrialStep(t) \/ CallLooksUp(t) \/ CallStep(t)
        PROVE  WaveTypes'
    BY <1>1, <1>9 DEF TrialStep, BeginExecution, HarborEnds, RevokeJudge, RevokeScope,
                      AssembleEvidence, FinishRoutes, SealExecution, PublishExecution,
                      PublishTrial, CallLooksUp, CallStep, CallBegins, CallRejected,
                      CallRecords, RecorderOnly, bucket
  <1>10. QED
    BY <1>2, <1>3, <1>4, <1>5, <1>6, <1>7, <1>8, <1>9 DEF Next, WaveStep

(* Every step leaves well-typed threads.                                   *)
LEMMA ThreadTypesNext ==
    ASSUME WorkerTypes, [Next]_vars
    PROVE  ThreadTypes'
  <1> USE DEF ThreadTypes
  <1>0. ThreadTypes
    BY DEF WorkerTypes
  <1>1. CASE UNCHANGED th
    BY <1>0, <1>1
  <1>2. ASSUME NEW t \in Trials, NEW x \in ThreadType, th' = [th EXCEPT ![t] = x]
        PROVE  ThreadTypes'
    BY <1>0, <1>2
  <1>3. ASSUME NEW t \in Trials, NEW pc \in ThreadSteps, Goto(t, pc) PROVE ThreadTypes'
    BY <1>0, <1>2, <1>3 DEF Goto, ThreadType
  <1>4. ASSUME NEW t \in Trials, NEW pc \in ThreadSteps, NEW e \in {"local", "raised"},
               Fail(t, pc, e)
        PROVE  ThreadTypes'
    BY <1>0, <1>2, <1>4 DEF Fail, ThreadType
  <1>h. ASSUME NEW c PROVE Handled(c) \in {"local", "raised"}
    BY DEF Handled
  <1>5. CASE UNCHANGED vars
    BY <1>1, <1>5 DEF vars
  <1>6. ASSUME NEW selected \in SUBSET Trials, SubmitWave(selected) PROVE ThreadTypes'
    BY <1>6, Fresh DEF SubmitWave
  <1>7. CASE PrepareTransport \/ CleanupTransport \/ PublishWave
    BY <1>1, <1>7 DEF PrepareTransport, CleanupTransport, PublishWave
  <1>8. CASE JobKilled
    BY <1>8, Fresh DEF JobKilled
  <1>9. ASSUME NEW s \in Shards, StartShard(s) PROVE ThreadTypes'
    <2>1. \A pc \in ThreadSteps : [NoThread EXCEPT !.pc = pc] \in ThreadType
      BY Fresh DEF ThreadType
    <2>2. QED
      BY <1>0, <1>9, <2>1 DEF StartShard, ThreadSteps
  <1>10. ASSUME NEW s \in Shards, EndShard(s) PROVE ThreadTypes'
    BY <1>1, <1>10 DEF EndShard
  <1>11. ASSUME NEW t \in Trials, BeginExecution(t) PROVE ThreadTypes'
    <2>1. Len(execs[t]) \in Nat /\ th[t] \in ThreadType
      BY <1>0 DEF WorkerTypes, BucketTypes
    <2>2. PICK n \in Nat : n = Len(execs[t]) + (IF t \in partial THEN 2 ELSE 1)
      <3>1. Len(execs[t]) + 1 \in Nat /\ Len(execs[t]) + 2 \in Nat
        BY <2>1
      <3>2. QED
        BY <3>1, Zenon
    <2>3. [th[t] EXCEPT !.pc = "harbor", !.attempt = n] \in ThreadType
      BY <2>1 DEF ThreadType, ThreadSteps
    <2>4. QED
      BY <1>0, <1>2, <1>11, <2>2, <2>3 DEF BeginExecution
  <1>12. ASSUME NEW t \in Trials, HarborEnds(t) PROVE ThreadTypes'
    BY <1>3, <1>4, <1>12, <1>h DEF HarborEnds, HarborErrors, ThreadSteps
  <1>13. ASSUME NEW t \in Trials, RevokeJudge(t) PROVE ThreadTypes'
    <2>1. CASE RevokeScope(t, "revoke", "drain")
      BY <1>3, <2>1 DEF RevokeScope, ThreadSteps
    <2>2. CASE th' = [th EXCEPT ![t].pc = "assemble", ![t].revoked = TRUE]
      <3>1. [th[t] EXCEPT !.pc = "assemble", !.revoked = TRUE] \in ThreadType
        BY <1>0, Zenon DEF ThreadType, ThreadSteps
      <3>2. QED
        BY <1>0, <1>2, <2>2, <3>1
    <2>3. CASE Fail(t, "finish", Handled(FailureCategory("evidence", "verification", "none")))
      BY <1>4, <1>h, <2>3 DEF ThreadSteps
    <2>4. QED
      BY <1>13, <2>1, <2>2, <2>3 DEF RevokeJudge
  <1>14. ASSUME NEW t \in Trials, AssembleEvidence(t) PROVE ThreadTypes'
    BY <1>3, <1>4, <1>14, <1>h DEF AssembleEvidence, EvidenceErrors, ThreadSteps
  <1>15. ASSUME NEW t \in Trials, FinishRoutes(t) PROVE ThreadTypes'
    BY <1>3, <1>15 DEF FinishRoutes, ThreadSteps
  <1>16. ASSUME NEW t \in Trials, SealExecution(t) PROVE ThreadTypes'
    <2>1. rec[t].strays \subseteq Nat /\ th[t] \in ThreadType
      BY <1>0 DEF WorkerTypes, RecorderTypes, RecordType
    <2>2. [th[t] EXCEPT !.pc = "publish", !.sealed = Checksummed(t)] \in ThreadType
      BY <2>1 DEF Checksummed, ThreadType, ThreadSteps
    <2>3. QED
      BY <1>0, <1>2, <1>16, <2>2 DEF SealExecution
  <1>17. ASSUME NEW t \in Trials, PublishExecution(t) PROVE ThreadTypes'
    <2>1. CASE th[t].pc = "publish"
      BY <1>3, <1>17, <2>1 DEF PublishExecution, ThreadSteps
    <2>2. CASE th[t].pc = "mark"
      <3>1. PICK pc \in {"unit", "local", "raised"} :
                th' = [th EXCEPT ![t] = [NoThread EXCEPT !.pc = pc]]
        BY <1>17, <2>2 DEF PublishExecution
      <3>2. [NoThread EXCEPT !.pc = pc] \in ThreadType
        BY Fresh DEF ThreadType, ThreadSteps
      <3>3. QED
        BY <1>2, <3>1, <3>2
    <2>3. QED
      BY <1>17, <2>1, <2>2 DEF PublishExecution
  <1>18. ASSUME NEW t \in Trials, PublishTrial(t) PROVE ThreadTypes'
    BY <1>1, <1>3, <1>18 DEF PublishTrial, ThreadSteps
  <1>19. ASSUME NEW t \in Trials, CallLooksUp(t) \/ CallStep(t) PROVE ThreadTypes'
    BY <1>1, <1>19 DEF CallLooksUp, CallStep, CallBegins, CallRejected, CallRecords,
                       RecorderOnly
  <1>20. QED
    BY <1>5, <1>6, <1>7, <1>8, <1>9, <1>10, <1>11, <1>12, <1>13, <1>14, <1>15, <1>16,
       <1>17, <1>18, <1>19 DEF Next, WaveStep, TrialStep

(* Every step leaves well-typed recorders.                                 *)
LEMMA RecorderTypesNext ==
    ASSUME WorkerTypes, [Next]_vars
    PROVE  RecorderTypes'
  <1> USE DEF RecorderTypes
  <1>0. RecorderTypes
    BY DEF WorkerTypes
  <1>1. CASE UNCHANGED recorders
    BY <1>0, <1>1 DEF recorders
  <1>2. CASE UNCHANGED vars
    BY <1>1, <1>2 DEF vars
  <1>3. ASSUME NEW selected \in SUBSET Trials, SubmitWave(selected) PROVE RecorderTypes'
    BY <1>3, Fresh DEF SubmitWave
  <1>4. CASE PrepareTransport \/ PublishWave
    BY <1>1, <1>4 DEF PrepareTransport, PublishWave
  <1>5. CASE CleanupTransport
    BY <1>0, <1>5 DEF CleanupTransport
  <1>6. CASE JobKilled
    BY <1>6, Fresh DEF JobKilled
  <1>7. ASSUME NEW s \in Shards, StartShard(s) \/ EndShard(s) PROVE RecorderTypes'
    BY <1>1, <1>7 DEF StartShard, EndShard
  <1>8. ASSUME NEW t \in Trials, HarborEnds(t) \/ SealExecution(t) \/ PublishTrial(t)
        PROVE  RecorderTypes'
    BY <1>1, <1>8 DEF HarborEnds, SealExecution, PublishTrial
  <1>9. ASSUME NEW t \in Trials, BeginExecution(t) PROVE RecorderTypes'
    BY <1>0, <1>9 DEF BeginExecution
  <1>10. ASSUME NEW t \in Trials, CloseSummary(t) PROVE rec' \in [Trials -> RecordType]
    <2>1. rec[t] \in RecordType
      BY <1>0
    <2>2. [rec[t] EXCEPT !.summary = [written |-> TRUE, count |-> rec[t].count,
                                      rejected |-> rec[t].rejected],
                         !.count = 0, !.rejected = 0] \in RecordType
      BY <2>1 DEF RecordType
    <2>3. QED
      BY <1>0, <1>10, <2>2 DEF CloseSummary
  <1>11. ASSUME NEW t \in Trials, RevokeJudge(t) PROVE RecorderTypes'
    BY <1>0, <1>10, <1>11 DEF RevokeJudge, RevokeScope
  <1>12. ASSUME NEW t \in Trials, AssembleEvidence(t) PROVE RecorderTypes'
    <2>1. [rec[t] EXCEPT !.moved = TRUE] \in RecordType
      BY <1>0 DEF RecordType
    <2>2. QED
      BY <1>0, <1>12, <2>1 DEF AssembleEvidence
  <1>13. ASSUME NEW t \in Trials, FinishRoutes(t) PROVE RecorderTypes'
    BY <1>0, <1>10, <1>13 DEF FinishRoutes
  <1>14. ASSUME NEW t \in Trials, PublishExecution(t) PROVE RecorderTypes'
    BY <1>0, <1>1, <1>14, Fresh DEF PublishExecution
  <1>15. ASSUME NEW t \in Trials, CallLooksUp(t) PROVE RecorderTypes'
    BY <1>0, <1>15 DEF CallLooksUp, RecorderOnly
  <1>16. ASSUME NEW t \in Trials, CallBegins(t) PROVE RecorderTypes'
    <2>1. /\ rec[t] \in RecordType /\ rec[t].active + 1 \in Int
          /\ (rec[t].raced \/ rec[t].summary.written) \in BOOLEAN
      BY <1>0 DEF RecordType
    <2>2. [rec[t] EXCEPT !.active = @ + 1, !.raced = @ \/ rec[t].summary.written] \in RecordType
      BY <2>1 DEF RecordType
    <2>3. QED
      BY <1>0, <1>16, <2>2 DEF CallBegins, RecorderOnly
  <1>17. ASSUME NEW t \in Trials, CallRejected(t) PROVE RecorderTypes'
    <2>1. rec[t] \in RecordType /\ rec[t].rejected + 1 \in Nat /\ rec[t].active - 1 \in Int
      BY <1>0 DEF RecordType
    <2>2. [rec[t] EXCEPT !.rejected = @ + 1, !.active = @ - 1] \in RecordType
      BY <2>1, Zenon DEF RecordType
    <2>3. QED
      BY <1>0, <1>17, <2>2 DEF CallRejected, RecorderOnly
  <1>18. ASSUME NEW t \in Trials, CallRecords(t) PROVE RecorderTypes'
    <2>1. PICK bad \in BOOLEAN :
             rec' = [rec EXCEPT ![t] = [rec[t] EXCEPT
                       !.active = @ - 1, !.count = rec[t].count + 1,
                       !.dirs = IF rec[t].moved THEN @ ELSE @ \cup {rec[t].count + 1},
                       !.strays = IF rec[t].moved THEN @ \cup {rec[t].count + 1} ELSE @,
                       !.bad = @ \/ (bad /\ ~ rec[t].moved)]]
      BY <1>0, <1>18 DEF CallRecords
    <2>2. [rec[t] EXCEPT
             !.active = @ - 1, !.count = rec[t].count + 1,
             !.dirs = IF rec[t].moved THEN @ ELSE @ \cup {rec[t].count + 1},
             !.strays = IF rec[t].moved THEN @ \cup {rec[t].count + 1} ELSE @,
             !.bad = @ \/ (bad /\ ~ rec[t].moved)] \in RecordType
      <3>1. rec[t] \in RecordType /\ rec[t].count + 1 \in Nat /\ rec[t].active - 1 \in Int
        BY <1>0 DEF RecordType
      <3>2. rec[t].dirs \cup {rec[t].count + 1} \in SUBSET Nat
            /\ rec[t].strays \cup {rec[t].count + 1} \in SUBSET Nat
        BY <3>1 DEF RecordType
      <3>3. QED
        BY <3>1, <3>2, Zenon DEF RecordType
    <2>3. QED
      BY <1>0, <1>18, <2>1, <2>2 DEF CallRecords, RecorderOnly
  <1>19. QED
    BY <1>2, <1>3, <1>4, <1>5, <1>6, <1>7, <1>8, <1>9, <1>11, <1>12, <1>13, <1>14, <1>15,
       <1>16, <1>17, <1>18 DEF Next, WaveStep, TrialStep, CallStep

(* Every reachable state of a campaign's waves is well typed.              *)
THEOREM WavesAreTyped == Spec => []TypeOK
  <1>1. WorkerTypes => TypeOK
    <2> SUFFICES ASSUME WorkerTypes PROVE TypeOK
      OBVIOUS
    <2>1. \A t \in Trials : /\ th[t].pc \in ThreadSteps
                            /\ \A i \in DOMAIN execs[t] : execs[t][i] \in ExecutionType
      BY DEF WorkerTypes, ThreadTypes, BucketTypes, ThreadType
    <2>2. QED
      BY <2>1 DEF TypeOK, WorkerTypes, BucketTypes, WaveTypes, RecorderTypes, ExecutionType
  <1>2. WorkerTypes /\ [Next]_vars => WorkerTypes'
    BY BucketTypesNext, WaveTypesNext, ThreadTypesNext, RecorderTypesNext DEF WorkerTypes
  <1>3. QED
    BY <1>1, <1>2, TypesInit, PTL DEF Spec

(* What a step does not touch stays in order.                              *)
LEMMA SameKeeps ==
    ASSUME NEW u \in Trials, TrialOK(u), Same(u)
    PROVE  TrialOK(u)'
  BY DEF TrialOK, AttemptOK, UnitOK, RecorderOK, EvidenceOK, Same

(* A step of a trial's thread or of its judge's caller touches no other    *)
(* trial.                                                                  *)
LEMMA StepsAreLocal ==
    ASSUME WorkerTypes, NEW t \in Trials, TrialStep(t) \/ CallLooksUp(t) \/ CallStep(t),
           NEW u \in Trials, u # t
    PROVE  Same(u)
  <1>0. th \in [Trials -> ThreadType] /\ rec \in [Trials -> RecordType]
        /\ DOMAIN execs = Trials /\ DOMAIN unit = Trials /\ DOMAIN call = Trials
    BY DEF WorkerTypes, BucketTypes, ThreadTypes, RecorderTypes
  <1>1. CASE BeginExecution(t) \/ HarborEnds(t) \/ SealExecution(t)
    BY <1>0, <1>1 DEF BeginExecution, HarborEnds, SealExecution, Goto, Fail, bucket, recorders,
                      Same
  <1>2. CASE RevokeJudge(t) \/ AssembleEvidence(t) \/ FinishRoutes(t)
    BY <1>0, <1>2 DEF RevokeJudge, RevokeScope, AssembleEvidence, FinishRoutes, CloseSummary,
                      Goto, Fail, bucket, Same
  <1>3. CASE PublishExecution(t) \/ PublishTrial(t)
    BY <1>0, <1>3 DEF PublishExecution, PublishTrial, Goto, recorders, Same
  <1>4. CASE CallLooksUp(t) \/ CallStep(t)
    BY <1>0, <1>4 DEF CallLooksUp, CallStep, CallBegins, CallRejected, CallRecords,
                      RecorderOnly, bucket, Same
  <1>5. QED
    BY <1>1, <1>2, <1>3, <1>4 DEF TrialStep

(* Every step keeps every trial in order.                                  *)
LEMMA TrialsNext ==
    ASSUME WorkerTypes, \A u \in Trials : TrialOK(u), [Next]_vars, NEW t \in Trials
    PROVE  TrialOK(t)'
  <1> USE DEF TrialOK
  <1>0. /\ th \in [Trials -> ThreadType] /\ th[t] \in ThreadType
        /\ rec \in [Trials -> RecordType] /\ rec[t] \in RecordType
        /\ execs \in [Trials -> Seq(ExecutionType)] /\ execs[t] \in Seq(ExecutionType)
        /\ unit \in [Trials -> {"none", "partial", "complete", "success"}]
        /\ call \in [Trials -> {"none", "looked", "begun"}]
    BY DEF WorkerTypes, BucketTypes, ThreadTypes, RecorderTypes
  <1>i. AttemptOK(t) /\ UnitOK(t) /\ RecorderOK(t) /\ EvidenceOK(t)
    OBVIOUS
  <1>r. ASSUME th'[t] = NoThread, rec'[t] = NoRecord, call'[t] = "none",
               UNCHANGED <<execs, unit>>
        PROVE  TrialOK(t)'
    BY <1>i, <1>r DEF AttemptOK, UnitOK, RecorderOK, EvidenceOK, NoThread, NoRecord, Executing
  <1>1. CASE UNCHANGED vars
    BY <1>1, SameKeeps DEF vars, bucket, recorders, Same
  <1>2. ASSUME NEW selected \in SUBSET Trials, SubmitWave(selected) PROVE TrialOK(t)'
    BY <1>2, <1>r DEF SubmitWave, bucket
  <1>3. CASE WaveStep
    BY <1>3, SameKeeps DEF WaveStep, PrepareTransport, CleanupTransport, PublishWave, bucket,
                           recorders, Same
  <1>4. CASE JobKilled
    BY <1>4, <1>r DEF JobKilled, bucket
  <1>5. ASSUME NEW s \in Shards, StartShard(s) PROVE TrialOK(t)'
    <2>1. CASE t \notin TrialsOf(s)
      BY <1>5, <2>1, SameKeeps DEF StartShard, PartialRemoved, recorders, Same
    <2>2. CASE t \in TrialsOf(s)
      <3>1. PICK pc \in {"recovered", "deferred", "queued"} :
               /\ th'[t] = [NoThread EXCEPT !.pc = pc]
               /\ pc = "recovered" <=> Recovered(t)
               /\ pc = "queued" <=> ~ Recovered(t) /\ ~ Deferred(t)
        BY <1>5, <2>2 DEF StartShard, Deferred
      <3>2. /\ th'[t].pc = pc /\ th'[t].error = "none" /\ th'[t].sealed = {}
            /\ pc = "recovered" => unit'[t] = "success"
            /\ pc # "recovered" => unit'[t] = unit[t]
            /\ pc = "queued" => t \notin partial'
            /\ unit'[t] # "none" => unit[t] # "none"
            /\ UNCHANGED <<execs, rec, call>>
        BY <1>5, <2>2, <3>1 DEF StartShard, PartialRemoved, Recovered, NoThread, recorders
      <3>3. AttemptOK(t)' /\ UnitOK(t)'
        BY <1>i, <3>2 DEF AttemptOK, UnitOK, Executing
      <3>4. RecorderOK(t)' /\ EvidenceOK(t)'
        BY <1>i, <3>2 DEF RecorderOK, EvidenceOK
      <3>5. QED
        BY <3>3, <3>4
    <2>3. QED
      BY <2>1, <2>2
  <1>6. ASSUME NEW s \in Shards, EndShard(s) PROVE TrialOK(t)'
    BY <1>6, SameKeeps DEF EndShard, recorders, Same
  <1>7. ASSUME NEW u \in Trials, u # t, TrialStep(u) \/ CallLooksUp(u) \/ CallStep(u)
        PROVE  TrialOK(t)'
    BY <1>7, SameKeeps, StepsAreLocal
  <1>8. CASE BeginExecution(t)
    <2>1. /\ th'[t] = [th[t] EXCEPT !.pc = "harbor", !.attempt = Len(execs[t]) + 1]
          /\ UNCHANGED <<execs, unit, partial, rec, call>>
      BY <1>0, <1>8, <1>i DEF BeginExecution, AttemptOK, bucket
    <2>2. /\ th'[t].pc = "harbor" /\ th'[t].attempt = Len(execs[t]) + 1
          /\ th'[t].sealed = th[t].sealed
      BY <1>0, <2>1 DEF ThreadType
    <2>3. AttemptOK(t)' /\ UnitOK(t)'
      BY <1>i, <2>1, <2>2 DEF AttemptOK, UnitOK
    <2>4. RecorderOK(t)' /\ EvidenceOK(t)'
      BY <1>i, <2>1, <2>2 DEF RecorderOK, EvidenceOK
    <2>5. QED
      BY <2>3, <2>4
  <1>g. ASSUME NEW pc, NEW e, th[t].pc \in Executing, pc \in Executing \ {"assemble"},
               th'[t].pc = pc, th'[t].attempt = th[t].attempt, th'[t].error = e,
               th'[t].sealed = th[t].sealed, UNCHANGED <<execs, unit>>
        PROVE  AttemptOK(t)' /\ UnitOK(t)'
    BY <1>i, <1>g DEF AttemptOK, UnitOK, Executing
  <1>9. CASE HarborEnds(t)
    <2>1. /\ th'[t].pc \in {"revoke", "finish"}
          /\ th'[t].pc = "finish" => th'[t].error # "none"
          /\ th'[t].attempt = th[t].attempt /\ th'[t].sealed = th[t].sealed
      <3>1. CASE Goto(t, "revoke")
        BY <1>0, <3>1 DEF Goto, ThreadType
      <3>2. ASSUME NEW r \in HarborErrors, Fail(t, "finish", r) 
            PROVE  /\ th'[t].pc = "finish" /\ th'[t].error # "none"
                   /\ th'[t].attempt = th[t].attempt /\ th'[t].sealed = th[t].sealed
        <4>1. r # "none"
          BY <3>2 DEF HarborErrors, Handled
        <4>2. QED
          BY <1>0, <3>2, <4>1 DEF Fail, ThreadType
      <3>3. QED
        BY <1>9, <3>1, <3>2 DEF HarborEnds
    <2>2. UNCHANGED <<execs, unit, partial, rec, call>> /\ th[t].pc = "harbor"
      BY <1>9 DEF HarborEnds, bucket, recorders
    <2>3. AttemptOK(t)' /\ UnitOK(t)'
      BY <1>g, <2>1, <2>2 DEF Executing
    <2>4. RecorderOK(t)' /\ EvidenceOK(t)'
      BY <1>i, <2>1, <2>2 DEF RecorderOK, EvidenceOK
    <2>5. QED
      BY <2>3, <2>4
  <1>10. CASE RevokeScope(t, "revoke", "drain")
    <2>1. /\ UNCHANGED <<execs, unit, partial, rec, call>> /\ th[t].pc = "revoke"
          /\ th'[t].pc = "drain" /\ th'[t].attempt = th[t].attempt
          /\ th'[t].error = th[t].error /\ th'[t].sealed = th[t].sealed
      BY <1>0, <1>10 DEF RevokeScope, Goto, bucket, ThreadType
    <2>2. AttemptOK(t)' /\ UnitOK(t)'
      BY <1>g, <2>1 DEF Executing
    <2>3. RecorderOK(t)' /\ EvidenceOK(t)'
      BY <1>i, <2>1 DEF RecorderOK, EvidenceOK
    <2>4. QED
      BY <2>2, <2>3
  <1>c. ASSUME CloseSummary(t)
        PROVE  /\ rec'[t].summary.written /\ rec'[t].summary.count = rec[t].count
               /\ rec'[t].active = rec[t].active /\ rec'[t].dirs = rec[t].dirs
               /\ rec'[t].moved = rec[t].moved /\ rec'[t].strays = rec[t].strays
               /\ rec'[t].raced = rec[t].raced
    BY <1>0, <1>c DEF CloseSummary, RecordType
  <1>11. CASE th[t].pc = "drain" /\ RevokeJudge(t)
    <2>1. UNCHANGED <<execs, unit, partial, call>>
      BY <1>11 DEF RevokeJudge, RevokeScope, bucket
    <2>2. CASE /\ CallsDrained(t) /\ CloseSummary(t)
               /\ th' = [th EXCEPT ![t].pc = "assemble", ![t].revoked = TRUE]
      <3>1. /\ th'[t].pc = "assemble" /\ th'[t].attempt = th[t].attempt
            /\ th'[t].sealed = th[t].sealed /\ th'[t].revoked /\ rec[t].active = 0
        BY <1>0, <2>2 DEF CallsDrained, ThreadType
      <3>2. AttemptOK(t)' /\ UnitOK(t)'
        BY <1>11, <1>i, <2>1, <3>1 DEF AttemptOK, UnitOK, Executing
      <3>3. call[t] # "begun"
        BY <1>i, <3>1 DEF RecorderOK
      <3>4. RecorderOK(t)' /\ EvidenceOK(t)'
        BY <1>c, <1>i, <2>1, <2>2, <3>1, <3>3 DEF RecorderOK, EvidenceOK
      <3>5. QED
        BY <3>2, <3>4
    <2>3. CASE UNCHANGED rec
               /\ Fail(t, "finish", Handled(FailureCategory("evidence", "verification", "none")))
      <3>1. /\ th'[t].pc = "finish" /\ th'[t].attempt = th[t].attempt
            /\ th'[t].sealed = th[t].sealed /\ th'[t].error # "none"
        BY <1>0, <2>3 DEF Fail, Handled, ThreadType
      <3>2. AttemptOK(t)' /\ UnitOK(t)'
        BY <1>11, <1>g, <2>1, <3>1 DEF Executing
      <3>3. RecorderOK(t)' /\ EvidenceOK(t)'
        BY <1>i, <2>1, <2>3, <3>1 DEF RecorderOK, EvidenceOK
      <3>4. QED
        BY <3>2, <3>3
    <2>4. QED
      BY <1>11, <2>2, <2>3 DEF RevokeJudge, RevokeScope
  <1>12. CASE AssembleEvidence(t)
    <2>1. /\ UNCHANGED <<execs, unit, partial, call>> /\ th[t].pc = "assemble"
          /\ rec'[t].moved /\ rec'[t].summary = rec[t].summary /\ rec'[t].dirs = rec[t].dirs
          /\ rec'[t].active = rec[t].active /\ rec'[t].strays = rec[t].strays
          /\ rec'[t].raced = rec[t].raced
      BY <1>0, <1>12 DEF AssembleEvidence, bucket, RecordType
    <2>2. /\ th'[t].pc = "finish" /\ th'[t].attempt = th[t].attempt
          /\ th'[t].sealed = th[t].sealed /\ th'[t].revoked = th[t].revoked
      BY <1>0, <1>12 DEF AssembleEvidence, Goto, Fail, ThreadType
    <2>3. th'[t].error = "none" => EvidenceComplete(t)
      <3>1. CASE EvidenceComplete(t)
        BY <3>1
      <3>2. ASSUME NEW r \in EvidenceErrors(t), Fail(t, "finish", r)
            PROVE  th'[t].error # "none"
        BY <1>0, <3>2 DEF EvidenceErrors, Handled, Fail, ThreadType
      <3>3. QED
        BY <1>12, <3>1, <3>2 DEF AssembleEvidence
    <2>4. AttemptOK(t)' /\ UnitOK(t)'
      BY <1>g, <2>1, <2>2 DEF Executing
    <2>5. RecorderOK(t)'
      BY <1>i, <2>1, <2>2 DEF RecorderOK
    <2>6. EvidenceOK(t)'
      BY <1>i, <2>1, <2>2, <2>3 DEF EvidenceOK, EvidenceComplete
    <2>7. QED
      BY <2>4, <2>5, <2>6
  <1>13. CASE th[t].pc = "finish" /\ FinishRoutes(t)
    <2>1. /\ UNCHANGED <<execs, unit, partial, rec, call>>
          /\ th'[t].pc = IF th[t].revoked \/ ~ scope[t] THEN "seal" ELSE "finish-drain"
          /\ th'[t].attempt = th[t].attempt /\ th'[t].error = th[t].error
          /\ th'[t].sealed = th[t].sealed /\ th'[t].revoked = th[t].revoked
      BY <1>0, <1>13 DEF FinishRoutes, Goto, bucket, ThreadType
    <2>2. AttemptOK(t)' /\ UnitOK(t)'
      BY <1>13, <1>g, <2>1 DEF Executing
    <2>3. RecorderOK(t)'
      BY <1>i, <2>1 DEF RecorderOK
    <2>4. EvidenceOK(t)'
      BY <1>13, <1>i, <2>1 DEF EvidenceOK
    <2>5. QED
      BY <2>2, <2>3, <2>4
  <1>14. CASE th[t].pc = "finish-drain" /\ FinishRoutes(t)
    <2>1. /\ UNCHANGED <<execs, unit, partial, call>> /\ th'[t].pc = "seal"
          /\ th'[t].attempt = th[t].attempt /\ th'[t].error = th[t].error
          /\ th'[t].sealed = th[t].sealed
      BY <1>0, <1>14 DEF FinishRoutes, Goto, bucket, ThreadType
    <2>2. AttemptOK(t)' /\ UnitOK(t)'
      BY <1>14, <1>g, <2>1 DEF Executing
    <2>3. th[t].error # "none"
      BY <1>14, <1>i DEF EvidenceOK
    <2>4. EvidenceOK(t)'
      BY <1>i, <2>1, <2>3 DEF EvidenceOK
    <2>5. CASE UNCHANGED rec
      BY <1>i, <2>1, <2>2, <2>4, <2>5 DEF RecorderOK
    <2>6. CASE CallsDrained(t) /\ CloseSummary(t)
      <3>1. call[t] # "begun"
        BY <1>i, <2>6 DEF RecorderOK, CallsDrained
      <3>2. RecorderOK(t)'
        BY <1>c, <1>i, <2>1, <2>6, <3>1 DEF RecorderOK
      <3>3. QED
        BY <2>2, <2>4, <3>2
    <2>7. QED
      BY <1>14, <2>5, <2>6 DEF FinishRoutes
  <1>15. CASE SealExecution(t)
    <2>1. /\ UNCHANGED <<execs, unit, partial, rec, call>> /\ th[t].pc = "seal"
          /\ th'[t].pc = "publish" /\ th'[t].attempt = th[t].attempt
          /\ th'[t].error = th[t].error /\ th'[t].revoked = th[t].revoked
          /\ th'[t].sealed = rec[t].strays
      BY <1>0, <1>15 DEF SealExecution, Checksummed, bucket, recorders, ThreadType
    <2>2. AttemptOK(t)' /\ UnitOK(t)'
      BY <1>i, <2>1 DEF AttemptOK, UnitOK, Executing
    <2>3. RecorderOK(t)' /\ EvidenceOK(t)'
      BY <1>i, <2>1 DEF RecorderOK, EvidenceOK
    <2>4. QED
      BY <2>2, <2>3
  <1>16. CASE th[t].pc = "publish" /\ PublishExecution(t)
    <2>1. /\ UNCHANGED <<execs, unit, rec, call>> /\ th'[t].pc \in {"mark", "raised"}
          /\ th'[t].attempt = th[t].attempt /\ th'[t].error = th[t].error
          /\ th'[t].sealed = th[t].sealed /\ th'[t].revoked = th[t].revoked
      BY <1>0, <1>16 DEF PublishExecution, Goto, recorders, ThreadType
    <2>2. AttemptOK(t)' /\ UnitOK(t)'
      BY <1>16, <1>i, <2>1 DEF AttemptOK, UnitOK, Executing
    <2>3. RecorderOK(t)' /\ EvidenceOK(t)'
      BY <1>16, <1>i, <2>1 DEF RecorderOK, EvidenceOK
    <2>4. QED
      BY <2>2, <2>3
  <1>17. CASE th[t].pc = "mark" /\ PublishExecution(t)
    <2> DEFINE e == [ok |-> th[t].error = "none", attempt |-> th[t].attempt,
                     counted |-> rec[t].summary.count =
                                   Cardinality(rec[t].dirs) + Cardinality(th[t].sealed),
                     raced |-> rec[t].raced]
    <2>1. /\ execs'[t] = Append(execs[t], e) /\ UNCHANGED unit
          /\ rec'[t] = NoRecord /\ call'[t] = "none"
      BY <1>0, <1>17 DEF PublishExecution
    <2>2. PICK pc \in {"unit", "local", "raised"} :
             /\ th'[t] = [NoThread EXCEPT !.pc = pc]
             /\ pc = "unit" => th[t].error = "none"
      BY <1>0, <1>17 DEF PublishExecution
    <2>3. th'[t].pc = pc /\ th'[t].sealed = {} /\ th'[t].error = "none"
      BY <2>2 DEF NoThread
    <2>4. /\ e.ok = (th[t].error = "none") /\ e.attempt = Len(execs[t]) + 1
          /\ e.raced = rec[t].raced
          /\ e.counted = (rec[t].summary.count =
                             Cardinality(rec[t].dirs) + Cardinality(th[t].sealed))
      BY <1>17, <1>i DEF AttemptOK, Executing
    <2>5. /\ Len(execs'[t]) = Len(execs[t]) + 1 /\ DOMAIN execs'[t] = 1..(Len(execs[t]) + 1)
          /\ DOMAIN execs[t] = 1..Len(execs[t]) /\ Len(execs[t]) \in Nat
          /\ \A i \in DOMAIN execs[t] : execs'[t][i] = execs[t][i]
          /\ execs'[t][Len(execs[t]) + 1] = e
      BY <1>0, <2>1
    <2> HIDE DEF e
    <2>6. AttemptOK(t)'
      BY <1>i, <2>3, <2>4, <2>5 DEF AttemptOK, Executing
    <2>7. UnitOK(t)'
      <3>1. (\E i \in DOMAIN execs[t] : execs[t][i].ok) =>
               \E i \in DOMAIN execs'[t] : execs'[t][i].ok
        BY <2>5
      <3>2. pc = "unit" => execs'[t][Len(execs[t]) + 1].ok
        BY <2>2, <2>4, <2>5
      <3>3. Len(execs[t]) + 1 \in DOMAIN execs'[t]
        BY <2>5
      <3>4. QED
        BY <1>i, <2>1, <2>2, <2>3, <3>1, <3>2, <3>3 DEF UnitOK
    <2>8. RecorderOK(t)'
      BY <2>1, <2>3 DEF RecorderOK, NoRecord
    <2>9. ~ rec[t].raced /\ th[t].error = "none" =>
             rec[t].summary.count = Cardinality(rec[t].dirs) + Cardinality(th[t].sealed)
      <3> SUFFICES ASSUME ~ rec[t].raced, th[t].error = "none"
                   PROVE  rec[t].summary.count =
                             Cardinality(rec[t].dirs) + Cardinality(th[t].sealed)
        OBVIOUS
      <3>1. th[t].sealed = {}
        BY <1>i DEF RecorderOK
      <3>2. Cardinality(th[t].sealed) = 0
        BY <3>1, FS_EmptySet
      <3>3. Cardinality(rec[t].dirs) = rec[t].summary.count /\ rec[t].summary.count \in Nat
        BY <1>0, <1>17, <1>i DEF EvidenceOK, RecordType
      <3>4. QED
        BY <3>2, <3>3
    <2>10. EvidenceOK(t)'
      <3>1. ASSUME NEW i \in DOMAIN execs'[t], execs'[t][i].ok, ~ execs'[t][i].raced
            PROVE  execs'[t][i].counted
        <4>1. CASE i \in DOMAIN execs[t]
          BY <1>i, <2>5, <3>1, <4>1 DEF EvidenceOK
        <4>2. CASE i = Len(execs[t]) + 1
          BY <2>4, <2>5, <2>9, <3>1, <4>2
        <4>3. QED
          BY <2>5, <4>1, <4>2
      <3>2. QED
        BY <2>2, <2>3, <3>1 DEF EvidenceOK
    <2>11. QED
      BY <2>6, <2>7, <2>8, <2>10
  <1>18. CASE PublishTrial(t)
    <2>1. /\ UNCHANGED <<execs, partial, rec, call>> /\ th'[t].sealed = th[t].sealed
      BY <1>0, <1>18 DEF PublishTrial, Goto, recorders, ThreadType
    <2>2. \/ th[t].pc = "unit" /\ th'[t].pc = "unit" /\ unit'[t] = "partial"
          \/ th[t].pc = "unit" /\ th'[t].pc = "unit-mark" /\ unit'[t] = "complete"
          \/ th[t].pc = "unit-mark" /\ th'[t].pc = "done" /\ unit'[t] = "success"
      BY <1>0, <1>18 DEF PublishTrial, Goto, ThreadType
    <2>3. AttemptOK(t)' /\ UnitOK(t)'
      BY <1>i, <2>1, <2>2 DEF AttemptOK, UnitOK, Executing
    <2>4. RecorderOK(t)' /\ EvidenceOK(t)'
      BY <1>i, <2>1, <2>2 DEF RecorderOK, EvidenceOK
    <2>5. QED
      BY <2>3, <2>4
  <1>19. CASE CallLooksUp(t)
    <2>1. UNCHANGED <<execs, unit, partial, th, rec>> /\ call'[t] = "looked" /\ call[t] = "none"
      BY <1>0, <1>19 DEF CallLooksUp, RecorderOnly, bucket
    <2>2. QED
      BY <1>i, <2>1 DEF AttemptOK, UnitOK, RecorderOK, EvidenceOK
  <1>20. CASE CallBegins(t)
    <2>1. /\ UNCHANGED <<execs, unit, partial, th>> /\ call[t] = "looked" /\ call'[t] = "begun"
          /\ rec'[t].active = rec[t].active + 1
          /\ rec[t].raced => rec'[t].raced
          /\ rec[t].summary.written => rec'[t].raced
          /\ rec'[t].summary = rec[t].summary /\ rec'[t].moved = rec[t].moved
          /\ rec'[t].dirs = rec[t].dirs /\ rec'[t].strays = rec[t].strays
      BY <1>0, <1>20 DEF CallBegins, RecorderOnly, bucket, RecordType
    <2>2. AttemptOK(t)' /\ UnitOK(t)' /\ EvidenceOK(t)'
      BY <1>i, <2>1 DEF AttemptOK, UnitOK, EvidenceOK
    <2>3. RecorderOK(t)'
      BY <1>i, <2>1 DEF RecorderOK
    <2>4. QED
      BY <2>2, <2>3
  <1>21. CASE CallRejected(t)
    <2>1. /\ UNCHANGED <<execs, unit, partial, th>> /\ call[t] = "begun" /\ call'[t] = "none"
          /\ rec'[t].active = rec[t].active - 1
          /\ rec'[t].raced = rec[t].raced
          /\ rec'[t].summary = rec[t].summary /\ rec'[t].moved = rec[t].moved
          /\ rec'[t].dirs = rec[t].dirs /\ rec'[t].strays = rec[t].strays
      BY <1>0, <1>21 DEF CallRejected, RecorderOnly, bucket, RecordType
    <2>2. QED
      BY <1>i, <2>1 DEF AttemptOK, UnitOK, EvidenceOK, RecorderOK
  <1>22. CASE CallRecords(t)
    <2>1. /\ UNCHANGED <<execs, unit, partial, th>> /\ call[t] = "begun" /\ call'[t] = "none"
          /\ rec'[t].active = rec[t].active - 1
          /\ rec'[t].raced = rec[t].raced
          /\ rec'[t].summary = rec[t].summary /\ rec'[t].moved = rec[t].moved
          /\ rec[t].moved => rec'[t].dirs = rec[t].dirs
          /\ rec[t].strays \subseteq rec'[t].strays
          /\ ~ rec[t].moved => rec'[t].strays = rec[t].strays
      BY <1>0, <1>22 DEF CallRecords, RecorderOnly, bucket, RecordType
    <2>2. AttemptOK(t)' /\ UnitOK(t)' /\ EvidenceOK(t)'
      BY <1>i, <2>1 DEF AttemptOK, UnitOK, EvidenceOK
    <2>3. RecorderOK(t)'
      BY <1>i, <2>1 DEF RecorderOK
    <2>4. QED
      BY <2>2, <2>3
  <1>23. CASE RevokeJudge(t)
    BY <1>10, <1>11, <1>23 DEF RevokeJudge
  <1>24. CASE FinishRoutes(t)
    BY <1>13, <1>14, <1>24 DEF FinishRoutes
  <1>25. CASE PublishExecution(t)
    BY <1>16, <1>17, <1>25 DEF PublishExecution
  <1>26. CASE TrialStep(t) \/ CallLooksUp(t) \/ CallStep(t)
    BY <1>8, <1>9, <1>12, <1>15, <1>18, <1>19, <1>20, <1>21, <1>22, <1>23, <1>24, <1>25,
       <1>26 DEF TrialStep, CallStep
  <1>27. QED
    BY <1>1, <1>2, <1>3, <1>4, <1>5, <1>6, <1>7, <1>26 DEF Next

(* A shard's marker is written when each of its trials has its own.        *)
LEMMA ShardsNext ==
    ASSUME WorkerTypes, \A t \in Trials : TrialOK(t), ShardsOK, [Next]_vars
    PROVE  ShardsOK'
  <1> USE DEF ShardsOK
  <1>1. CASE UNCHANGED <<sharding, shardMark, unit>>
    BY <1>1 DEF TrialsOf
  <1>2. CASE UNCHANGED vars
    BY <1>1, <1>2 DEF vars, bucket
  <1>3. ASSUME NEW selected \in SUBSET Trials, SubmitWave(selected) PROVE ShardsOK'
    BY <1>1, <1>3 DEF SubmitWave, bucket
  <1>4. CASE WaveStep \/ JobKilled
    BY <1>1, <1>4 DEF WaveStep, PrepareTransport, CleanupTransport, PublishWave, JobKilled,
                      bucket
  <1>5. ASSUME NEW s \in Shards, StartShard(s) PROVE ShardsOK'
    BY <1>5 DEF StartShard, TrialsOf, Recovered
  <1>6. ASSUME NEW s \in Shards, EndShard(s) PROVE ShardsOK'
    <2>1. CASE ShardResult(s) = "succeeded"
      <3>1. \A t \in TrialsOf(s) : th[t].pc \in {"recovered", "done"}
        BY <1>6, <2>1 DEF EndShard, ShardResult, Finished
      <3>2. \A t \in TrialsOf(s) : unit[t] = "success"
        BY <3>1 DEF TrialsOf, TrialOK, UnitOK
      <3>3. QED
        BY <1>6, <3>2 DEF EndShard, TrialsOf
    <2>2. CASE ShardResult(s) # "succeeded"
      BY <1>1, <1>6, <2>2 DEF EndShard
    <2>3. QED
      BY <2>1, <2>2
  <1>7. ASSUME NEW t \in Trials, PublishTrial(t) PROVE ShardsOK'
    <2>1. unit[t] # "success" \/ unit'[t] = "success"
      BY <1>7 DEF PublishTrial, WorkerTypes, BucketTypes
    <2>2. \A u \in Trials : unit[u] = "success" => unit'[u] = "success"
      BY <1>7, <2>1 DEF PublishTrial, WorkerTypes, BucketTypes
    <2>3. QED
      BY <1>7, <2>2 DEF PublishTrial, TrialsOf
  <1>8. ASSUME NEW t \in Trials,
               \/ BeginExecution(t) \/ HarborEnds(t) \/ RevokeJudge(t) \/ AssembleEvidence(t)
               \/ FinishRoutes(t) \/ SealExecution(t) \/ PublishExecution(t)
               \/ CallLooksUp(t) \/ CallStep(t)
        PROVE  ShardsOK'
    BY <1>1, <1>8 DEF BeginExecution, HarborEnds, RevokeJudge, RevokeScope, AssembleEvidence,
                      FinishRoutes, SealExecution, PublishExecution, CallLooksUp, CallStep,
                      CallBegins, CallRejected, CallRecords, RecorderOnly, bucket
  <1>9. QED
    BY <1>2, <1>3, <1>4, <1>5, <1>6, <1>7, <1>8 DEF Next, TrialStep

WorkerInv == WorkerTypes /\ (\A t \in Trials : TrialOK(t)) /\ ShardsOK

(* The inductive invariant of the worker, established and kept.            *)
LEMMA WorkerInvariant == Spec => []WorkerInv
  <1>1. Init => WorkerInv
    <2> SUFFICES ASSUME Init PROVE (\A t \in Trials : TrialOK(t)) /\ ShardsOK
      BY TypesInit DEF WorkerInv
    <2>1. ShardsOK
      BY DEF Init, ShardsOK
    <2>2. ASSUME NEW t \in Trials PROVE TrialOK(t)
      <3>1. /\ th[t] = NoThread /\ rec[t] = NoRecord /\ call[t] = "none"
            /\ unit[t] = "none" /\ execs[t] = <<>>
        BY DEF Init
      <3>2. AttemptOK(t) /\ UnitOK(t) /\ EvidenceOK(t)
        BY <3>1 DEF AttemptOK, UnitOK, EvidenceOK, NoThread, Executing
      <3>3. RecorderOK(t)
        BY <3>1 DEF RecorderOK, NoThread, NoRecord
      <3>4. QED
        BY <3>2, <3>3 DEF TrialOK
    <2>3. QED
      BY <2>1, <2>2
  <1>2. WorkerInv /\ [Next]_vars => WorkerInv'
    <2> SUFFICES ASSUME WorkerInv, [Next]_vars PROVE WorkerInv'
      OBVIOUS
    <2>1. WorkerTypes'
      BY BucketTypesNext, WaveTypesNext, ThreadTypesNext, RecorderTypesNext
         DEF WorkerInv, WorkerTypes
    <2>2. \A t \in Trials : TrialOK(t)'
      BY TrialsNext DEF WorkerInv
    <2>3. ShardsOK'
      BY ShardsNext DEF WorkerInv
    <2>4. QED
      BY <2>1, <2>2, <2>3 DEF WorkerInv
  <1>3. QED
    BY <1>1, <1>2, PTL DEF Spec

(* The executions of a trial are numbered 1, 2, 3, ... by their physical   *)
(* attempt, over any number of waves and killed Jobs.                      *)
THEOREM AttemptsHaveNoGap == Spec => []AttemptsAreContiguous
  <1>1. WorkerInv => AttemptsAreContiguous
    BY DEF WorkerInv, TrialOK, AttemptOK, AttemptsAreContiguous
  <1>2. QED
    BY <1>1, WorkerInvariant, PTL

(* No trial unit without a successful execution, no shard marker without   *)
(* the markers of its trials, wherever a Job is killed.                    *)
THEOREM MarkersComeLast == Spec => []MarkersInOrder
  <1>1. WorkerInv => MarkersInOrder
    BY DEF WorkerInv, TrialOK, UnitOK, ShardsOK, MarkersInOrder
  <1>2. QED
    BY <1>1, WorkerInvariant, PTL

(* A successful execution that no call raced has exactly the judge records *)
(* its recorder counted, for any number of calls and any limit.            *)
THEOREM RecordsAreCounted == Spec => []JudgeRecordsAreCounted
  <1>1. WorkerInv => JudgeRecordsAreCounted
    BY DEF WorkerInv, TrialOK, EvidenceOK, JudgeRecordsAreCounted
  <1>2. QED
    BY <1>1, WorkerInvariant, PTL

-----------------------------------------------------------------------------
(* Controllers and their launchers.                                        *)
(*                                                                         *)
(* That one Job is alive at a time is not inductive.  It rests on what a   *)
(* launcher knows: an attempt is begun only when every earlier attempt has *)
(* its one Job and that Job is dead (Closed), and a Job that is dead stays *)
(* so.  That an attempt has one Job rests on the launch lease: whoever may *)
(* still create the Job holds a lease nobody else can take, and a request  *)
(* on its way keeps the lease fresh, unless the lease ran out (overran).   *)

Launching == {"find", "acquire", "recheck", "run", "look", "release"}
Creating == {"recheck", "run"}

(* Every attempt before b has a Job, and it is dead.                       *)
Closed(b) ==
    \A c \in Attempts : c < b => /\ Of(c) # {}
                                 /\ \A j \in Of(c) : Stage(j) = "dead"

Reported(s) == s # NoStatus => s.job \in Of(s.attempt)

AttemptJobs ==
    /\ Created = 1..Cardinality(Created)
    /\ \A j \in Jobs : Stage(j) = "none" <=> attemptOf[j] = 0
    /\ \A j, k \in Created : attemptOf[j] = attemptOf[k] => j = k
    /\ \A j \in Created : Closed(attemptOf[j])

AttemptRecords ==
    /\ Reported(status)
    /\ \A a \in Attempts : receipt[a] # Nobody => receipt[a] \in Of(a)
    /\ \A a \in late : /\ Of(a) = {} /\ lease[a].fresh /\ Closed(a)
                       /\ \A p \in Launchers : at[p] \in Creating => goal[p] # a

(* What a watchdog has read.                                               *)
Watched(p) ==
    /\ at[p] \in {"jobs", "capacity", "decide"} => p \in Watchdogs
    /\ Reported(sees[p].status)
    /\ at[p] = "capacity" => \A j \in sees[p].listed \ sees[p].active : Stage(j) = "dead"
    /\ at[p] \in {"capacity", "decide"} /\ sees[p].active = {} /\ sees[p].status # NoStatus
         => Closed(sees[p].status.attempt + 1)

(* What a launcher may rely on.                                            *)
Entitled(p) ==
    /\ at[p] = "idle" => goal[p] = 1
    /\ at[p] \in Launching \cup {"decision"} => Closed(goal[p])
    /\ at[p] \in Creating => lease[goal[p]] = [owner |-> p, fresh |-> TRUE]
    /\ at[p] = "run" => Of(goal[p]) = {}
    /\ at[p] = "release" => Of(goal[p]) # {}
    /\ sees[p].made # Nobody => at[p] \in {"look", "release"} /\ sees[p].made \in Of(goal[p])

AttemptsInOrder ==
    AttemptJobs /\ AttemptRecords /\ \A p \in Launchers : Watched(p) /\ Entitled(p)

ControllersInv == ControllersTypeOK /\ (overran \/ AttemptsInOrder)

(* The Jobs of an attempt carry its number.                                *)
LEMMA JobsOf ==
    /\ \A a \in Attempts : Of(a) = {j \in Jobs : attemptOf[j] = a}
    /\ Of(0) = {}
  BY BoundsAssumption DEF Of, Created, Attempts

(* The same for the next state.                                            *)
LEMMA JobsOfNext ==
    /\ \A a \in Attempts : Of(a)' = {j \in Jobs : attemptOf'[j] = a}
    /\ Of(0)' = {}
  BY BoundsAssumption DEF Of, Created, Attempts

(* A Job with the labels of the attempt, when there is exactly one.        *)
LEMMA OneIsSome ==
    ASSUME NEW S, Cardinality(S) = 1
    PROVE  (CHOOSE j \in S : TRUE) \in S
  <1>1. S # {}
    BY FS_EmptySet
  <1> QED
    BY <1>1

(* A status that may be written names an attempt.                          *)
LEMMA ReportTyped ==
    ASSUME ControllersTypeOK, NEW j \in Jobs, StatusAllows(j), NEW s \in States
    PROVE  attemptOf[j] \in Attempts
           /\ [attempt |-> attemptOf[j], job |-> j, state |-> s] \in Statuses
  <1>1. attemptOf[j] \in Attempts
    BY BoundsAssumption
    DEF ControllersTypeOK, StatusAllows, Statuses, NoStatus, Nobody, Attempts, Jobs
  <1> QED
    BY <1>1 DEF Statuses

ProcType == [stage : Driving \cup {"none", "pending", "dead"}, lost : BOOLEAN,
             detached : BOOLEAN, outcome : States]
SightType == [status : Statuses, valid : BOOLEAN, listed : SUBSET Jobs, active : SUBSET Jobs,
              terminal : BOOLEAN, decided : BOOLEAN, made : Jobs \cup {Nobody}]
LeaseType == [owner : Launchers \cup {"free", "gone"}, fresh : BOOLEAN]
StepType == {"idle", "jobs", "capacity", "decide", "decision",
             "find", "acquire", "recheck", "run", "look", "release"}

LauncherTypes ==
    at \in [Launchers -> StepType] /\ goal \in [Launchers -> Attempts]
    /\ sees \in [Launchers -> SightType]
RecordTypes ==
    /\ reserved \subseteq Attempts /\ recovery \in [Attempts -> Jobs \cup {Nobody}]
    /\ receipt \in [Attempts -> Jobs \cup {Nobody}] /\ lease \in [Attempts -> LeaseType]
    /\ claim \in [job : Jobs \cup {Nobody}, fresh : BOOLEAN] /\ status \in Statuses
    /\ capacity \in Jobs \cup {Nobody, Other} /\ terminal \in BOOLEAN
JobTypes ==
    /\ attemptOf \in [Jobs -> Attempts \cup {0}] /\ proc \in [Jobs -> ProcType]
    /\ late \subseteq Attempts /\ faults \in 0..MaxFaults /\ overran \in BOOLEAN

(* The types, by the part of the state they are about.                     *)
LEMMA TypesByPart ==
    ControllersTypeOK <=> LauncherTypes /\ RecordTypes /\ JobTypes
  BY DEF ControllersTypeOK, LauncherTypes, RecordTypes, JobTypes, ProcType, SightType, LeaseType,
         StepType

(* The same for the next state.                                            *)
LEMMA TypesByPartNext ==
    ControllersTypeOK' <=> LauncherTypes' /\ RecordTypes' /\ JobTypes'
  BY DEF ControllersTypeOK, LauncherTypes, RecordTypes, JobTypes, ProcType, SightType, LeaseType,
         StepType

(* A launcher knows where it is.                                           *)
LEMMA LaunchersTyped ==
    ASSUME ControllersTypeOK, NEW p \in Launchers,
           \/ Submit(p) \/ WatchRecords(p) \/ Launch(p) \/ LaunchFails(p) \/ Stop(p)
    PROVE  LauncherTypes'
  <1>0. LauncherTypes /\ RecordTypes /\ JobTypes
    BY TypesByPart
  <1>1. Unread \in SightType /\ 1 \in Attempts
    BY BoundsAssumption DEF SightType, Unread, Statuses, Attempts, Nobody
  <1>e. End(p) => LauncherTypes'
    BY <1>0, <1>1 DEF LauncherTypes, End, StepType
  <1>g. \A s \in StepType : Go(p, s) /\ UNCHANGED <<goal, sees>> => LauncherTypes'
    BY <1>0 DEF LauncherTypes, Go
  <1>s. sees[p] \in SightType /\ goal[p] \in Attempts
    BY <1>0 DEF LauncherTypes
  <1>2. CASE Submit(p) \/ Find(p) \/ AcquireLease(p) \/ Recheck(p) \/ RecordLaunch(p)
             \/ ReleaseLease(p) \/ Stop(p) \/ LaunchFails(p)
    BY <1>2, <1>e, <1>g DEF Submit, Find, AcquireLease, Recheck, RecordLaunch, ReleaseLease, Stop,
                        LaunchFails, StepType
  <1>3. CASE WatchRecords(p)
    <2>1. [sees[p] EXCEPT !.status = status, !.terminal = terminal,
                          !.valid = claim.fresh] \in SightType
      BY <1>0, <1>s DEF SightType, RecordTypes
    <2> QED
      BY <1>0, <1>3, <2>1 DEF WatchRecords, LauncherTypes, Go, StepType
  <1>4. CASE WatchJobs(p)
    <2>1. [sees[p] EXCEPT !.listed = Created,
                          !.active = {j \in Created : Live(j)}] \in SightType
      BY <1>s DEF SightType, Created
    <2> QED
      BY <1>0, <1>4, <1>e, <2>1 DEF WatchJobs, LauncherTypes, Go, StepType
  <1>5. CASE WatchCapacity(p)
    <2>1. [sees[p] EXCEPT !.listed = {}] \in SightType
      BY <1>s DEF SightType
    <2> QED
      BY <1>0, <1>5, <2>1 DEF WatchCapacity, LauncherTypes, Go, StepType
  <1>6. CASE Decide(p)
    <2>1. [sees[p] EXCEPT !.decided = recovery[sees[p].status.attempt + 1] # Nobody,
                          !.valid = FALSE] \in SightType
      BY <1>s DEF SightType
    <2>2. MayRecover(p) => sees[p].status.attempt + 1 \in Attempts
      BY <1>s, BoundsAssumption DEF SightType, MayRecover, Statuses, NoStatus, Attempts
    <2> QED
      BY <1>0, <1>6, <1>e, <2>1, <2>2 DEF Decide, LauncherTypes, Go, StepType
  <1>7. CASE WriteRecovery(p)
    BY <1>0, <1>1, <1>7, <1>e DEF WriteRecovery, LauncherTypes, Go, StepType
  <1>8. CASE LaunchSucceeds(p)
    <2>1. [sees[p] EXCEPT !.made = NewJob] \in SightType
      BY <1>s, <1>8 DEF SightType, LaunchSucceeds, CreateJob
    <2> QED
      BY <1>0, <1>8, <2>1 DEF LaunchSucceeds, LauncherTypes, Go, StepType
  <1> QED
    BY <1>2, <1>3, <1>4, <1>5, <1>6, <1>7, <1>8 DEF Launch

(* The records of an attempt keep their shape under a launcher.            *)
LEMMA LauncherRecordsTyped ==
    ASSUME ControllersTypeOK, NEW p \in Launchers,
           \/ Submit(p) \/ WatchRecords(p) \/ Launch(p) \/ LaunchFails(p) \/ Stop(p)
    PROVE  RecordTypes'
  <1>0. LauncherTypes /\ RecordTypes /\ JobTypes
    BY TypesByPart
  <1>s. sees[p] \in SightType /\ goal[p] \in Attempts
    BY <1>0 DEF LauncherTypes
  <1>1. Of(goal[p]) \subseteq Jobs
    BY DEF Of, Created
  <1>a. Adoptable(p) /\ Adopt(p) => receipt' \in [Attempts -> Jobs \cup {Nobody}]
    <2> SUFFICES ASSUME Adoptable(p), Adopt(p), receipt[goal[p]] = Nobody
                 PROVE  receipt' \in [Attempts -> Jobs \cup {Nobody}]
      BY <1>0 DEF Adopt, RecordTypes
    <2>1. (CHOOSE j \in Of(goal[p]) : TRUE) \in Jobs
      BY <1>1, OneIsSome DEF Adoptable
    <2> QED
      BY <1>0, <2>1 DEF Adopt, RecordTypes
  <1>l. Left(p) \in [Attempts -> LeaseType]
    BY <1>0 DEF Left, LeaseType, RecordTypes
  <1>n. NoLease \in LeaseType /\ [owner |-> p, fresh |-> TRUE] \in LeaseType
    BY DEF NoLease, LeaseType
  <1>2. CASE Submit(p)
    BY <1>0, <1>2, BoundsAssumption DEF Submit, RecordTypes, Attempts
  <1>3. CASE WatchRecords(p) \/ WatchJobs(p) \/ Decide(p) \/ LaunchSucceeds(p) \/ LaunchFails(p)
    BY <1>0, <1>3 DEF WatchRecords, WatchJobs, Decide, LaunchSucceeds, LaunchFails, records,
                      RecordTypes
  <1>4. CASE WatchCapacity(p)
    BY <1>0, <1>4 DEF WatchCapacity, RecordTypes
  <1>5. CASE WriteRecovery(p)
    <2>1. sees[p].status.job \in Jobs \cup {Nobody}
      BY <1>s DEF SightType, Statuses, NoStatus
    <2> QED
      BY <1>0, <1>5, <1>s, <2>1 DEF WriteRecovery, RecordTypes
  <1>6. CASE Find(p)
    BY <1>0, <1>6, <1>a DEF Find, RecordTypes
  <1>7. CASE AcquireLease(p)
    BY <1>0, <1>7, <1>a, <1>n, <1>s DEF AcquireLease, RecordTypes
  <1>8. CASE Recheck(p)
    BY <1>0, <1>8, <1>a, <1>l DEF Recheck, RecordTypes
  <1>9. CASE RecordLaunch(p)
    <2> DEFINE found == IF sees[p].made # Nobody THEN {sees[p].made} ELSE Of(goal[p])
    <2>1. found \subseteq Jobs
      BY <1>1, <1>s DEF SightType
    <2>2. Cardinality(found) = 1 => (CHOOSE j \in found : TRUE) \in Jobs
      BY <2>1, OneIsSome
    <2> QED
      BY <1>0, <1>9, <1>l, <1>s, <2>2 DEF RecordLaunch, RecordTypes
  <1>10. CASE ReleaseLease(p)
    BY <1>0, <1>10, <1>n, <1>s DEF ReleaseLease, RecordTypes
  <1>11. CASE Stop(p)
    BY <1>0, <1>11, <1>l DEF Stop, RecordTypes
  <1> QED
    BY <1>2, <1>3, <1>4, <1>5, <1>6, <1>7, <1>8, <1>9, <1>10, <1>11 DEF Launch

(* A Job that HF Jobs creates has an attempt and a process.                *)
LEMMA CreatedTyped ==
    ASSUME JobTypes, NEW a \in Attempts, CreateJob(a)
    PROVE  attemptOf' \in [Jobs -> Attempts \cup {0}] /\ proc' \in [Jobs -> ProcType]
  BY DEF JobTypes, CreateJob, ProcType

(* Jobs, requests on their way and counters, under every step.             *)
LEMMA LauncherJobsTyped ==
    ASSUME ControllersTypeOK, NEW p \in Launchers,
           \/ Submit(p) \/ WatchRecords(p) \/ Launch(p) \/ LaunchFails(p) \/ Stop(p)
    PROVE  JobTypes'
  <1>0. LauncherTypes /\ JobTypes /\ goal[p] \in Attempts
    BY TypesByPart DEF LauncherTypes
  <1>1. CASE LaunchSucceeds(p)
    BY <1>0, <1>1, CreatedTyped DEF LaunchSucceeds, JobTypes
  <1>2. CASE LaunchFails(p)
    BY <1>0, <1>2, CreatedTyped, BoundsAssumption DEF LaunchFails, JobTypes, job
  <1>3. CASE Stop(p)
    BY <1>0, <1>3, BoundsAssumption DEF Stop, JobTypes, job
  <1>4. CASE Submit(p) \/ WatchRecords(p) \/ WatchJobs(p) \/ WatchCapacity(p) \/ Decide(p)
             \/ WriteRecovery(p) \/ Find(p) \/ AcquireLease(p) \/ Recheck(p) \/ RecordLaunch(p)
             \/ ReleaseLease(p)
    BY <1>0, <1>4 DEF Submit, WatchRecords, WatchJobs, WatchCapacity, Decide, WriteRecovery, Find,
                      AcquireLease, Recheck, RecordLaunch, ReleaseLease, JobTypes, job
  <1> QED
    BY <1>1, <1>2, <1>3, <1>4 DEF Launch

(* What a controller does to its own process.                              *)
LEMMA ProcessTyped ==
    ASSUME JobTypes, NEW j \in Jobs
    PROVE  /\ \A s \in Driving \cup {"none", "pending", "dead"} :
                To(j, s) => proc' \in [Jobs -> ProcType]
           /\ \A s \in States : ToFinish(j, s) => proc' \in [Jobs -> ProcType]
           /\ Die(j) => proc' \in [Jobs -> ProcType]
  <1>0. proc \in [Jobs -> ProcType] /\ proc[j] \in ProcType
    BY DEF JobTypes
  <1>1. \A s \in Driving \cup {"none", "pending", "dead"} : [proc[j] EXCEPT !.stage = s] \in ProcType
    BY <1>0 DEF ProcType
  <1>2. \A s \in States : [proc[j] EXCEPT !.stage = "finish", !.outcome = s,
                                          !.lost = FALSE] \in ProcType
    BY <1>0 DEF ProcType, Driving
  <1>3. [NoProc EXCEPT !.stage = "dead"] \in ProcType
    BY DEF ProcType, NoProc, States
  <1> QED
    BY <1>0, <1>1, <1>2, <1>3 DEF To, ToFinish, Die

(* A controller leaves the launchers alone and keeps every record's shape. *)
LEMMA ControllersTyped ==
    ASSUME ControllersTypeOK, NEW j \in Jobs, Control(j) \/ Renew(j) \/ Kill(j)
    PROVE  ControllersTypeOK'
  <1>0. LauncherTypes /\ RecordTypes /\ JobTypes
    BY TypesByPart
  <1>1. "retryable" \in States /\ "approval" \in States /\ "completed" \in States
    BY DEF States
  <1>2. \A s \in States : StatusAllows(j) /\ Report(j, s) => status' \in Statuses
    BY ReportTyped DEF Report
  <1>3. Working \subseteq Driving /\ "finish" \in Driving /\ "unclaim" \in Driving
        /\ Working = {"recover", "starting", "loop", "wave"}
    BY DEF Driving, Working
  <1>4. proc[j] \in ProcType /\ proc[j].outcome \in States
    BY <1>0 DEF JobTypes, ProcType
  <1>5. /\ NoClaim \in [job : Jobs \cup {Nobody}, fresh : BOOLEAN]
        /\ [job |-> j, fresh |-> TRUE] \in [job : Jobs \cup {Nobody}, fresh : BOOLEAN]
    BY DEF NoClaim
  <1>6. UNCHANGED launcher => LauncherTypes'
    BY <1>0 DEF launcher, LauncherTypes
  <1>7. CASE Acquire(j)
    <2>1. RecordTypes'
      BY <1>0, <1>5, <1>7 DEF Acquire, RecordTypes
    <2>2. JobTypes'
      BY <1>0, <1>3, <1>7, ProcessTyped DEF Acquire, JobTypes
    <2> QED
      BY <1>6, <1>7, <2>1, <2>2, TypesByPartNext DEF Acquire
  <1>8. CASE RecoverCapacity(j) \/ BeginWave(j) \/ Raise(j)
    <2>1. RecordTypes'
      BY <1>0, <1>8 DEF RecoverCapacity, BeginWave, Raise, RecordTypes
    <2>2. JobTypes'
      BY <1>0, <1>1, <1>3, <1>8, ProcessTyped DEF RecoverCapacity, BeginWave, Raise, JobTypes
    <2> QED
      BY <1>6, <1>8, <2>1, <2>2, TypesByPartNext DEF RecoverCapacity, BeginWave, Raise
  <1>9. CASE StartUp(j) \/ Pause(j) \/ ApplyLocally(j) \/ RunWave(j)
    <2>1. RecordTypes'
      BY <1>0, <1>1, <1>2, <1>9 DEF StartUp, Pause, ApplyLocally, RunWave, RecordTypes
    <2>2. JobTypes'
      BY <1>0, <1>1, <1>3, <1>9, ProcessTyped
      DEF StartUp, Pause, ApplyLocally, RunWave, ExecuteWave, JobTypes
    <2> QED
      BY <1>6, <1>9, <2>1, <2>2, TypesByPartNext DEF StartUp, Pause, ApplyLocally, RunWave
  <1>10. CASE Leave(j) \/ Kill(j)
    <2>1. RecordTypes'
      BY <1>0, <1>10 DEF Leave, Kill, RecordTypes, records
    <2>2. JobTypes'
      BY <1>0, <1>1, <1>10, ProcessTyped DEF Leave, Kill, JobTypes
    <2> QED
      BY <1>6, <1>10, <2>1, <2>2, TypesByPartNext DEF Leave, Kill
  <1>11. CASE Finish(j)
    <2>1. RecordTypes'
      BY <1>0, <1>2, <1>4, <1>11 DEF Finish, RecordTypes
    <2>2. [proc[j] EXCEPT !.stage = "unclaim", !.outcome = "retryable"] \in ProcType
      BY <1>1, <1>3, <1>4 DEF ProcType
    <2>3. JobTypes'
      BY <1>0, <1>11, <2>2 DEF Finish, JobTypes
    <2> QED
      BY <1>6, <1>11, <2>1, <2>3, TypesByPartNext DEF Finish
  <1>12. CASE Unclaim(j)
    <2>1. RecordTypes'
      BY <1>0, <1>5, <1>12 DEF Unclaim, RecordTypes
    <2>2. JobTypes'
      BY <1>0, <1>12, ProcessTyped DEF Unclaim, JobTypes
    <2> QED
      BY <1>6, <1>12, <2>1, <2>2, TypesByPartNext DEF Unclaim
  <1>13. CASE Renew(j)
    <2>1. RecordTypes'
      BY <1>0, <1>13 DEF Renew, RecordTypes
    <2>2. \A r \in BOOLEAN : /\ [proc[j] EXCEPT !.lost = ~r, !.detached = ~r] \in ProcType
                             /\ [proc[j] EXCEPT !.lost = r] \in ProcType
      BY <1>4 DEF ProcType
    <2>3. ASSUME NEW r \in BOOLEAN, proc' = [proc EXCEPT ![j].lost = ~r, ![j].detached = ~r]
          PROVE  proc' \in [Jobs -> ProcType]
      BY <1>0, <2>2, <2>3 DEF JobTypes
    <2>4. ASSUME proc' = [proc EXCEPT ![j].lost = TRUE]
          PROVE  proc' \in [Jobs -> ProcType]
      BY <1>0, <2>2, <2>4 DEF JobTypes
    <2>5. proc' \in [Jobs -> ProcType]
      BY <1>13, <2>3, <2>4 DEF Renew
    <2>6. JobTypes'
      BY <1>0, <1>13, <2>5 DEF Renew, JobTypes
    <2> QED
      BY <1>6, <1>13, <2>1, <2>6, TypesByPartNext DEF Renew
  <1> QED
    BY <1>7, <1>8, <1>9, <1>10, <1>11, <1>12, <1>13 DEF Control

(* Every step keeps the types.                                             *)
LEMMA ControllersTypesKept ==
    ASSUME ControllersTypeOK, [ControllersNext]_controllerVars
    PROVE  ControllersTypeOK'
  <1>0. LauncherTypes /\ RecordTypes /\ JobTypes
    BY TypesByPart
  <1>1. ASSUME NEW p \in Launchers,
               Submit(p) \/ WatchRecords(p) \/ Launch(p) \/ LaunchFails(p) \/ Stop(p)
        PROVE  ControllersTypeOK'
    BY <1>1, LaunchersTyped, LauncherRecordsTyped, LauncherJobsTyped, TypesByPartNext
  <1>2. ASSUME NEW a \in Attempts, Deliver(a) PROVE ControllersTypeOK'
    <2>1. JobTypes'
      BY <1>0, <1>2, CreatedTyped DEF Deliver, JobTypes
    <2>2. LauncherTypes' /\ RecordTypes'
      BY <1>0, <1>2 DEF Deliver, LauncherTypes, RecordTypes, launcher, records
    <2> QED
      BY <2>1, <2>2, TypesByPartNext
  <1>3. ASSUME NEW a \in Attempts, LeaseExpires(a) PROVE ControllersTypeOK'
    <2>1. JobTypes' /\ LauncherTypes'
      BY <1>0, <1>3 DEF LeaseExpires, LauncherTypes, JobTypes, launcher, job
    <2>2. [lease[a] EXCEPT !.fresh = FALSE] \in LeaseType
      BY <1>0 DEF RecordTypes, LeaseType
    <2>3. RecordTypes'
      BY <1>0, <1>3, <2>2 DEF LeaseExpires, RecordTypes
    <2> QED
      BY <2>1, <2>3, TypesByPartNext
  <1>4. CASE ClaimExpires \/ OtherWave
    <2>1. JobTypes' /\ LauncherTypes'
      BY <1>0, <1>4 DEF ClaimExpires, OtherWave, LauncherTypes, JobTypes, launcher, job
    <2>2. RecordTypes'
      BY <1>0, <1>4 DEF ClaimExpires, OtherWave, RecordTypes
    <2> QED
      BY <2>1, <2>2, TypesByPartNext
  <1>5. CASE UNCHANGED controllerVars
    BY <1>0, <1>5, TypesByPartNext
    DEF controllerVars, records, job, launcher, LauncherTypes, RecordTypes, JobTypes
  <1> QED
    BY <1>1, <1>2, <1>3, <1>4, <1>5, ControllersTyped DEF ControllersNext

-----------------------------------------------------------------------------
(* Nothing happens to the set of Jobs, or one Job of a new attempt is made. *)
JobsKept ==
    /\ attemptOf' = attemptOf
    /\ \A k \in Jobs : /\ Stage(k) = "dead" => Stage(k)' = "dead"
                       /\ Stage(k) = "none" <=> Stage(k)' = "none"
JobMade(a) ==
    /\ \/ \E p \in Launchers : at[p] = "run" /\ goal[p] = a /\ at'[p] = "look"
       \/ a \in late /\ a \notin late'
    /\ NewJob \in Jobs /\ attemptOf[NewJob] = 0
    /\ Of(a) = {} /\ Closed(a)
    /\ attemptOf' = [attemptOf EXCEPT ![NewJob] = a]
    /\ proc' = [proc EXCEPT ![NewJob].stage = "pending"]

(* The Jobs are numbered in the order of their creation.                   *)
LEMMA NewJobIsNew ==
    ASSUME ControllersTypeOK, AttemptsInOrder
    PROVE  /\ Cardinality(Created) \in Nat /\ IsFiniteSet(Created)
           /\ NewJob \notin Created
           /\ NewJob \in Jobs => attemptOf[NewJob] = 0
  <1>1. Created \subseteq Jobs /\ IsFiniteSet(Jobs)
    BY FS_Interval, BoundsAssumption DEF Created, Jobs
  <1>2. IsFiniteSet(Created) /\ Cardinality(Created) \in Nat
    BY <1>1, FS_Subset, FS_CardinalityType
  <1>3. NewJob \notin Created
    BY <1>2 DEF AttemptsInOrder, AttemptJobs, NewJob
  <1> QED
    BY <1>2, <1>3 DEF Created

(* A controller process moves on, and never comes back from the dead.      *)
LEMMA ControllersMove ==
    ASSUME ControllersTypeOK, NEW j \in Jobs, Control(j) \/ Renew(j) \/ Kill(j)
    PROVE  JobsKept
  <1>0. proc \in [Jobs -> ProcType]
    BY TypesByPart DEF JobTypes
  <1>1. attemptOf' = attemptOf
    BY DEF Control, Renew, Kill, Acquire, RecoverCapacity, StartUp, Leave, Pause, ApplyLocally,
           BeginWave, RunWave, Raise, Finish, Unclaim
  <1>2. Stage(j) \notin {"dead", "none"}
    BY DEF Control, Renew, Kill, Acquire, RecoverCapacity, StartUp, Leave, Pause, ApplyLocally,
           BeginWave, RunWave, Raise, Finish, Unclaim, Looping, Live, Working, Driving
  <1> DEFINE Moved == /\ \A k \in Jobs \ {j} : proc'[k] = proc[k]
                      /\ proc'[j].stage # "none"
  <1>3. /\ \A s \in {"recover", "starting", "loop", "wave"} : To(j, s) => Moved
        /\ \A s \in States : ToFinish(j, s) => Moved
        /\ Die(j) => Moved
    BY <1>0 DEF To, ToFinish, Die, NoProc, ProcType
  <1>4. UNCHANGED proc => Moved
    BY <1>2 DEF Stage
  <1>5. "retryable" \in States /\ "approval" \in States /\ "completed" \in States
    BY DEF States
  <1>6. Moved
    <2>1. CASE Acquire(j) \/ RecoverCapacity(j) \/ StartUp(j) \/ Leave(j) \/ Pause(j)
               \/ ApplyLocally(j) \/ BeginWave(j) \/ RunWave(j) \/ Raise(j) \/ Unclaim(j)
               \/ Kill(j)
      <3> HIDE DEF Moved
      <3> QED
        BY <1>3, <1>4, <1>5, <2>1
        DEF Acquire, RecoverCapacity, StartUp, Leave, Pause, ApplyLocally, BeginWave, RunWave,
            ExecuteWave, Raise, Unclaim, Kill
    <2>2. CASE Finish(j)
      BY <1>0, <2>2 DEF Finish, ProcType
    <2>3. CASE Renew(j)
      <3>1. ASSUME NEW r \in BOOLEAN, proc' = [proc EXCEPT ![j].lost = ~r, ![j].detached = ~r]
            PROVE  Moved
        BY <1>0, <1>2, <3>1 DEF Stage, ProcType
      <3>2. ASSUME proc' = [proc EXCEPT ![j].lost = TRUE]
            PROVE  Moved
        BY <1>0, <1>2, <3>2 DEF Stage, ProcType
      <3> HIDE DEF Moved
      <3> QED
        BY <2>3, <3>1, <3>2 DEF Renew
    <2> QED
      BY <2>1, <2>2, <2>3 DEF Control
  <1> QED
    BY <1>1, <1>2, <1>6 DEF JobsKept, Stage

(* What a step does to the Jobs of the campaign.                           *)
LEMMA JobsMove ==
    ASSUME ControllersTypeOK, AttemptsInOrder, [ControllersNext]_controllerVars
    PROVE  JobsKept \/ \E a \in Attempts : JobMade(a)
  <1>0. LauncherTypes
    BY TypesByPart
  <1>1. UNCHANGED job => JobsKept
    BY DEF JobsKept, job, Stage
  <1>2. ASSUME NEW a \in Attempts, CreateJob(a), Of(a) = {}, Closed(a),
               \/ \E p \in Launchers : at[p] = "run" /\ goal[p] = a /\ at'[p] = "look"
               \/ a \in late /\ a \notin late'
        PROVE  JobMade(a)
    BY <1>2, NewJobIsNew DEF CreateJob, JobMade
  <1>3. ASSUME NEW p \in Launchers, LaunchSucceeds(p) \/ LaunchFails(p)
        PROVE  JobsKept \/ \E a \in Attempts : JobMade(a)
    <2>1. goal[p] \in Attempts /\ at[p] = "run" /\ at'[p] = "look"
      BY <1>0, <1>3 DEF LauncherTypes, LaunchSucceeds, LaunchFails, Go
    <2>2. Of(goal[p]) = {} /\ Closed(goal[p])
      BY <2>1 DEF AttemptsInOrder, Entitled, Launching
    <2> QED
      BY <1>1, <1>2, <1>3, <2>1, <2>2 DEF LaunchSucceeds, LaunchFails
  <1>4. ASSUME NEW a \in Attempts, Deliver(a) PROVE JobMade(a)
    BY <1>2, <1>4 DEF Deliver, AttemptsInOrder, AttemptRecords
  <1>5. ASSUME NEW p \in Launchers,
               \/ Submit(p) \/ WatchRecords(p) \/ WatchJobs(p) \/ WatchCapacity(p) \/ Decide(p)
               \/ WriteRecovery(p) \/ Find(p) \/ AcquireLease(p) \/ Recheck(p)
               \/ RecordLaunch(p) \/ ReleaseLease(p) \/ Stop(p)
        PROVE  JobsKept
    BY <1>1, <1>5 DEF Submit, WatchRecords, WatchJobs, WatchCapacity, Decide, WriteRecovery, Find,
                      AcquireLease, Recheck, RecordLaunch, ReleaseLease, Stop
  <1>6. ASSUME \/ \E a \in Attempts : LeaseExpires(a)
               \/ ClaimExpires \/ OtherWave \/ UNCHANGED controllerVars
        PROVE  JobsKept
    BY <1>1, <1>6 DEF LeaseExpires, ClaimExpires, OtherWave, controllerVars
  <1> QED
    BY <1>3, <1>4, <1>5, <1>6, ControllersMove DEF ControllersNext, Launch

(* What was true of the Jobs of an attempt stays true: a closed attempt is *)
(* not opened again, and a Job keeps its attempt.                          *)
LEMMA JobsStay ==
    ASSUME ControllersTypeOK, JobsKept \/ \E a \in Attempts : JobMade(a)
    PROVE  /\ \A a \in Attempts : Of(a) \subseteq Of(a)'
           /\ \A b \in Nat : Closed(b) => Closed(b)'
           /\ \A s \in Statuses : Reported(s) => Reported(s)'
           /\ \A k \in Created : Stage(k) = "dead" => Stage(k)' = "dead"
  <1>0. attemptOf \in [Jobs -> Attempts \cup {0}] /\ 0 \notin Attempts
    BY TypesByPart DEF JobTypes, Attempts
  <1>p. proc \in [Jobs -> ProcType]
    BY TypesByPart DEF JobTypes
  <1>1. \A a \in Attempts : Of(a) \subseteq Of(a)'
    BY <1>0, JobsOf, JobsOfNext DEF JobsKept, JobMade
  <1>2. \A k \in Created : Stage(k) = "dead" => Stage(k)' = "dead"
    BY <1>0, <1>p DEF JobsKept, JobMade, Created, Stage
  <1>3. ASSUME NEW b \in Nat, Closed(b), NEW c \in Attempts, c < b
        PROVE  Of(c)' # {} /\ \A j \in Of(c)' : Stage(j)' = "dead"
    <2>1. Of(c) # {} /\ \A j \in Of(c) : Stage(j) = "dead"
      BY <1>3 DEF Closed
    <2>2. Of(c)' = Of(c)
      <3>1. CASE JobsKept
        BY <3>1, JobsOf, JobsOfNext DEF JobsKept
      <3>2. ASSUME NEW a \in Attempts, JobMade(a) PROVE Of(c)' = Of(c)
        <4>1. a # c
          BY <2>1, <3>2 DEF JobMade
        <4> QED
          BY <1>0, <3>2, <4>1, JobsOf, JobsOfNext DEF JobMade
      <3> QED
        BY <3>1, <3>2
    <2>3. Of(c) \subseteq Created
      BY DEF Of
    <2> QED
      BY <1>2, <2>1, <2>2, <2>3
  <1>4. \A b \in Nat : Closed(b) => Closed(b)'
    BY <1>3 DEF Closed
  <1>5. \A s \in Statuses : Reported(s) => Reported(s)'
    <2> SUFFICES ASSUME NEW s \in Statuses, s # NoStatus, s.job \in Of(s.attempt)
                 PROVE  s.job \in Of(s.attempt)'
      BY DEF Reported
    <2> QED
      BY <1>1 DEF Statuses
  <1> QED
    BY <1>1, <1>2, <1>4, <1>5

(* An attempt has one Job, and every attempt before it is closed.          *)
LEMMA AttemptJobsKept ==
    ASSUME ControllersTypeOK, AttemptsInOrder, JobsKept \/ \E a \in Attempts : JobMade(a)
    PROVE  AttemptJobs'
  <1>0. attemptOf \in [Jobs -> Attempts \cup {0}] /\ 0 \notin Attempts /\ Attempts \subseteq Nat
    BY TypesByPart DEF JobTypes, Attempts
  <1>p. proc \in [Jobs -> ProcType]
    BY TypesByPart DEF JobTypes
  <1>i. AttemptJobs
    BY DEF AttemptsInOrder
  <1>1. CASE JobsKept
    <2>1. Created' = Created
      BY <1>1 DEF Created, JobsKept
    <2>2. \A j \in Created : Closed(attemptOf[j])'
      BY <1>0, <1>1, <1>i, JobsStay DEF AttemptJobs, Created, JobsKept
    <2> QED
      BY <1>1, <1>i, <2>1, <2>2 DEF AttemptJobs, JobsKept
  <1>2. ASSUME NEW a \in Attempts, JobMade(a) PROVE AttemptJobs'
    <2> DEFINE n == NewJob
    <2>n. n \in Jobs /\ n \notin Created /\ attemptOf[n] = 0
      BY <1>2, NewJobIsNew DEF JobMade
    <2>1. Created' = Created \cup {n}
      BY <1>0, <1>2 DEF Created, JobMade
    <2>2. Cardinality(Created') = Cardinality(Created) + 1
      BY <2>1, <2>n, NewJobIsNew, FS_AddElement
    <2>3. Created' = 1..Cardinality(Created)'
      <3>1. Created = 1..Cardinality(Created) /\ Cardinality(Created) \in Nat
        BY <1>i, NewJobIsNew DEF AttemptJobs
      <3>2. Cardinality(Created)' = Cardinality(Created) + 1
        BY <2>2
      <3>3. n = Cardinality(Created) + 1
        BY DEF NewJob
      <3> QED
        BY <2>1, <3>1, <3>2, <3>3
    <2>4. \A j \in Jobs : Stage(j)' = "none" <=> attemptOf'[j] = 0
      <3>1. proc'[n].stage = "pending" /\ attemptOf'[n] = a
        BY <1>0, <1>2, <1>p, <2>n DEF JobMade, ProcType
      <3>2. \A j \in Jobs \ {n} : Stage(j)' = Stage(j) /\ attemptOf'[j] = attemptOf[j]
        BY <1>0, <1>2, <1>p DEF JobMade, Stage
      <3> QED
        BY <1>0, <1>i, <3>1, <3>2 DEF AttemptJobs, Stage
    <2>5. ASSUME NEW j \in Created', NEW k \in Created', attemptOf'[j] = attemptOf'[k]
          PROVE  j = k
      <3>1. \A i \in Created : attemptOf'[i] = attemptOf[i] /\ attemptOf[i] # a
        BY <1>0, <1>2, <2>n, JobsOf DEF JobMade, Created
      <3>2. attemptOf'[n] = a
        BY <1>0, <1>2, <2>n DEF JobMade
      <3> QED
        BY <1>i, <2>1, <2>5, <3>1, <3>2 DEF AttemptJobs
    <2>6. ASSUME NEW j \in Created' PROVE Closed(attemptOf[j])'
      <3>1. attemptOf'[j] = a \/ (j \in Created /\ attemptOf'[j] = attemptOf[j])
        BY <1>0, <1>2, <2>1, <2>n DEF JobMade, Created
      <3>2. Closed(a)'
        BY <1>0, <1>2, JobsStay DEF JobMade
      <3>3. j \in Created => Closed(attemptOf[j]) /\ attemptOf[j] \in Nat
        BY <1>0, <1>i DEF AttemptJobs, Created
      <3>4. \A b \in Nat : Closed(b) => Closed(b)'
        BY <1>2, JobsStay
      <3> QED
        BY <3>1, <3>2, <3>3, <3>4 DEF Closed
    <2> QED
      BY <2>3, <2>4, <2>5, <2>6 DEF AttemptJobs
  <1> QED
    BY <1>1, <1>2

(* A launch lease that a launcher holds while it creates is its own.       *)
LEMMA OneCreates ==
    ASSUME AttemptsInOrder, NEW p \in Launchers, NEW q \in Launchers,
           at[p] \in Creating, at[q] \in Creating, goal[p] = goal[q]
    PROVE  p = q
  <1>1. Entitled(p) /\ Entitled(q)
    BY DEF AttemptsInOrder
  <1>2. /\ lease[goal[p]] = [owner |-> p, fresh |-> TRUE]
        /\ lease[goal[q]] = [owner |-> q, fresh |-> TRUE]
    BY <1>1 DEF Entitled
  <1> QED
    BY <1>2

(* A launcher's step is its own.                                           *)
LEMMA OthersStay ==
    ASSUME ControllersTypeOK, NEW p \in Launchers,
           Submit(p) \/ WatchRecords(p) \/ Launch(p) \/ LaunchFails(p) \/ Stop(p),
           NEW q \in Launchers, q # p
    PROVE  at'[q] = at[q] /\ goal'[q] = goal[q] /\ sees'[q] = sees[q]
  <1>0. LauncherTypes
    BY TypesByPart
  <1>1. End(p) => at'[q] = at[q] /\ goal'[q] = goal[q] /\ sees'[q] = sees[q]
    BY <1>0 DEF LauncherTypes, End
  <1>2. \A s : Go(p, s) => at'[q] = at[q]
    BY <1>0 DEF LauncherTypes, Go
  <1> QED
    BY <1>0, <1>1, <1>2
    DEF Launch, Submit, WatchRecords, WatchJobs, WatchCapacity, Decide, WriteRecovery, Find,
        AcquireLease, Recheck, LaunchSucceeds, LaunchFails, RecordLaunch, ReleaseLease, Stop,
        LauncherTypes

(* What may happen to a launch lease before it overran.                    *)
LeaseStep(a) ==
    \/ lease'[a] = lease[a]
    \/ ~lease[a].fresh /\ \E p \in Launchers : at[p] = "acquire" /\ goal[p] = a
    \/ \E p \in Launchers :
         /\ lease[a].owner = p /\ at'[p] = "idle"
         /\ lease'[a].fresh = lease[a].fresh \/ (at[p] = "release" /\ goal[p] = a)
    \/ /\ a \notin late
       /\ ~ \E p \in Launchers : lease[a].owner = p /\ at[p] \in Creating

(* A lease is taken when it has expired, left or returned by its owner,    *)
(* or expires when nothing depends on it.                                  *)
LEMMA LeasesMove ==
    ASSUME ControllersTypeOK, [ControllersNext]_controllerVars, ~overran', NEW a \in Attempts
    PROVE  LeaseStep(a)
  <1>0. LauncherTypes /\ lease \in [Attempts -> LeaseType] /\ overran \in BOOLEAN
    BY TypesByPart DEF RecordTypes, JobTypes
  <1>1. ASSUME NEW p \in Launchers, lease' = Left(p), at'[p] = "idle" PROVE LeaseStep(a)
    BY <1>0, <1>1 DEF Left, LeaseStep, LeaseType
  <1>2. UNCHANGED lease => LeaseStep(a)
    BY DEF LeaseStep
  <1>3. ASSUME NEW p \in Launchers,
               \/ Submit(p) \/ WatchRecords(p) \/ WatchJobs(p) \/ WatchCapacity(p) \/ Decide(p)
               \/ WriteRecovery(p) \/ Find(p) \/ LaunchSucceeds(p) \/ LaunchFails(p)
        PROVE  LeaseStep(a)
    BY <1>2, <1>3 DEF Submit, WatchRecords, WatchJobs, WatchCapacity, Decide, WriteRecovery, Find,
                      LaunchSucceeds, LaunchFails, records
  <1>4. ASSUME NEW p \in Launchers, AcquireLease(p) PROVE LeaseStep(a)
    BY <1>0, <1>2, <1>4 DEF AcquireLease, LeaseStep, LauncherTypes
  <1>5. ASSUME NEW p \in Launchers, Recheck(p) \/ RecordLaunch(p) \/ Stop(p) PROVE LeaseStep(a)
    <2>1. End(p) => at'[p] = "idle"
      BY <1>0 DEF End, LauncherTypes
    <2> QED
      BY <1>1, <1>2, <1>5, <2>1 DEF Recheck, RecordLaunch, Stop
  <1>6. ASSUME NEW p \in Launchers, ReleaseLease(p) PROVE LeaseStep(a)
    <2>1. at[p] = "release" /\ at'[p] = "idle" /\ goal[p] \in Attempts
      BY <1>0, <1>6 DEF ReleaseLease, End, LauncherTypes
    <2>2. lease'[a] = lease[a] \/ (goal[p] = a /\ lease[a].owner = p)
      BY <1>0, <1>6, <2>1 DEF ReleaseLease
    <2> QED
      BY <2>1, <2>2 DEF LeaseStep
  <1>7. ASSUME NEW b \in Attempts, LeaseExpires(b) PROVE LeaseStep(a)
    <2>1. b \notin late /\ ~ \E p \in Launchers : lease[b].owner = p /\ at[p] \in Creating
      BY <1>7 DEF LeaseExpires, Creating
    <2>2. a # b => lease'[a] = lease[a]
      BY <1>0, <1>7 DEF LeaseExpires
    <2> QED
      BY <2>1, <2>2 DEF LeaseStep
  <1>8. ASSUME \/ \E b \in Attempts : Deliver(b)
               \/ ClaimExpires \/ OtherWave \/ UNCHANGED controllerVars
        PROVE  LeaseStep(a)
    BY <1>2, <1>8 DEF Deliver, ClaimExpires, OtherWave, controllerVars, records
  <1>9. ASSUME NEW j \in Jobs, Control(j) \/ Renew(j) \/ Kill(j) PROVE LeaseStep(a)
    <2>1. UNCHANGED lease
      BY <1>9 DEF Control, Renew, Kill, Acquire, RecoverCapacity, StartUp, Leave, Pause,
                  ApplyLocally, BeginWave, RunWave, Raise, Finish, Unclaim, records
    <2> QED
      BY <1>2, <2>1
  <1> QED
    BY <1>3, <1>4, <1>5, <1>6, <1>7, <1>8, <1>9 DEF ControllersNext, Launch

(* Everybody but the launcher that steps is left alone.                    *)
LEMMA LaunchersMove ==
    ASSUME ControllersTypeOK, [ControllersNext]_controllerVars, NEW q \in Launchers
    PROVE  \/ at'[q] = at[q] /\ goal'[q] = goal[q] /\ sees'[q] = sees[q]
           \/ Submit(q) \/ WatchRecords(q) \/ Launch(q) \/ LaunchFails(q) \/ Stop(q)
  <1>1. CASE UNCHANGED launcher
    BY <1>1 DEF launcher
  <1>2. ASSUME NEW p \in Launchers,
               Submit(p) \/ WatchRecords(p) \/ Launch(p) \/ LaunchFails(p) \/ Stop(p)
        PROVE  \/ at'[q] = at[q] /\ goal'[q] = goal[q] /\ sees'[q] = sees[q]
               \/ Submit(q) \/ WatchRecords(q) \/ Launch(q) \/ LaunchFails(q) \/ Stop(q)
    BY <1>2, OthersStay
  <1>3. ASSUME NEW j \in Jobs, Control(j) \/ Renew(j) \/ Kill(j) PROVE UNCHANGED launcher
    BY <1>3 DEF Control, Renew, Kill, Acquire, RecoverCapacity, StartUp, Leave, Pause,
                ApplyLocally, BeginWave, RunWave, Raise, Finish, Unclaim
  <1>4. ASSUME \/ \E b \in Attempts : Deliver(b) \/ LeaseExpires(b)
               \/ ClaimExpires \/ OtherWave \/ UNCHANGED controllerVars
        PROVE  UNCHANGED launcher
    BY <1>4 DEF Deliver, LeaseExpires, ClaimExpires, OtherWave, controllerVars
  <1> QED
    BY <1>1, <1>2, <1>3, <1>4 DEF ControllersNext

(* A launcher that creates has taken the lease and found no Job.           *)
LEMMA CreatorsKept ==
    ASSUME ControllersTypeOK, AttemptsInOrder, [ControllersNext]_controllerVars, ~overran',
           NEW q \in Launchers, at'[q] \in Creating
    PROVE  /\ goal'[q] = goal[q] /\ goal[q] \in Attempts
           /\ lease'[goal[q]] = [owner |-> q, fresh |-> TRUE]
           /\ at[q] \in Creating \/ (at[q] = "acquire" /\ ~lease[goal[q]].fresh)
           /\ at'[q] = "run" => Of(goal[q])' = {}
  <1>0. LauncherTypes /\ goal[q] \in Attempts
    BY TypesByPart DEF LauncherTypes
  <1>l. lease \in [Attempts -> LeaseType]
    BY TypesByPart DEF RecordTypes
  <1>e. End(q) => at'[q] = "idle"
    BY <1>0 DEF End, LauncherTypes
  <1>c. Creating = {"recheck", "run"}
    BY DEF Creating
  <1>1. CASE at'[q] = at[q] /\ goal'[q] = goal[q]
    <2>1. lease[goal[q]] = [owner |-> q, fresh |-> TRUE] /\ (at[q] = "run" => Of(goal[q]) = {})
      BY <1>1 DEF AttemptsInOrder, Entitled
    <2>2. LeaseStep(goal[q])
      BY <1>0, LeasesMove
    <2>3. lease'[goal[q]] = lease[goal[q]]
      <3>1. lease[goal[q]].owner = q /\ lease[goal[q]].fresh /\ at[q] \in Creating
            /\ at'[q] # "idle"
        BY <1>1, <1>c, <2>1
      <3> QED
        BY <2>2, <3>1 DEF LeaseStep
    <2>4. at'[q] = "run" => Of(goal[q])' = {}
      <3> SUFFICES ASSUME at[q] = "run", Of(goal[q]) = {} PROVE Of(goal[q])' = {}
        BY <1>1, <2>1
      <3> DEFINE g == goal[q]
      <3>1. CASE JobsKept
        BY <1>0, <1>1, <3>1, JobsOf, JobsOfNext DEF JobsKept
      <3>2. ASSUME NEW a \in Attempts, JobMade(a) PROVE Of(goal[q])' = {}
        <4>1. a # goal[q]
          <5>1. ASSUME NEW p \in Launchers, at[p] = "run", goal[p] = a, at'[p] = "look"
                PROVE  a # goal[q]
            BY <1>1, <1>c, <5>1, OneCreates
          <5>2. a \in late => a # goal[q]
            BY <1>1 DEF AttemptsInOrder, AttemptRecords
          <5> QED
            BY <3>2, <5>1, <5>2 DEF JobMade
        <4>2. attemptOf \in [Jobs -> Attempts \cup {0}]
          BY TypesByPart DEF JobTypes
        <4> QED
          BY <1>0, <1>1, <3>2, <4>1, <4>2, JobsOf, JobsOfNext DEF JobMade
      <3> QED
        BY <3>1, <3>2, JobsMove
    <2> QED
      BY <1>0, <1>1, <2>1, <2>3, <2>4
  <1>2. CASE AcquireLease(q)
    BY <1>0, <1>2, <1>c, <1>e, <1>l DEF AcquireLease, Go, LauncherTypes
  <1>3. CASE Recheck(q)
    <2>1. at[q] = "recheck" /\ UNCHANGED <<goal, lease, job>> /\ (at'[q] = "run" => ~Known(q))
      BY <1>0, <1>3, <1>c, <1>e DEF Recheck, Go, LauncherTypes, Known, Adoptable
    <2>2. lease[goal[q]] = [owner |-> q, fresh |-> TRUE]
      BY <1>c, <2>1 DEF AttemptsInOrder, Entitled
    <2>3. at'[q] = "run" => Of(goal[q])' = {}
      BY <1>0, <2>1, JobsOf, JobsOfNext DEF Known, job
    <2> QED
      BY <1>0, <1>c, <2>1, <2>2, <2>3
  <1>4. CASE \/ Submit(q) \/ WatchRecords(q) \/ WatchJobs(q) \/ WatchCapacity(q) \/ Decide(q)
             \/ WriteRecovery(q) \/ Find(q) \/ LaunchSucceeds(q) \/ LaunchFails(q)
             \/ RecordLaunch(q) \/ ReleaseLease(q) \/ Stop(q)
    <2>1. at'[q] \notin Creating
      BY <1>0, <1>4, <1>c, <1>e
      DEF Submit, WatchRecords, WatchJobs, WatchCapacity, Decide, WriteRecovery, Find,
          LaunchSucceeds, LaunchFails, RecordLaunch, ReleaseLease, Stop, Go, LauncherTypes
    <2> QED
      BY <2>1
  <1> QED
    BY <1>1, <1>2, <1>3, <1>4, LaunchersMove DEF Launch

(* A receipt names a Job of its attempt.                                   *)
LEMMA ReceiptsKept ==
    ASSUME ControllersTypeOK, AttemptsInOrder, [ControllersNext]_controllerVars,
           NEW a \in Attempts, receipt'[a] # Nobody
    PROVE  receipt'[a] \in Of(a)'
  <1>0. LauncherTypes /\ receipt \in [Attempts -> Jobs \cup {Nobody}]
    BY TypesByPart DEF RecordTypes
  <1>s. Of(a) \subseteq Of(a)'
    BY JobsMove, JobsStay
  <1>i. receipt[a] # Nobody => receipt[a] \in Of(a)
    BY DEF AttemptsInOrder, AttemptRecords
  <1>1. CASE receipt'[a] = receipt[a]
    BY <1>1, <1>i, <1>s
  <1>2. ASSUME NEW p \in Launchers, Adoptable(p), Adopt(p), receipt'[a] # receipt[a]
        PROVE  receipt'[a] \in Of(a)
    <2>1. goal[p] = a /\ receipt[a] = Nobody /\ receipt'[a] = CHOOSE j \in Of(a) : TRUE
      BY <1>0, <1>2 DEF Adopt, LauncherTypes
    <2> QED
      BY <1>2, <2>1, OneIsSome DEF Adoptable
  <1>3. ASSUME NEW p \in Launchers, Find(p) \/ AcquireLease(p) \/ Recheck(p)
        PROVE  receipt'[a] \in Of(a)'
    BY <1>1, <1>2, <1>3, <1>s DEF Find, AcquireLease, Recheck
  <1>4. ASSUME NEW p \in Launchers, RecordLaunch(p) PROVE receipt'[a] \in Of(a)'
    <2> DEFINE found == IF sees[p].made # Nobody THEN {sees[p].made} ELSE Of(goal[p])
    <2>1. found \subseteq Of(goal[p])
      BY DEF AttemptsInOrder, Entitled
    <2>2. \/ UNCHANGED receipt
          \/ /\ Cardinality(found) = 1
             /\ receipt' = [receipt EXCEPT ![goal[p]] = CHOOSE j \in found : TRUE]
      BY <1>4 DEF RecordLaunch
    <2>3. Cardinality(found) = 1 => (CHOOSE j \in found : TRUE) \in Of(goal[p])
      BY <2>1, OneIsSome
    <2> HIDE DEF found
    <2>4. CASE a = goal[p]
      BY <1>0, <1>1, <1>s, <2>2, <2>3, <2>4
    <2>5. CASE a # goal[p]
      BY <1>0, <1>1, <2>2, <2>5
    <2> QED
      BY <2>4, <2>5
  <1>5. ASSUME NEW p \in Launchers,
               \/ Submit(p) \/ WatchRecords(p) \/ WatchJobs(p) \/ WatchCapacity(p) \/ Decide(p)
               \/ WriteRecovery(p) \/ LaunchSucceeds(p) \/ LaunchFails(p) \/ ReleaseLease(p)
               \/ Stop(p)
        PROVE  UNCHANGED receipt
    BY <1>5 DEF Submit, WatchRecords, WatchJobs, WatchCapacity, Decide, WriteRecovery,
                LaunchSucceeds, LaunchFails, ReleaseLease, Stop, records
  <1>6. ASSUME NEW j \in Jobs, Control(j) \/ Renew(j) \/ Kill(j) PROVE UNCHANGED receipt
    BY <1>6 DEF Control, Renew, Kill, Acquire, RecoverCapacity, StartUp, Leave, Pause,
                ApplyLocally, BeginWave, RunWave, Raise, Finish, Unclaim, records
  <1>7. ASSUME \/ \E b \in Attempts : Deliver(b) \/ LeaseExpires(b)
               \/ ClaimExpires \/ OtherWave \/ UNCHANGED controllerVars
        PROVE  UNCHANGED receipt
    BY <1>7 DEF Deliver, LeaseExpires, ClaimExpires, OtherWave, controllerVars, records
  <1> QED
    BY <1>1, <1>3, <1>4, <1>5, <1>6, <1>7 DEF ControllersNext, Launch

(* The status names a Job of its attempt.                                  *)
LEMMA StatusKept ==
    ASSUME ControllersTypeOK, AttemptsInOrder, [ControllersNext]_controllerVars
    PROVE  Reported(status)'
  <1>0. status \in Statuses
    BY TypesByPart DEF RecordTypes
  <1>1. UNCHANGED status => Reported(status)'
    <2>1. Reported(status)
      BY DEF AttemptsInOrder, AttemptRecords
    <2>2. \A s \in Statuses : Reported(s) => Reported(s)'
      BY JobsMove, JobsStay
    <2> QED
      BY <1>0, <2>1, <2>2 DEF Reported
  <1>2. ASSUME NEW j \in Jobs, NEW s \in States, StatusAllows(j), Report(j, s),
               Control(j)
        PROVE  Reported(status)'
    <2>1. attemptOf[j] \in Attempts /\ j \in Of(attemptOf[j])
      BY <1>2, ReportTyped, JobsOf
    <2>2. status'.job = j /\ status'.attempt = attemptOf[j]
      BY <1>2 DEF Report
    <2>3. Of(attemptOf[j]) \subseteq {k \in Jobs : attemptOf'[k] = attemptOf[j]}
      BY <2>1, JobsMove, JobsStay, JobsOfNext
    <2> QED
      BY <2>1, <2>2, <2>3, JobsOfNext DEF Reported
  <1>3. "retryable" \in States /\ "approval" \in States
    BY DEF States
  <1>4. ASSUME NEW j \in Jobs, Control(j) \/ Renew(j) \/ Kill(j) PROVE Reported(status)'
    <2>1. proc[j].outcome \in States
      BY TypesByPart DEF JobTypes, ProcType
    <2>2. CASE Control(j)
      <3>1. UNCHANGED status \/ \E s \in States : StatusAllows(j) /\ Report(j, s)
        BY <1>3, <2>1, <2>2
        DEF Control, Acquire, RecoverCapacity, StartUp, Leave, Pause, ApplyLocally, BeginWave,
            RunWave, Raise, Finish, Unclaim, records
      <3> QED
        BY <1>1, <1>2, <2>2, <3>1
    <2>3. CASE Renew(j) \/ Kill(j)
      BY <1>1, <2>3 DEF Renew, Kill, records
    <2> QED
      BY <1>4, <2>2, <2>3
  <1>5. ASSUME NEW p \in Launchers,
               Submit(p) \/ WatchRecords(p) \/ Launch(p) \/ LaunchFails(p) \/ Stop(p)
        PROVE  UNCHANGED status
    BY <1>5 DEF Launch, Submit, WatchRecords, WatchJobs, WatchCapacity, Decide, WriteRecovery,
                Find, AcquireLease, Recheck, RecordLaunch, LaunchSucceeds, LaunchFails,
                ReleaseLease, Stop, records
  <1>6. ASSUME \/ \E b \in Attempts : Deliver(b) \/ LeaseExpires(b)
               \/ ClaimExpires \/ OtherWave \/ UNCHANGED controllerVars
        PROVE  UNCHANGED status
    BY <1>6 DEF Deliver, LeaseExpires, ClaimExpires, OtherWave, controllerVars, records
  <1> QED
    BY <1>1, <1>4, <1>5, <1>6 DEF ControllersNext

(* A create request on its way has its attempt to itself.                  *)
LEMMA LateKept ==
    ASSUME ControllersTypeOK, AttemptsInOrder, [ControllersNext]_controllerVars, ~overran',
           NEW a \in late'
    PROVE  /\ Of(a)' = {} /\ lease'[a].fresh /\ Closed(a)'
           /\ \A p \in Launchers : at'[p] \in Creating => goal'[p] # a
  <1>0. LauncherTypes /\ late \subseteq Attempts /\ Attempts \subseteq Nat
    BY TypesByPart DEF JobTypes, Attempts
  <1>1. a \in Attempts
    BY ControllersTypesKept, TypesByPartNext DEF JobTypes
  <1>c. Creating = {"recheck", "run"}
    BY DEF Creating
  <1>m. JobsKept \/ \E b \in Attempts : JobMade(b)
    BY JobsMove
  <1>2. CASE a \in late
    <2>1. /\ Of(a) = {} /\ lease[a].fresh /\ Closed(a)
          /\ \A p \in Launchers : at[p] \in Creating => goal[p] # a
      BY <1>2 DEF AttemptsInOrder, AttemptRecords
    <2>2. Closed(a)'
      BY <1>0, <1>1, <1>m, <2>1, JobsStay
    <2>3. Of(a)' = {}
      <3>1. CASE JobsKept
        BY <1>1, <2>1, <3>1, JobsOf, JobsOfNext DEF JobsKept
      <3>2. ASSUME NEW b \in Attempts, JobMade(b) PROVE Of(a)' = {}
        <4>1. b # a
          BY <1>c, <2>1, <3>2 DEF JobMade
        <4>2. attemptOf \in [Jobs -> Attempts \cup {0}]
          BY TypesByPart DEF JobTypes
        <4> QED
          BY <1>1, <2>1, <3>2, <4>1, <4>2, JobsOf, JobsOfNext DEF JobMade
      <3> QED
        BY <1>m, <3>1, <3>2
    <2>4. lease'[a].fresh
      <3>1. LeaseStep(a)
        BY <1>1, LeasesMove
      <3>2. ~ \E p \in Launchers : at[p] = "release" /\ goal[p] = a
        BY <2>1 DEF AttemptsInOrder, Entitled
      <3> QED
        BY <1>2, <2>1, <3>1, <3>2 DEF LeaseStep
    <2>5. ASSUME NEW p \in Launchers, at'[p] \in Creating PROVE goal'[p] # a
      BY <2>1, <2>5, CreatorsKept
    <2> QED
      BY <2>2, <2>3, <2>4, <2>5
  <1>3. CASE a \notin late
    <2>1. PICK p \in Launchers : LaunchFails(p) /\ a = goal[p] /\ UNCHANGED job
      <3>1. ASSUME NEW p \in Launchers,
                   \/ Submit(p) \/ WatchRecords(p) \/ Launch(p) \/ Stop(p)
            PROVE  UNCHANGED late
        BY <3>1 DEF Launch, Submit, WatchRecords, WatchJobs, WatchCapacity, Decide,
                    WriteRecovery, Find, AcquireLease, Recheck, RecordLaunch, LaunchSucceeds,
                    ReleaseLease, Stop
      <3>2. ASSUME NEW j \in Jobs, Control(j) \/ Renew(j) \/ Kill(j) PROVE UNCHANGED late
        BY <3>2 DEF Control, Renew, Kill, Acquire, RecoverCapacity, StartUp, Leave, Pause,
                    ApplyLocally, BeginWave, RunWave, Raise, Finish, Unclaim
      <3>3. ASSUME \/ \E b \in Attempts : Deliver(b) \/ LeaseExpires(b)
                   \/ ClaimExpires \/ OtherWave \/ UNCHANGED controllerVars
            PROVE  late' \subseteq late
        BY <3>3 DEF Deliver, LeaseExpires, ClaimExpires, OtherWave, controllerVars
      <3>4. PICK p \in Launchers : LaunchFails(p)
        BY <1>3, <3>1, <3>2, <3>3 DEF ControllersNext
      <3>5. a = goal[p] /\ UNCHANGED job
        BY <1>3, <3>4 DEF LaunchFails
      <3> QED
        BY <3>4, <3>5
    <2>2. at[p] = "run" /\ at'[p] = "look"
      BY <1>0, <2>1 DEF LaunchFails, Go, LauncherTypes
    <2>3. /\ Of(a) = {} /\ Closed(a) /\ lease[a] = [owner |-> p, fresh |-> TRUE]
      BY <2>1, <2>2 DEF AttemptsInOrder, Entitled, Launching, Creating
    <2>4. Of(a)' = {}
      BY <1>1, <2>1, <2>3, JobsOf, JobsOfNext DEF job
    <2>5. Closed(a)'
      BY <1>0, <1>1, <1>m, <2>3, JobsStay
    <2>6. lease'[a].fresh
      BY <2>1, <2>3 DEF LaunchFails, records
    <2>7. ASSUME NEW q \in Launchers, at'[q] \in Creating PROVE goal'[q] # a
      <3>1. q # p
        BY <1>c, <2>2, <2>7
      <3>2. at'[q] = at[q] /\ goal'[q] = goal[q]
        BY <2>1, <3>1, OthersStay
      <3> QED
        BY <1>c, <2>1, <2>2, <2>7, <3>1, <3>2, OneCreates
    <2> QED
      BY <2>4, <2>5, <2>6, <2>7
  <1> QED
    BY <1>2, <1>3

(* A launcher goes after an attempt whose predecessors are closed.         *)
LEMMA EntitledKept ==
    ASSUME ControllersTypeOK, AttemptsInOrder, [ControllersNext]_controllerVars, ~overran',
           NEW q \in Launchers
    PROVE  Entitled(q)'
  <1>0. LauncherTypes /\ goal[q] \in Attempts /\ sees[q] \in SightType
    BY TypesByPart DEF LauncherTypes
  <1>n. Attempts \subseteq Nat /\ 0 \notin Attempts /\ 1 \in Attempts
    BY BoundsAssumption DEF Attempts
  <1>i. Entitled(q) /\ Watched(q)
    BY DEF AttemptsInOrder
  <1>m. /\ \A a \in Attempts : Of(a) \subseteq Of(a)'
        /\ \A b \in Nat : Closed(b) => Closed(b)'
    BY JobsMove, JobsStay
  <1>c. Creating = {"recheck", "run"}
    BY DEF Creating
  <1>l. Launching = {"find", "acquire", "recheck", "run", "look", "release"}
    BY DEF Launching
  <1>1. (at'[q] \in Creating => lease'[goal'[q]] = [owner |-> q, fresh |-> TRUE])
        /\ (at'[q] = "run" => goal'[q] = goal[q] /\ Of(goal[q])' = {})
    BY <1>c, CreatorsKept
  <1> DEFINE Rest == /\ at'[q] = "idle" => goal'[q] = 1
                     /\ at'[q] \in Launching \cup {"decision"} => Closed(goal[q])'
                     /\ at'[q] = "release" => Of(goal[q])' # {}
                     /\ sees'[q].made # Nobody => /\ at'[q] \in {"look", "release"}
                                                  /\ sees'[q].made \in Of(goal[q])'
  <1> SUFFICES Rest
    BY <1>1 DEF Entitled
  <1>3. Closed(1)' /\ Unread.made = Nobody
    BY <1>n DEF Closed, Attempts, Unread
  <1>e. End(q) => Rest
    BY <1>0, <1>3, <1>l DEF End, LauncherTypes
  <1>u. at[q] \notin {"look", "release"} => sees[q].made = Nobody
    BY <1>i DEF Entitled
  <1>k. /\ at[q] \in Launching \cup {"decision"} /\ goal'[q] = goal[q] => Closed(goal[q])'
        /\ Of(goal[q]) # {} /\ goal'[q] = goal[q] => Of(goal[q])' # {}
        /\ \A j \in Of(goal[q]) : goal'[q] = goal[q] => j \in Of(goal[q])'
    <2>1. at[q] \in Launching \cup {"decision"} => Closed(goal[q])
      BY <1>i DEF Entitled
    <2> QED
      BY <1>0, <1>m, <1>n, <2>1 DEF Closed, Of, Created
  <1>4. CASE at'[q] = at[q] /\ goal'[q] = goal[q] /\ sees'[q] = sees[q]
    BY <1>4, <1>i, <1>k DEF Entitled
  <1>5. CASE Submit(q)
    <2>1. at[q] = "idle" /\ at'[q] = "find" /\ goal'[q] = 1 /\ sees'[q] = sees[q]
      BY <1>0, <1>5, <1>i DEF Submit, Go, LauncherTypes, Entitled
    <2> QED
      BY <1>3, <1>u, <2>1 DEF Closed
  <1>6. CASE WatchRecords(q) \/ WatchJobs(q) \/ WatchCapacity(q)
    <2>1. at[q] \in {"idle", "jobs", "capacity"}
      BY <1>6 DEF WatchRecords, WatchJobs, WatchCapacity
    <2>2. End(q) \/ (at'[q] \in {"jobs", "capacity", "decide"} /\ sees'[q].made = sees[q].made)
      BY <1>0, <1>6 DEF WatchRecords, WatchJobs, WatchCapacity, Go, LauncherTypes, SightType
    <2> QED
      BY <1>e, <1>l, <1>u, <2>1, <2>2
  <1>7. CASE Decide(q)
    <2>1. CASE End(q)
      BY <1>e, <2>1
    <2>2. CASE ~End(q)
      <3>1. /\ at[q] = "decide" /\ MayRecover(q) /\ at'[q] = "decision"
            /\ goal'[q] = sees[q].status.attempt + 1 /\ sees'[q].made = sees[q].made
        BY <1>0, <1>7, <2>2 DEF Decide, Go, LauncherTypes, SightType
      <3>2. sees[q].status # NoStatus /\ sees[q].active = {}
            /\ sees[q].status.attempt + 1 \in Nat
        BY <1>0, <3>1 DEF MayRecover, NoStatus, SightType, Statuses, Attempts
      <3>3. Closed(sees[q].status.attempt + 1)
        BY <1>i, <3>1, <3>2 DEF Watched
      <3>4. \A b \in Nat : Closed(b) => Closed(b)'
        BY <1>m
      <3>5. Closed(goal[q])'
        <4> DEFINE b == sees[q].status.attempt + 1
        <4>1. \A c \in Attempts : c < b => /\ Of(c)' # {}
                                          /\ \A j \in Of(c)' : Stage(j)' = "dead"
          BY <3>2, <3>3, <3>4 DEF Closed
        <4> QED
          BY <3>1, <4>1 DEF Closed
      <3> QED
        BY <1>l, <1>u, <3>1, <3>5
    <2> QED
      BY <2>1, <2>2
  <1>8. CASE WriteRecovery(q)
    <2>1. End(q) \/ (at[q] = "decision" /\ at'[q] = "find" /\ goal'[q] = goal[q]
                     /\ sees'[q] = Unread)
      BY <1>0, <1>8 DEF WriteRecovery, Go, LauncherTypes
    <2> QED
      BY <1>3, <1>e, <1>k, <2>1
  <1>9. CASE Find(q) \/ AcquireLease(q)
    <2>1. End(q) \/ (at[q] \in {"find", "acquire"} /\ at'[q] \in {"acquire", "recheck"}
                     /\ goal'[q] = goal[q] /\ sees'[q] = sees[q])
      BY <1>0, <1>9 DEF Find, AcquireLease, Go, LauncherTypes
    <2> QED
      BY <1>e, <1>k, <1>l, <1>u, <2>1
  <1>10. CASE Recheck(q)
    <2>1. End(q) \/ (at[q] = "recheck" /\ at'[q] \in {"run", "release"}
                     /\ (at'[q] = "release" => Adoptable(q))
                     /\ goal'[q] = goal[q] /\ sees'[q] = sees[q])
      BY <1>0, <1>10 DEF Recheck, Go, LauncherTypes
    <2>2. Adoptable(q) => Of(goal[q]) # {}
      <3>1. receipt[goal[q]] # Nobody => receipt[goal[q]] \in Of(goal[q])
        BY <1>0 DEF AttemptsInOrder, AttemptRecords
      <3> QED
        BY <3>1, OneIsSome DEF Adoptable
    <2> QED
      BY <1>e, <1>k, <1>l, <1>u, <2>1, <2>2
  <1>11. CASE LaunchSucceeds(q)
    <2>1. /\ at[q] = "run" /\ at'[q] = "look" /\ goal'[q] = goal[q]
          /\ sees'[q].made = NewJob /\ CreateJob(goal[q])
      BY <1>0, <1>11 DEF LaunchSucceeds, Go, LauncherTypes, SightType
    <2>2. NewJob \in Jobs /\ attemptOf'[NewJob] = goal[q]
      BY <2>1, TypesByPart DEF CreateJob, JobTypes
    <2>3. sees'[q].made \in Of(goal[q])'
      BY <1>0, <2>1, <2>2, JobsOfNext
    <2> QED
      BY <1>k, <1>l, <2>1, <2>3
  <1>12. CASE LaunchFails(q)
    <2>1. /\ at[q] = "run" /\ at'[q] = "look" /\ goal'[q] = goal[q] /\ sees'[q] = sees[q]
      BY <1>0, <1>12 DEF LaunchFails, Go, LauncherTypes
    <2> QED
      BY <1>k, <1>l, <1>u, <2>1
  <1>13. CASE RecordLaunch(q)
    <2> DEFINE found == IF sees[q].made # Nobody THEN {sees[q].made} ELSE Of(goal[q])
    <2>1. found \subseteq Of(goal[q])
      BY <1>i DEF Entitled
    <2>2. End(q) \/ (at[q] = "look" /\ at'[q] = "release" /\ Cardinality(found) = 1
                     /\ goal'[q] = goal[q] /\ sees'[q] = sees[q])
      BY <1>0, <1>13 DEF RecordLaunch, Go, LauncherTypes
    <2>3. Cardinality(found) = 1 => Of(goal[q]) # {}
      BY <2>1, OneIsSome
    <2>4. sees[q].made # Nobody => sees[q].made \in Of(goal[q])
      BY <2>1
    <2> HIDE DEF found
    <2> QED
      BY <1>e, <1>k, <1>l, <2>2, <2>3, <2>4
  <1>14. CASE ReleaseLease(q) \/ Stop(q)
    BY <1>14, <1>e DEF ReleaseLease, Stop
  <1> HIDE DEF Rest
  <1> QED
    BY <1>4, <1>5, <1>6, <1>7, <1>8, <1>9, <1>10, <1>11, <1>12, <1>13, <1>14, LaunchersMove
    DEF Launch

(* What a watchdog read stays true: the dead stay dead.                    *)
LEMMA WatchedKept ==
    ASSUME ControllersTypeOK, AttemptsInOrder, [ControllersNext]_controllerVars,
           NEW q \in Launchers
    PROVE  Watched(q)'
  <1>0. LauncherTypes /\ sees[q] \in SightType
    BY TypesByPart DEF LauncherTypes
  <1>i. Watched(q)
    BY DEF AttemptsInOrder
  <1>m. /\ \A b \in Nat : Closed(b) => Closed(b)'
        /\ \A s \in Statuses : Reported(s) => Reported(s)'
    BY JobsMove, JobsStay
  <1>d. \A k \in Jobs : Stage(k) = "dead" => Stage(k)' = "dead"
    <2>1. \A k \in Jobs : Stage(k) = "dead" => k \in Created
      BY DEF AttemptsInOrder, AttemptJobs, Created
    <2> QED
      BY <2>1, JobsMove, JobsStay
  <1>s. sees[q].status \in Statuses /\ sees[q].listed \subseteq Jobs
        /\ (sees[q].status # NoStatus => sees[q].status.attempt + 1 \in Nat)
    BY <1>0 DEF SightType, Statuses, Attempts
  <1>e. End(q) => Watched(q)'
    BY <1>0 DEF End, LauncherTypes, Watched, Unread, Reported
  <1>r. sees'[q].status = sees[q].status => Reported(sees[q].status)'
    BY <1>i, <1>m, <1>s DEF Watched, Reported
  <1>k. sees'[q].status = sees[q].status /\ sees[q].status # NoStatus
          /\ Closed(sees[q].status.attempt + 1) => Closed(sees[q].status.attempt + 1)'
    <2> SUFFICES ASSUME sees'[q].status = sees[q].status, sees[q].status # NoStatus,
                        Closed(sees[q].status.attempt + 1)
                 PROVE  Closed(sees[q].status.attempt + 1)'
      OBVIOUS
    <2> DEFINE b == sees[q].status.attempt + 1
    <2>1. \A c \in Attempts : c < b => /\ Of(c)' # {}
                                      /\ \A j \in Of(c)' : Stage(j)' = "dead"
      BY <1>m, <1>s DEF Closed
    <2> QED
      BY <2>1 DEF Closed
  <1>1. CASE at'[q] = at[q] /\ sees'[q] = sees[q]
    BY <1>1, <1>d, <1>i, <1>k, <1>r, <1>s DEF Watched
  <1>2. CASE Submit(q) \/ Find(q) \/ AcquireLease(q) \/ Recheck(q) \/ LaunchSucceeds(q)
             \/ LaunchFails(q) \/ RecordLaunch(q) \/ ReleaseLease(q) \/ Stop(q) \/ Decide(q)
    <2>1. End(q) \/ (at'[q] \notin {"jobs", "capacity", "decide"}
                     /\ sees'[q].status = sees[q].status)
      BY <1>0, <1>2
      DEF Submit, Find, AcquireLease, Recheck, LaunchSucceeds, LaunchFails, RecordLaunch,
          ReleaseLease, Stop, Decide, Go, LauncherTypes, SightType
    <2> QED
      BY <1>e, <1>r, <2>1 DEF Watched
  <1>3. CASE WriteRecovery(q)
    <2>1. End(q) \/ (at'[q] = "find" /\ sees'[q] = Unread)
      BY <1>0, <1>3 DEF WriteRecovery, Go, LauncherTypes
    <2> QED
      BY <1>e, <2>1 DEF Watched, Unread, Reported
  <1>4. CASE WatchRecords(q)
    <2>1. q \in Watchdogs /\ at'[q] = "jobs" /\ sees'[q].status = status /\ UNCHANGED status
      BY <1>0, <1>4 DEF WatchRecords, Go, LauncherTypes, SightType, records
    <2>2. Reported(status)'
      BY StatusKept
    <2> QED
      BY <2>1, <2>2 DEF Watched, Reported
  <1>5. CASE WatchJobs(q) /\ ~End(q)
    <2>1. /\ at[q] = "jobs" /\ at'[q] = "capacity" /\ UNCHANGED job
          /\ sees'[q].status = sees[q].status
          /\ sees'[q].listed = Created /\ sees'[q].active = {j \in Created : Live(j)}
      BY <1>0, <1>5 DEF WatchJobs, Go, LauncherTypes, SightType
    <2>2. \A j \in Created : ~Live(j) => Stage(j) = "dead"
      <3>1. \A j \in Jobs : proc[j] \in ProcType
        BY TypesByPart DEF JobTypes
      <3> QED
        BY <3>1 DEF AttemptsInOrder, AttemptJobs, Created, Live, Stage, ProcType
    <2>3. \A j \in sees'[q].listed \ sees'[q].active : Stage(j)' = "dead"
      BY <2>1, <2>2 DEF job, Stage
    <2>4. ASSUME sees'[q].active = {}, sees[q].status # NoStatus
          PROVE  Closed(sees[q].status.attempt + 1)
      <3> DEFINE b == sees[q].status.attempt
      <3>1. b \in Attempts /\ sees[q].status.job \in Of(b) /\ Attempts \subseteq Nat
        BY <1>i, <1>s, <2>4 DEF Watched, Reported, Statuses, Attempts
      <3>2. Closed(b) /\ Of(b) # {}
        BY <3>1, JobsOf DEF AttemptsInOrder, AttemptJobs, Created, Of
      <3>3. \A c \in Attempts : c < b + 1 => c < b \/ c = b
        <4> HIDE DEF b
        <4> QED
          BY <3>1
      <3>4. \A j \in Of(b) : Stage(j) = "dead"
        BY <2>1, <2>2, <2>4 DEF Of
      <3> HIDE DEF b
      <3>5. \A c \in Attempts : c < b + 1 => /\ Of(c) # {}
                                            /\ \A j \in Of(c) : Stage(j) = "dead"
        BY <3>2, <3>3, <3>4 DEF Closed
      <3> QED
        BY <3>5 DEF Closed, b
    <2>5. q \in Watchdogs
      BY <1>i, <2>1 DEF Watched
    <2> QED
      BY <1>k, <1>r, <2>1, <2>3, <2>4, <2>5 DEF Watched
  <1>6. CASE WatchCapacity(q)
    <2>1. /\ at[q] = "capacity" /\ at'[q] = "decide"
          /\ sees'[q].status = sees[q].status /\ sees'[q].active = sees[q].active
      BY <1>0, <1>6 DEF WatchCapacity, Go, LauncherTypes, SightType
    <2> QED
      BY <1>i, <1>k, <1>r, <2>1 DEF Watched
  <1> QED
    BY <1>1, <1>2, <1>3, <1>4, <1>5, <1>6, <1>e, LaunchersMove DEF Launch

(* Nothing has been launched.                                              *)
LEMMA ControllersInitInv == ControllersInit => ControllersInv
  <1> SUFFICES ASSUME ControllersInit PROVE ControllersInv
    OBVIOUS
  <1>0. 1 \in Attempts /\ Attempts \subseteq Nat /\ 0 \notin Attempts
    BY BoundsAssumption DEF Attempts
  <1>1. ControllersTypeOK
    <2>1. Unread \in SightType /\ NoStatus \in Statuses
      BY DEF Unread, SightType, Statuses
    <2>2. LauncherTypes
      BY <1>0, <2>1 DEF ControllersInit, LauncherTypes, StepType
    <2>3. RecordTypes
      BY <2>1 DEF ControllersInit, RecordTypes, NoLease, NoClaim, LeaseType
    <2>4. NoProc \in ProcType
      BY DEF NoProc, ProcType, States
    <2>5. JobTypes
      <3>1. faults \in 0..MaxFaults
        BY BoundsAssumption DEF ControllersInit
      <3>2. attemptOf \in [Jobs -> Attempts \cup {0}] /\ proc \in [Jobs -> ProcType]
        BY <2>4 DEF ControllersInit
      <3>3. late \subseteq Attempts /\ overran \in BOOLEAN
        BY DEF ControllersInit
      <3> QED
        BY <3>1, <3>2, <3>3 DEF JobTypes
    <2> QED
      BY <2>2, <2>3, <2>5, TypesByPart
  <1>2. Created = {} /\ Cardinality(Created) = 0
    BY FS_EmptySet DEF ControllersInit, Created
  <1>3. \A a \in Attempts : Of(a) = {}
    BY <1>2 DEF Of
  <1>4. AttemptJobs
    BY <1>2 DEF AttemptJobs, ControllersInit, Stage, NoProc
  <1>5. AttemptRecords
    BY DEF AttemptRecords, ControllersInit, Reported
  <1>6. ASSUME NEW p \in Launchers PROVE Watched(p) /\ Entitled(p)
    BY DEF Watched, Entitled, ControllersInit, Unread, Reported, Launching, Creating
  <1> QED
    BY <1>1, <1>4, <1>5, <1>6 DEF ControllersInv, AttemptsInOrder

(* History: once a launch outlived its lease, that is remembered.          *)
LEMMA OverranStays ==
    ASSUME [ControllersNext]_controllerVars, overran
    PROVE  overran'
  <1>1. ASSUME NEW p \in Launchers,
               Submit(p) \/ WatchRecords(p) \/ Launch(p) \/ LaunchFails(p) \/ Stop(p)
        PROVE  UNCHANGED overran
    BY <1>1 DEF Launch, Submit, WatchRecords, WatchJobs, WatchCapacity, Decide, WriteRecovery,
                Find, AcquireLease, Recheck, RecordLaunch, LaunchSucceeds, LaunchFails,
                ReleaseLease, Stop
  <1>2. ASSUME NEW j \in Jobs, Control(j) \/ Renew(j) \/ Kill(j) PROVE UNCHANGED overran
    BY <1>2 DEF Control, Renew, Kill, Acquire, RecoverCapacity, StartUp, Leave, Pause,
                ApplyLocally, BeginWave, RunWave, Raise, Finish, Unclaim
  <1> QED
    BY <1>1, <1>2
    DEF ControllersNext, Deliver, LeaseExpires, ClaimExpires, OtherWave, controllerVars

(* Every step keeps the order of the attempts.                             *)
LEMMA ControllersNextInv ==
    ASSUME ControllersInv, [ControllersNext]_controllerVars
    PROVE  ControllersInv'
  <1>1. ControllersTypeOK /\ ControllersTypeOK'
    BY ControllersTypesKept DEF ControllersInv
  <1>2. overran => overran'
    BY OverranStays
  <1>3. CASE overran'
    BY <1>1, <1>3 DEF ControllersInv
  <1>4. CASE ~overran'
    <2>1. AttemptsInOrder
      BY <1>2, <1>4 DEF ControllersInv
    <2>2. AttemptJobs'
      BY <1>1, <2>1, JobsMove, AttemptJobsKept
    <2>3. AttemptRecords'
      BY <1>1, <1>4, <2>1, StatusKept, ReceiptsKept, LateKept DEF AttemptRecords
    <2>4. ASSUME NEW p \in Launchers PROVE Watched(p)' /\ Entitled(p)'
      BY <1>1, <1>4, <2>1, WatchedKept, EntitledKept
    <2>5. AttemptsInOrder'
      BY <2>2, <2>3, <2>4 DEF AttemptsInOrder
    <2> QED
      BY <1>1, <2>5 DEF ControllersInv
  <1> QED
    BY <1>3, <1>4

(* The inductive invariant of the controllers holds throughout.            *)
THEOREM ControllersInvariance == ControllersSpec => []ControllersInv
  <1>1. ControllersInit => ControllersInv
    BY ControllersInitInv
  <1>2. ControllersInv /\ [ControllersNext]_controllerVars => ControllersInv'
    BY ControllersNextInv
  <1> QED
    BY <1>1, <1>2, PTL DEF ControllersSpec

(* Two Jobs of a campaign that are both alive are one Job.                 *)
LEMMA LiveIsOne ==
    ASSUME ControllersTypeOK, AttemptsInOrder, NEW j \in Jobs, NEW k \in Jobs, Live(j), Live(k)
    PROVE  j = k
  <1>0. attemptOf[j] \in Attempts \cup {0} /\ attemptOf[k] \in Attempts \cup {0}
    BY TypesByPart DEF JobTypes
  <1>1. j \in Created /\ k \in Created /\ Stage(j) # "dead" /\ Stage(k) # "dead"
    BY DEF AttemptsInOrder, AttemptJobs, Created, Live, Driving, Working
  <1>2. attemptOf[j] \in Attempts /\ attemptOf[k] \in Attempts
    BY <1>0, <1>1 DEF Created
  <1>3. Closed(attemptOf[j]) /\ Closed(attemptOf[k])
    BY <1>1 DEF AttemptsInOrder, AttemptJobs
  <1>4. j \in Of(attemptOf[j]) /\ k \in Of(attemptOf[k])
    BY <1>2, JobsOf
  <1>5. ~(attemptOf[j] < attemptOf[k]) /\ ~(attemptOf[k] < attemptOf[j])
    BY <1>1, <1>2, <1>3, <1>4 DEF Closed
  <1>6. attemptOf[j] = attemptOf[k]
    BY <1>2, <1>5 DEF Attempts
  <1> QED
    BY <1>1, <1>6 DEF AttemptsInOrder, AttemptJobs

(* However submissions and watchdogs interleave, stop, fail and read old   *)
(* records, the watchdog replaces a controller only after its Job has      *)
(* ended, and a launch is made once, unless one outlives its lease.        *)
THEOREM OneControllerLives == ControllersSpec => []OneLiveJob
  <1>1. ControllersInv => OneLiveJob
    <2> SUFFICES ASSUME ControllersInv, ~overran
                 PROVE  Cardinality({j \in Jobs : Live(j)}) <= 1
      BY DEF OneLiveJob
    <2> DEFINE live == {j \in Jobs : Live(j)}
    <2>1. \A j, k \in live : j = k
      BY LiveIsOne DEF ControllersInv
    <2>2. CASE live = {}
      BY <2>2, FS_EmptySet
    <2>3. ASSUME NEW j \in live PROVE Cardinality(live) <= 1
      <3>1. live = {j}
        BY <2>1, <2>3
      <3>2. Cardinality({j}) = 1
        BY FS_Singleton
      <3> HIDE DEF live
      <3> QED
        BY <3>1, <3>2
    <2> QED
      BY <2>2, <2>3
  <1> QED
    BY <1>1, ControllersInvariance, PTL

(* The provider capacity of a live Job is taken from it only by a watchdog *)
(* that listed the Jobs before this one was created.                       *)
LEMMA CapacityStays ==
    ASSUME ControllersInv, [ControllersNext]_controllerVars, ~overran', ~overran,
           NEW j \in Jobs, capacity = j, capacity' # j, Live(j), Stage(j)' = Stage(j)
    PROVE  \E p \in Watchdogs : at[p] = "capacity" /\ j \notin sees[p].listed
  <1>0. ControllersTypeOK /\ AttemptsInOrder
    BY DEF ControllersInv
  <1>1. Stage(j) # "dead" /\ j # Nobody /\ j # Other /\ j \in Created
    BY <1>0, BoundsAssumption
    DEF Live, Driving, Working, Jobs, Nobody, Other, AttemptsInOrder, AttemptJobs, Created
  <1>2. ASSUME NEW p \in Launchers, WatchCapacity(p)
        PROVE  p \in Watchdogs /\ at[p] = "capacity" /\ j \notin sees[p].listed
    <2>1. at[p] = "capacity" /\ j \notin sees[p].active
      BY <1>2 DEF WatchCapacity, Abandoned
    <2>2. Watched(p)
      BY <1>0 DEF AttemptsInOrder
    <2> QED
      BY <1>1, <2>1, <2>2 DEF Watched
  <1>3. ASSUME NEW p \in Launchers,
               \/ Submit(p) \/ WatchRecords(p) \/ WatchJobs(p) \/ Decide(p) \/ WriteRecovery(p)
               \/ Find(p) \/ AcquireLease(p) \/ Recheck(p) \/ RecordLaunch(p)
               \/ LaunchSucceeds(p) \/ LaunchFails(p) \/ ReleaseLease(p) \/ Stop(p)
        PROVE  UNCHANGED capacity
    BY <1>3 DEF Submit, WatchRecords, WatchJobs, Decide, WriteRecovery, Find, AcquireLease,
                Recheck, RecordLaunch, LaunchSucceeds, LaunchFails, ReleaseLease, Stop, records
  <1>4. ASSUME NEW k \in Jobs, Control(k) \/ Renew(k) \/ Kill(k) PROVE FALSE
    <2>1. CASE RecoverCapacity(k)
      <3>1. attemptOf[j] < attemptOf[k] /\ Live(k)
        BY <1>1, <2>1 DEF RecoverCapacity, Live, Driving, Working
      <3>2. j = k
        BY <1>0, <3>1, LiveIsOne
      <3>3. attemptOf[j] \in Nat
        BY <1>0, TypesByPart DEF JobTypes, Attempts
      <3> QED
        BY <3>1, <3>2, <3>3
    <2>2. CASE RunWave(k) \/ Raise(k)
      <3>1. k = j /\ proc \in [Jobs -> ProcType]
        BY <1>0, <1>1, <2>2, TypesByPart DEF RunWave, Raise, JobTypes
      <3>2. Stage(j) = "wave"
        BY <2>2, <3>1 DEF RunWave, Raise
      <3>3. To(j, "loop") \/ \E s \in {"retryable", "approval"} : ToFinish(j, s)
        BY <2>2, <3>1 DEF RunWave, Raise, ExecuteWave
      <3> QED
        BY <3>1, <3>2, <3>3 DEF To, ToFinish, Stage, ProcType
    <2>3. CASE \/ Acquire(k) \/ StartUp(k) \/ Leave(k) \/ Pause(k) \/ ApplyLocally(k)
               \/ Finish(k) \/ Unclaim(k) \/ Renew(k) \/ Kill(k)
      BY <2>3 DEF Acquire, StartUp, Leave, Pause, ApplyLocally, Finish, Unclaim, Renew, Kill,
                  records
    <2>4. CASE BeginWave(k)
      BY <1>1, <2>4 DEF BeginWave
    <2> QED
      BY <1>4, <2>1, <2>2, <2>3, <2>4 DEF Control
  <1>5. ASSUME \/ \E b \in Attempts : Deliver(b) \/ LeaseExpires(b)
               \/ ClaimExpires \/ UNCHANGED controllerVars
        PROVE  UNCHANGED capacity
    BY <1>5 DEF Deliver, LeaseExpires, ClaimExpires, controllerVars, records
  <1>6. ~OtherWave
    BY <1>1 DEF OtherWave
  <1> QED
    BY <1>2, <1>3, <1>4, <1>5, <1>6 DEF ControllersNext, Launch

(* A live Job keeps its claim on the provider's capacity, for any number   *)
(* of launchers, attempts and Jobs.                                        *)
THEOREM LiveJobsKeepCapacity == ControllersSpec => CapacityKept
  <1> DEFINE Kept ==
        \A j \in Jobs :
          /\ ~overran' /\ capacity = j /\ capacity' # j /\ Live(j)
          /\ Stage(j)' = Stage(j)
          => \E p \in Watchdogs : at[p] = "capacity" /\ j \notin sees[p].listed
  <1>1. ControllersInv /\ [ControllersNext]_controllerVars
          => [Kept]_controllerVars
    <2> SUFFICES ASSUME ControllersInv, [ControllersNext]_controllerVars, NEW j \in Jobs,
                        ~overran', capacity = j, capacity' # j, Live(j), Stage(j)' = Stage(j)
                 PROVE  \E p \in Watchdogs : at[p] = "capacity" /\ j \notin sees[p].listed
      OBVIOUS
    <2>1. ~overran
      BY OverranStays
    <2> QED
      BY <2>1, CapacityStays
  <1> QED
    BY <1>1, ControllersInvariance, PTL DEF ControllersSpec, CapacityKept
=============================================================================
