----------------------------- MODULE WaveWorker -----------------------------
(***************************************************************************)
(* A wave Job: shards and trials executed by two thread pools, each trial  *)
(* with a provider route and a judge scope in recorders that serve its     *)
(* requests on their own threads, and evidence units (execution, trial,    *)
(* shard, wave) published into a Bucket with the marker last.  The Job may *)
(* be killed between any two steps; the next wave of the campaign starts   *)
(* from what the Bucket holds.                                             *)
(*                                                                         *)
(* Endpoint resume and cleanup are EndpointLease's; a prepared transport   *)
(* is an action here.  Payloads, secrets and checksums are left out: two   *)
(* units differ when their judge records do.  A trial's provider route is  *)
(* registered by BeginExecution and revoked by FinishRoutes; its requests  *)
(* leave a log that no step here reads.                                    *)
(***************************************************************************)
EXTENDS Naturals, Sequences, FiniteSets

CONSTANTS
  Trials,
  Shardings,     \* functions from Trials to the shard they belong to
  PoolOf,        \* sharding -> max_concurrent_shards, the size of both pools
  Judged,        \* trials whose verifier calls the judge
  MaxCalls,      \* judge_max_calls_per_execution
  MaxWaves,      \* bound on the waves of the campaign
  MaxKills       \* bound on Jobs that are killed

ASSUME WorkerAssumption ==
  /\ IsFiniteSet(Trials) /\ Judged \subseteq Trials /\ PoolOf \in [Shardings -> Nat \ {0}] /\ MaxCalls \in Nat
  /\ MaxWaves \in Nat /\ MaxKills \in Nat

VARIABLES
  sharding,
  \* --- the Bucket
  execs,      \* trial -> its published executions, in order
  partial,    \* trials with an execution published without its marker
  unit,       \* trial -> "none", "partial", "complete" (no marker) or "success"
  shardMark,  \* shards with _SUCCESS
  waveMark,   \* wave -> "none", "success" or "failed"
  \* --- the Job
  wave,       \* [id, pc, selected, failed]
  shard,      \* shard -> "idle", "running", "succeeded", "deferred", "failed"
  th,         \* trial -> the thread of its execution
  \* --- the recorders
  scope,      \* trial -> the judge scope is registered
  call,       \* trial -> the request a recorder thread is serving
  rec,        \* trial -> counters, exchange directories and summary of the recorder
  kills

bucket == <<execs, partial, unit, shardMark, waveMark>>
recorders == <<scope, call, rec>>
vars == <<sharding, bucket, wave, shard, th, recorders, kills>>

Shards == {sharding[t] : t \in Trials}
Pool == PoolOf[sharding]
TrialsOf(s) == {t \in Trials : sharding[t] = s}

NoThread == [pc |-> "idle", attempt |-> 0, error |-> "none", revoked |-> FALSE,
             sealed |-> {}]
NoRecord == [active |-> 0, count |-> 0, rejected |-> 0, bad |-> FALSE, dirs |-> {},
             summary |-> [written |-> FALSE, count |-> 0, rejected |-> 0],
             moved |-> FALSE, strays |-> {}, raced |-> FALSE]

ThreadSteps == {"idle", "recovered", "deferred", "queued", "harbor", "revoke", "drain",
                "assemble", "finish", "finish-drain", "seal", "publish", "mark", "unit",
                "unit-mark", "done", "local", "raised"}

TypeOK ==
  /\ sharding \in Shardings
  /\ \A t \in Trials : \A i \in DOMAIN execs[t] :
       execs[t][i] \in [ok : BOOLEAN, attempt : Nat, counted : BOOLEAN, raced : BOOLEAN]
  /\ partial \subseteq Trials
  /\ unit \in [Trials -> {"none", "partial", "complete", "success"}]
  /\ shardMark \subseteq Shards
  /\ waveMark \in [1..MaxWaves -> {"none", "success", "failed"}]
  /\ wave \in [id : 0..MaxWaves, selected : SUBSET Trials,
               pc : {"off", "starting", "running", "cleanup", "ended", "dead"},
               failed : BOOLEAN]
  /\ \A t \in Trials : th[t].pc \in ThreadSteps
  /\ scope \in [Trials -> BOOLEAN]
  /\ call \in [Trials -> {"none", "looked", "begun"}]
  /\ kills \in 0..MaxKills

Init ==
  /\ sharding \in Shardings
  /\ execs = [t \in Trials |-> <<>>] /\ partial = {}
  /\ unit = [t \in Trials |-> "none"]
  /\ shardMark = {} /\ waveMark = [w \in 1..MaxWaves |-> "none"]
  /\ wave = [id |-> 0, pc |-> "off", selected |-> Trials, failed |-> FALSE]
  /\ shard = [s \in Shards |-> "idle"]
  /\ th = [t \in Trials |-> NoThread] 
  /\ scope = [t \in Trials |-> FALSE]
  /\ call = [t \in Trials |-> "none"]
  /\ rec = [t \in Trials |-> NoRecord]
  /\ kills = 0

Goto(t, pc) == th' = [th EXCEPT ![t].pc = pc]
Fail(t, pc, category) == th' = [th EXCEPT ![t].pc = pc, ![t].error = category]
-----------------------------------------------------------------------------
(* The wave.                                                               *)

(* The first wave runs every trial; a later one retries unfinished trials
   of shards that have no marker. *)
SubmitWave(selected) ==
  /\ wave.pc \in {"off", "ended", "dead"} /\ wave.id < MaxWaves
  /\ selected # {} /\ \A t \in selected : unit[t] # "success" /\ sharding[t] \notin shardMark
  /\ wave.id = 0 => selected = Trials
  /\ wave' = [id |-> wave.id + 1, pc |-> "starting", selected |-> selected, failed |-> FALSE]
  /\ shard' = [s \in Shards |-> IF \E t \in selected : sharding[t] = s THEN "queued" ELSE "idle"]
  /\ th' = [t \in Trials |-> NoThread] 
  /\ scope' = [t \in Trials |-> FALSE]
  /\ call' = [t \in Trials |-> "none"] /\ rec' = [t \in Trials |-> NoRecord]
  /\ UNCHANGED <<sharding, bucket, kills>>

(* Sources, provider proxy and judge recorder are ready, or the wave goes
   straight to its cleanup. *)
PrepareTransport ==
  /\ wave.pc = "starting"
  /\ \/ wave' = [wave EXCEPT !.pc = "running"]
     \/ wave' = [wave EXCEPT !.pc = "cleanup", !.failed = TRUE]
  /\ UNCHANGED <<sharding, bucket, shard, th, recorders, kills>>

RunningShards == Cardinality({s \in Shards : shard[s] = "running"})
Busy == {"harbor", "revoke", "drain", "assemble", "finish", "finish-drain", "seal",
         "publish", "mark", "unit", "unit-mark"}
BusyThreads == Cardinality({t \in Trials : th[t].pc \in Busy})

ShardsDone == \A s \in Shards : shard[s] \notin {"queued", "running"}

(* The cleanup closes both recorders, whatever happened.                   *)
CleanupTransport ==
  /\ wave.pc = "running" /\ ShardsDone
  /\ wave' = [wave EXCEPT !.pc = "cleanup",
                          !.failed = \E s \in Shards : shard[s] = "failed"]
  /\ scope' = [t \in Trials |-> FALSE]
  /\ UNCHANGED <<sharding, bucket, shard, th, call, rec, kills>>

PublishWave ==
  /\ wave.pc = "cleanup"
  /\ waveMark' = [waveMark EXCEPT ![wave.id] = IF wave.failed THEN "failed" ELSE "success"]
  /\ wave' = [wave EXCEPT !.pc = "ended"]
  /\ UNCHANGED <<sharding, execs, partial, unit, shardMark, shard, th, recorders, kills>>

(* The Job is killed: its directory, threads and recorders are gone.       *)
JobKilled ==
  /\ wave.pc \in {"starting", "running", "cleanup"}
  /\ kills < MaxKills /\ kills' = kills + 1
  /\ wave' = [wave EXCEPT !.pc = "dead"]
  /\ shard' = [s \in Shards |-> "idle"] /\ th' = [t \in Trials |-> NoThread]
  /\ scope' = [t \in Trials |-> FALSE]
  /\ call' = [t \in Trials |-> "none"] /\ rec' = [t \in Trials |-> NoRecord]
  /\ UNCHANGED <<sharding, bucket>>
-----------------------------------------------------------------------------
(* A shard.                                                                *)

(* A trial with all its files but the marker is completed; one with less
   has to be executed. *)
Recovered(t) == unit[t] \in {"complete", "success"}

(* Trials a retry did not select wait for another wave.                    *)
Deferred(t) == ~ Recovered(t) /\ t \notin wave.selected

PartialKept(s) == partial

(* Executions without a marker are removed and the terminal ones kept.     *)
PartialRemoved(s) == partial \ {t \in TrialsOf(s) : ~ Recovered(t) /\ ~ Deferred(t)}

StartShard(s) ==
  /\ wave.pc = "running" /\ shard[s] = "queued" /\ RunningShards < Pool
  /\ shard' = [shard EXCEPT ![s] = "running"]
  /\ th' = [t \in Trials |->
              IF t \notin TrialsOf(s) THEN th[t]
              ELSE [NoThread EXCEPT !.pc = IF Recovered(t) THEN "recovered"
                                           ELSE IF Deferred(t) THEN "deferred" ELSE "queued"]]
  /\ unit' = [t \in Trials |-> IF t \in TrialsOf(s) /\ Recovered(t) THEN "success" ELSE unit[t]]
  /\ partial' = PartialRemoved(s)
  /\ UNCHANGED <<sharding, execs, shardMark, waveMark, wave, recorders, kills>>

Finished == {"recovered", "deferred", "done", "local", "raised"}

ShardResultLenient(s) ==
  IF \E t \in TrialsOf(s) : th[t].pc = "raised" THEN "failed" ELSE "succeeded"

(* A raised error fails the shard; a deferred or task-local one leaves it
   without a marker. *)
ShardResult(s) ==
  IF \E t \in TrialsOf(s) : th[t].pc = "raised" THEN "failed"
  ELSE IF \E t \in TrialsOf(s) : th[t].pc \in {"deferred", "local"} THEN "deferred"
  ELSE "succeeded"

EndShard(s) ==
  /\ shard[s] = "running" /\ \A t \in TrialsOf(s) : th[t].pc \in Finished
  /\ shard' = [shard EXCEPT ![s] = ShardResult(s)]
  /\ shardMark' = IF ShardResult(s) = "succeeded" THEN shardMark \cup {s} ELSE shardMark
  /\ UNCHANGED <<sharding, execs, partial, unit, waveMark, wave, th, recorders, kills>>
-----------------------------------------------------------------------------
(* The execution of a trial.                                               *)

SlotFreeSharedPool == BusyThreads + RunningShards < Pool

(* The trial pool is not the one the shards wait in.                       *)
SlotFree == BusyThreads < Pool

(* The execution numbers itself after the executions it finds locally.     *)
BeginExecution(t) ==
  /\ th[t].pc = "queued" /\ SlotFree
  /\ th' = [th EXCEPT ![t].pc = "harbor",
              ![t].attempt = Len(execs[t]) + (IF t \in partial THEN 2 ELSE 1)]
  /\ scope' = [scope EXCEPT ![t] = TRUE]
  /\ UNCHANGED <<sharding, bucket, wave, shard, call, rec, kills>>

(* What the evidence of a failed execution says about it: the category the
   exception's name, a Sandbox error or the agent's log points to. *)
Hints == {"none", "authentication", "rate-limit", "quota", "transient", "configuration", "benchmark"}

FailureKinds == {"evidence", "verification", "reward", "sandbox", "agent-exit", "agent", "typed", "other"}

FailureCategory(kind, phase, hint) ==
  CASE kind = "evidence" -> "evidence"
    [] kind \in {"verification", "reward"} -> "benchmark"
    [] kind \in {"typed", "sandbox"} -> IF hint = "none" THEN "benchmark" ELSE hint
    [] kind \in {"agent-exit", "agent"} -> IF hint = "none" THEN "agent" ELSE hint
    [] OTHER -> IF hint # "none" THEN hint
                ELSE CASE phase = "configuration" -> "configuration"
                       [] phase = "execution" -> "transient"
                       [] OTHER -> "benchmark"

(* The agent's and the benchmark's failures stay with the trial; the others
   are raised. *)
Handled(category) == IF category \in {"agent", "benchmark"} THEN "local" ELSE "raised"

(* Preparing, running and exporting fail in their own ways: only a finished
   Harbor run has results that name a failure. *)
HarborFailures ==
  {<<"other", "configuration">>, <<"other", "execution">>}
    \cup ({"verification", "reward", "sandbox", "agent-exit", "agent", "typed"} \X {"execution"})

HarborErrors ==
  {Handled(FailureCategory(f[1], f[2], hint)) : f \in HarborFailures, hint \in Hints}

(* The adapter prepares and runs Harbor up to the deadline; the judge route
   is revoked after a run that exits with 0. *)
HarborEnds(t) ==
  /\ th[t].pc = "harbor"
  /\ \/ Goto(t, "revoke")
     \/ \E result \in HarborErrors : Fail(t, "finish", result)
  /\ UNCHANGED <<sharding, bucket, wave, shard, recorders, kills>>

(* revoke_scope: no request finds the scope any more; the calls that began
   are waited for, up to the judge's timeout. *)
RevokeScope(t, from, to) ==
  /\ th[t].pc = from /\ Goto(t, to)
  /\ scope' = [scope EXCEPT ![t] = FALSE]
  /\ UNCHANGED <<sharding, bucket, wave, shard, call, rec, kills>>

CloseSummary(t) ==
  rec' = [rec EXCEPT ![t].summary = [written |-> TRUE, count |-> rec[t].count,
                                     rejected |-> rec[t].rejected],
                     ![t].count = 0, ![t].rejected = 0]

CallsDrainedAtOnce(t) == TRUE

CallsDrained(t) == rec[t].active = 0

RevokeJudge(t) ==
  \/ RevokeScope(t, "revoke", "drain")
  \/ /\ th[t].pc = "drain"
     /\ \/ CallsDrained(t) /\ CloseSummary(t)
           /\ th' = [th EXCEPT ![t].pc = "assemble", ![t].revoked = TRUE]
        \/ rec[t].active # 0 /\ UNCHANGED rec /\ Fail(t, "finish", Handled(FailureCategory("evidence", "verification", "none")))
     /\ UNCHANGED <<sharding, bucket, wave, shard, scope, call, kills>>

(* The evidence is complete when the recorder rejected nothing, every
   exchange succeeded and as many were recorded as it counted. *)
EvidenceComplete(t) ==
  /\ rec[t].summary.written /\ rec[t].summary.rejected = 0 /\ ~ rec[t].bad
  /\ Cardinality(rec[t].dirs) = rec[t].summary.count

(* Other parts of the bundle may be missing or invalid as well.            *)
EvidenceErrors(t) ==
  {Handled(FailureCategory(IF EvidenceComplete(t) THEN "other" ELSE "evidence",
                           "verification", "none"))}

AssembleEvidence(t) ==
  /\ th[t].pc = "assemble"
  /\ rec' = [rec EXCEPT ![t].moved = TRUE]
  /\ \/ EvidenceComplete(t) /\ Goto(t, "finish")
     \/ \E result \in EvidenceErrors(t) : Fail(t, "finish", result)
  /\ UNCHANGED <<sharding, bucket, wave, shard, scope, call, kills>>

(* The finally block revokes the provider route and, unless that was done,
   the judge scope; a scope that is gone already is not closed twice. *)
FinishRoutes(t) ==
  \/ /\ th[t].pc = "finish"
     /\ scope' = [scope EXCEPT ![t] = FALSE]
     /\ Goto(t, IF th[t].revoked \/ ~ scope[t] THEN "seal" ELSE "finish-drain")
     /\ UNCHANGED <<call, rec>>
     /\ UNCHANGED <<sharding, bucket, wave, shard, kills>>
  \/ /\ th[t].pc = "finish-drain"
     /\ \/ CallsDrained(t) /\ CloseSummary(t)
        \/ rec[t].active # 0 /\ UNCHANGED rec
     /\ Goto(t, "seal")
     /\ UNCHANGED <<sharding, bucket, wave, shard, scope, call, kills>>

(* Checksums cover what the execution directory holds now.                 *)
Checksummed(t) == rec[t].strays

(* The failure is recorded, the directory scrubbed and checksummed, and the
   local marker written. *)
SealExecution(t) ==
  /\ th[t].pc = "seal"
  /\ th' = [th EXCEPT ![t].pc = "publish", ![t].sealed = Checksummed(t)]
  /\ UNCHANGED <<sharding, bucket, wave, shard, recorders, kills>>

(* The unit is verified, copied, verified again; its marker is last.       *)
PublishExecution(t) ==
  \/ /\ th[t].pc = "publish"
     /\ IF rec[t].strays = th[t].sealed
        THEN partial' = partial \cup {t} /\ Goto(t, "mark")
        ELSE UNCHANGED partial /\ Goto(t, "raised")
     /\ UNCHANGED <<execs, unit>>
     /\ UNCHANGED <<sharding, shardMark, waveMark, wave, shard, recorders, kills>>
  \/ /\ th[t].pc = "mark"
     /\ partial' = partial \ {t}
     /\ execs' = [execs EXCEPT ![t] =
          Append(@, [ok |-> th[t].error = "none", attempt |-> th[t].attempt,
                     counted |-> rec[t].summary.count =
                                   Cardinality(rec[t].dirs) + Cardinality(th[t].sealed),
                     raced |-> rec[t].raced])]
     /\ th' = [th EXCEPT ![t] =
          [NoThread EXCEPT !.pc = CASE th[t].error = "none" -> "unit"
                                    [] th[t].error = "local" -> "local"
                                    [] OTHER -> "raised"]]
     /\ rec' = [rec EXCEPT ![t] = NoRecord] /\ call' = [call EXCEPT ![t] = "none"]
     /\ UNCHANGED <<unit, sharding, shardMark, waveMark, wave, shard, scope, kills>>

(* The trial's own unit: its summary names the execution just published.   *)
PublishTrial(t) ==
  /\ \/ th[t].pc = "unit" /\ unit[t] \in {"none", "partial"}
        /\ \/ unit' = [unit EXCEPT ![t] = "partial"] /\ UNCHANGED th
           \/ unit' = [unit EXCEPT ![t] = "complete"] /\ Goto(t, "unit-mark")
     \/ th[t].pc = "unit-mark"
        /\ unit' = [unit EXCEPT ![t] = "success"] /\ Goto(t, "done")
  /\ UNCHANGED <<sharding, execs, partial, shardMark, waveMark, wave, shard, recorders, kills>>
-----------------------------------------------------------------------------
(* A request of a trial's verifier, on a recorder thread of its own.       *)

RecorderOnly == UNCHANGED <<sharding, bucket, wave, shard, th, scope, kills>>

(* The scope is looked up, and the lock given back before the call counts
   as active. *)
CallLooksUp(t) ==
  /\ th[t].pc = "harbor" /\ scope[t] /\ t \in Judged /\ call[t] = "none" /\ rec[t].count < MaxCalls + 1
  /\ rec[t].rejected = 0 /\ ~ rec[t].bad
  /\ call' = [call EXCEPT ![t] = "looked"]
  /\ UNCHANGED rec /\ RecorderOnly

CallBegins(t) ==
  /\ call[t] = "looked" /\ wave.pc # "dead"
  /\ call' = [call EXCEPT ![t] = "begun"]
  /\ rec' = [rec EXCEPT ![t].active = @ + 1, ![t].raced = @ \/ rec[t].summary.written]
  /\ RecorderOnly

(* A request that is refused, or beyond the limit, is counted as rejected.  *)
CallRejected(t) ==
  /\ call[t] = "begun"
  /\ call' = [call EXCEPT ![t] = "none"]
  /\ rec' = [rec EXCEPT ![t].rejected = @ + 1, ![t].active = @ - 1]
  /\ RecorderOnly

(* The exchange is numbered and written into the directory the scope names,
   which is made again when the evidence was moved away.  A number that is
   taken is not written twice. *)
CallRecords(t) ==
  /\ call[t] = "begun" /\ rec[t].count < MaxCalls
  /\ call' = [call EXCEPT ![t] = "none"]
  /\ \E bad \in BOOLEAN :
       LET number == rec[t].count + 1 IN
       rec' = [rec EXCEPT ![t].active = @ - 1, ![t].count = number,
                          ![t].dirs = IF rec[t].moved THEN @ ELSE @ \cup {number},
                          ![t].strays = IF rec[t].moved THEN @ \cup {number} ELSE @,
                          ![t].bad = @ \/ (bad /\ ~ rec[t].moved)]
  /\ RecorderOnly
-----------------------------------------------------------------------------
TrialStep(t) ==
  \/ BeginExecution(t) \/ HarborEnds(t) \/ RevokeJudge(t) \/ AssembleEvidence(t)
  \/ FinishRoutes(t) \/ SealExecution(t) \/ PublishExecution(t) \/ PublishTrial(t)
CallStep(t) == CallBegins(t) \/ CallRejected(t) \/ CallRecords(t)
WaveStep == PrepareTransport \/ CleanupTransport \/ PublishWave

Next ==
  \/ \E selected \in SUBSET Trials : SubmitWave(selected)
  \/ WaveStep \/ JobKilled
  \/ \E s \in Shards : StartShard(s) \/ EndShard(s)
  \/ \E t \in Trials : TrialStep(t) \/ CallLooksUp(t) \/ CallStep(t)

(* Threads of a running Job are scheduled and Harbor ends by its timeout.  *)
Fairness ==
  /\ WF_vars(WaveStep)
  /\ WF_vars(\E s \in Shards : StartShard(s) \/ EndShard(s))
  /\ \A t \in Trials : WF_vars(TrialStep(t)) /\ WF_vars(CallStep(t))

Spec == Init /\ [][Next]_vars /\ Fairness
-----------------------------------------------------------------------------
(* The executions of a trial, over every wave and restart, are numbered by
   their physical attempt without a gap or a repetition. *)
AttemptsAreContiguous ==
  \A t \in Trials : \A i \in DOMAIN execs[t] : execs[t][i].attempt = i

(* A unit's marker never precedes what it stands for: a trial's success has
   a successful execution, and a shard's marker only successful trials. *)
MarkersInOrder ==
  /\ \A t \in Trials : unit[t] # "none" => \E i \in DOMAIN execs[t] : execs[t][i].ok
  /\ \A s \in shardMark : \A t \in TrialsOf(s) : unit[t] = "success"

(* A successful execution's judge records are those its recorder counted,
   unless a request that found the scope began after the scope was closed:
   the lookup and the count of active calls are two critical sections. *)
JudgeRecordsAreCounted ==
  \A t \in Trials : \A i \in DOMAIN execs[t] :
     execs[t][i].ok /\ ~ execs[t][i].raced => execs[t][i].counted

(* A wave that started ends, with its marker published or its Job killed.  *)
WaveEnds == wave.pc = "running" ~> wave.pc \in {"ended", "dead"}
=============================================================================
