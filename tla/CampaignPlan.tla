----------------------------- MODULE CampaignPlan -----------------------------
(* From a manifest to waves: build_campaign_plan chunks the trials of every  *)
(* run into shards and the shards of a deployment into planned waves;        *)
(* build_campaign_lock gives runs and shards their identities and chunks     *)
(* them again; the reconciler chunks what is left of them every time it      *)
(* proposes a wave, and the provider controller looks its proposal up among  *)
(* the locked waves. Identities are digests: their order is arbitrary.       *)
EXTENDS Integers, Sequences, FiniteSets, FiniteSetsExt

CONSTANTS
    Orders(_, _),  \* the identity orders to consider for these runs and shards
    MaxFailures,   \* bound: shards with a trial to retry
    MaxCuts        \* bound: waves cut short

ASSUME PlanBounds == MaxFailures \in Nat /\ MaxCuts \in Nat

\* What the manifest's own validation leaves through (ExperimentSpec).
ManifestFields ==
    {"cells", "digest", "tasks", "selected", "attempts", "shardSize", "perWave", "providers",
     "policy", "concurrent", "limit", "profile", "measured", "trialSeconds", "headroom",
     "reserve", "controllerReserve", "waveTimeout", "jobTimeout", "waveCost"}
IsManifest(m) ==
    /\ DOMAIN m = ManifestFields /\ m.cells \in Seq(DOMAIN m.digest) /\ IsFiniteSet(m.tasks)
    /\ {m.attempts, m.shardSize, m.perWave, m.concurrent, m.limit, m.trialSeconds, m.reserve,
        m.waveTimeout, m.headroom[1], m.headroom[2]} \subseteq Nat \ {0}
    /\ m.profile \in Nat

VARIABLES
    spec,     \* the manifest
    phase,    \* "profiling", "manifest", "planned", "locked", "rejected" or "error"
    lock,     \* the campaign lock: the orders of its identities, its waves
    shards,   \* per shard: "planned", "retry" or "done"
    wave,     \* the wave that runs
    losses    \* [failures, cuts] so far

cvars == <<spec, phase, lock, shards, wave, losses>>

NoWave == [kind |-> "none", g |-> "", shards |-> {}, trials |-> 0, seconds |-> 0, cost |-> 0]
NoLock == [runs |-> <<>>, ids |-> <<>>, waves |-> {}]

CeilDiv(a, b) == (a + b - 1) \div b

-----------------------------------------------------------------------------
(* The plan. A cell is a model and deployment pair with an agent; the digest *)
(* of the pair is its deployment digest.                                     *)
Runs == 1..Len(spec.cells)
DigestOf(i) == spec.digest[spec.cells[i]]
Deployments == {DigestOf(i) : i \in Runs}

\* The task digests resolve the selections exactly.
ResolvedTasks == spec.tasks # {} /\ spec.tasks = spec.selected

\* One model and deployment pair per digest.
ValidCells == \A i, j \in Runs : DigestOf(i) = DigestOf(j) => spec.cells[i] = spec.cells[j]

TrialCount == Cardinality(spec.tasks) * spec.attempts
ShardCount == CeilDiv(TrialCount, spec.shardSize)

\* Every run has the same shards: full ones, and what is left.
ShardSize(s) == IF s[2] < ShardCount THEN spec.shardSize
                ELSE TrialCount - (ShardCount - 1) * spec.shardSize
Shards == Runs \X (1..ShardCount)
ShardsOf(g) == {s \in Shards : DigestOf(s[1]) = g}
Trials(S) == SumFunctionOnSet([s \in Shards |-> ShardSize(s)], S)

\* Chunks of at most max_shards_per_wave shards, in the order given: a set of
\* pairs, the first before the second.
Rank(S, order, s) == Cardinality({r \in S : <<r, s>> \in order})
Place(S, order, s) == Rank(S, order, s) \div spec.perWave
Chunked(S, order) ==
    {{s \in S : Place(S, order, s) = Place(S, order, t)} : t \in S}

PlanOrder ==
    {p \in Shards \X Shards : LET r == p[1] s == p[2]
                              IN r[1] < s[1] \/ (r[1] = s[1] /\ r[2] < s[2])}
PlannedWaves(g) == Chunked(ShardsOf(g), PlanOrder)

Provider(g) == g \in spec.providers
ControllerPolicy ==
    IF Deployments \subseteq spec.providers THEN spec.policy
    ELSE spec.providers \cap Deployments = {} /\ ~spec.policy

\* The least of the trial, provider and profile limits.
Concurrency == Min({spec.concurrent, spec.limit,
                    IF spec.profile = 0 THEN spec.concurrent ELSE spec.profile})

\* planned_provider_wave_seconds: batches of trials, headroom, the reserve.
WaveSeconds(trials) ==
    CeilDiv(CeilDiv(trials, Concurrency) * spec.trialSeconds * spec.headroom[1],
            spec.headroom[2]) + spec.reserve

PlannedSecondsLeast(g) == Min({WaveSeconds(Trials(w)) : w \in PlannedWaves(g)})

\* Every wave of a deployment is planned as long as its longest.
PlannedSeconds(g) == Max({WaveSeconds(Trials(w)) : w \in PlannedWaves(g)})

CampaignSeconds ==
    MapThenSumSet(LAMBDA g : Cardinality(PlannedWaves(g)) * PlannedSeconds(g), Deployments)
      + spec.controllerReserve

ControllerPlan ==
    Deployments \subseteq spec.providers =>
        /\ \A g \in Deployments : PlannedSeconds(g) <= spec.waveTimeout
        /\ CampaignSeconds <= spec.jobTimeout

\* A serving profile is bound to one cell, at the trial concurrency of the
\* manifest, and was measured for this experiment (its digests and limits).
ProfileBinding ==
    spec.profile # 0 =>
        Len(spec.cells) = 1 /\ spec.concurrent = spec.profile /\ spec.measured

BuildCampaignPlan ==
    /\ phase = "manifest"
    /\ phase' = IF ProfileBinding /\ ResolvedTasks /\ ValidCells
                     /\ ControllerPolicy /\ ControllerPlan
                THEN "planned" ELSE "rejected"
    /\ UNCHANGED <<spec, lock, shards, wave, losses>>

-----------------------------------------------------------------------------
(* The lock.                                                                *)
ShardOrder(l) == {p \in Shards \X Shards : l.ids[p[1]] < l.ids[p[2]]}
RunOrder(l) ==
    {p \in Shards \X Shards : LET r == p[1][1] s == p[2][1]
                              IN l.runs[r] < l.runs[s] \/ (r = s /\ p \in ShardOrder(l))}

LockedInitialWaves(l) ==
    IF ~(Deployments \subseteq spec.providers) THEN {}
    ELSE UNION {{[g |-> g, shards |-> c, trials |-> Trials(c), seconds |-> PlannedSeconds(g)] :
                    c \in Chunked(ShardsOf(g), RunOrder(l))} :
                g \in Deployments}

\* Digests of different runs, or shards, differ.
Identities(o) == o.runs \in Injection(Runs, Nat) /\ o.ids \in Injection(Shards, Nat)

BuildCampaignLock ==
    /\ phase = "planned"
    /\ \E o \in Orders(Runs, Shards) :
          LET l == [NoLock EXCEPT !.runs = o.runs, !.ids = o.ids]
          IN Identities(o) /\ lock' = [l EXCEPT !.waves = LockedInitialWaves(l)]
    /\ phase' = "locked" /\ shards' = [s \in Shards |-> "planned"]
    /\ UNCHANGED <<spec, wave, losses>>

-----------------------------------------------------------------------------
(* Waves.                                                                   *)
NewShards(g) == {s \in ShardsOf(g) : shards[s] = "planned"}
RetryShards(g) == {s \in ShardsOf(g) : shards[s] = "retry"}

NewWavesByShard(g) == Chunked(NewShards(g), ShardOrder(lock))

NewWaves(g) == Chunked(NewShards(g), RunOrder(lock))
RetryWaves(g) == Chunked(RetryShards(g), ShardOrder(lock))

\* estimated_partial_wave_cost: the capacity of a wave is that of the largest
\* chunk of all shards of the deployment in shard order.
PartialWaveCost(g, n) ==
    LET capacity == Max({Trials(c) : c \in Chunked(ShardsOf(g), ShardOrder(lock))})
    IN Max({1, CeilDiv(spec.waveCost * n, capacity)})

\* locked_provider_action_seconds of a first wave: exactly one locked wave has
\* these shards.
Matches(g, S) == {w \in lock.waves : w.g = g /\ w.shards = S}

\* _validate_submit_wave_action, _selected_wave_shards and the bounds of WaveLock
WaveLockable(g, S, n) ==
    /\ S # {} /\ Cardinality(S) <= spec.perWave /\ n \in 1..Trials(S)
    /\ \A s \in S : DigestOf(s[1]) = g

Start(g, S, kind, n, seconds, cost) ==
    IF WaveLockable(g, S, n) /\ seconds > 0
    THEN /\ wave' = [kind |-> kind, g |-> g, shards |-> S, trials |-> n,
                     seconds |-> seconds, cost |-> cost]
         /\ UNCHANGED phase
    ELSE phase' = "error" /\ UNCHANGED wave

Idling == phase = "locked" /\ wave = NoWave

\* A retry goes before a new wave.
SubmitWave ==
    /\ Idling /\ \A g \in Deployments : RetryShards(g) = {}
    /\ \E g \in Deployments : \E S \in NewWaves(g) :
          LET found == Matches(g, S)
              seconds == IF ~Provider(g) THEN spec.waveTimeout
                         ELSE IF Cardinality(found) # 1 THEN 0
                         ELSE (CHOOSE w \in found : TRUE).seconds
          IN Start(g, S, "submit-wave", Trials(S), seconds, spec.waveCost)
    /\ UNCHANGED <<spec, lock, shards, losses>>

\* One trial of each shard, or all of them, are retried.
RetryWave ==
    /\ Idling
    /\ \E g \in Deployments : \E S \in RetryWaves(g) :
          \E n \in {Cardinality(S), Trials(S)} :
             Start(g, S, "retry-shard", n,
                   IF Provider(g) THEN WaveSeconds(n) ELSE spec.waveTimeout,
                   PartialWaveCost(g, n))
    /\ UNCHANGED <<spec, lock, shards, losses>>

\* The worker executes the shards; some are left with trials to retry, and a
\* wave that is cut short leaves some untouched.
RunWave ==
    /\ phase = "locked" /\ wave # NoWave
    /\ \E failed, left \in SUBSET wave.shards :
          LET f == Cardinality(failed)
              cut == IF left = {} THEN 0 ELSE 1
          IN /\ failed \cap left = {} /\ left # wave.shards
             /\ wave.kind = "retry-shard" => left = {}
             /\ losses.failures + f <= MaxFailures /\ losses.cuts + cut <= MaxCuts
             /\ shards' = [s \in DOMAIN shards |->
                    CASE s \notin wave.shards \/ s \in left -> shards[s]
                      [] s \in failed -> "retry"
                      [] OTHER -> "done"]
             /\ losses' = [failures |-> losses.failures + f, cuts |-> losses.cuts + cut]
    /\ wave' = NoWave
    /\ UNCHANGED <<spec, phase, lock>>

CInit(m, start) ==
    /\ spec = m /\ phase = start /\ lock = NoLock /\ wave = NoWave
    /\ shards = [s \in {} |-> 0] /\ losses = [failures |-> 0, cuts |-> 0]

PlanStep == BuildCampaignPlan \/ BuildCampaignLock \/ SubmitWave \/ RetryWave \/ RunWave

-----------------------------------------------------------------------------
(* Properties.                                                              *)
\* The plan, the lock and the reconciler chunk a deployment's shards alike:
\* no wave the reconciler proposes is one the controller or build_wave_lock
\* refuses, until a wave was cut short between two of its shards.
ProposalsMatchLock == phase = "error" => losses.cuts > 0

\* run-spec: the duration of a wave is computed from its concurrency batches.
\* The time a running wave was given suffices for the batches it has, although
\* it was computed from another order of the shards. (It may not where three
\* or more runs share a deployment; see the README.)
WaveHasItsTime ==
    wave # NoWave /\ Provider(wave.g)
      /\ Cardinality({i \in Runs : DigestOf(i) = wave.g}) <= 2 =>
        wave.seconds >= WaveSeconds(wave.trials)
=============================================================================
