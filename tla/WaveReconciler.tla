---------------------------- MODULE WaveReconciler ----------------------------
(* CampaignReconciler.apply_campaign against the wave Jobs, the Bucket and   *)
(* the operator. One deployment, one shard per run. A pass reads the durable *)
(* events once (its view), and acts on that view while workers and operators *)
(* go on; it may stop between any two of its steps.                          *)
EXTENDS CampaignLog, FiniteSetsExt

CONSTANTS
    Shards,            \* a set 1..n
    Layouts,           \* the campaigns to start from: locked trials and their shards,
                       \* and whether an operator cancels
    MaxShardsPerWave,  \* lock.max_shards_per_wave
    WaveCost,          \* the locked estimate of a full wave, 0 when it has none
    Cap,               \* the spend cap of a priced deployment
    MaxFaults,         \* bound: calls that fail, Jobs that die, passes that stop
    MaxActions         \* bound on reserved actions

ASSUME ReconcilerAssumption ==
    /\ Shards = 1..Cardinality(Shards)
    /\ \A l \in Layouts : l.cancels \in BOOLEAN /\ l.shardOf \in [DOMAIN l.shardOf -> Shards]
    /\ MaxShardsPerWave \in Nat \ {0} /\ MaxExecutions \in Nat \ {0}
    /\ WaveCost \in Nat /\ Cap \in Nat /\ MaxFaults \in Nat /\ MaxActions \in Nat

VARIABLES
    plan,       \* the locked campaign
    clog,       \* campaign events
    grace,      \* the cancellation grace has elapsed
    acts,       \* reservations with the projected status of each action
    waves,      \* per billable action: its trials, Job, marker and timeline, and
                \* (history) whether its Job was submitted behind events of the wave
    execs,      \* per trial: published executions, and whether they were observed
    exhausted,  \* trials with a recorded spend exhaustion
    requested,  \* trials an operator asked to retry
    due,        \* trials whose retry time has come
    ep,         \* the managed endpoint: "paused" or "running"
    pass,       \* the reconciler
    faults

reconcilerVars == <<plan, clog, grace, acts, waves, execs, exhausted, requested, due, ep,
          pass, faults>>
durable == <<clog, acts, waves, execs, exhausted, requested>>
world == <<plan, grace, due>>

Billable == {"submit-wave", "retry-shard"}
Priority == [k \in {"cancel-wave", "drain-wave", "cleanup-wave", "exhaust-trials",
                    "manual-intervention", "publish-summary"} \cup Billable |->
                CASE k = "cancel-wave" -> 1 [] k = "drain-wave" -> 2
                  [] k = "cleanup-wave" -> 3 [] k = "exhaust-trials" -> 4
                  [] k = "manual-intervention" -> 5 [] k = "publish-summary" -> 6
                  [] k = "retry-shard" -> 8 [] OTHER -> 9]

shardOf == plan.shardOf
Trials == DOMAIN shardOf
ShardTrials(S) == {t \in Trials : shardOf[t] \in S}
ShardsOf(T) == {shardOf[t] : t \in T}
Locked == ShardsOf(Trials)
Live(w) == waves[w].job \in {"scheduled", "running"}

-----------------------------------------------------------------------------
(* The view of a pass.                                                      *)
Idle == [pc |-> "idle", view |-> <<>>, act |-> 0, out |-> "none"]

\* The executions the events tell of, each with its one outcome: start and
\* outcome are recorded together, once a worker has published the execution.
RecordedExecutions(x) == SelectSeq(x, LAMBDA e : e.seen)

\* project_recovery of the campaign events c, wave timelines ws and executions xs.
ProjectRecovery(c, ws, xs) ==
    LET campaign == CampaignView(c)
        wv == [w \in DOMAIN ws |-> WaveView(ws[w].log)]
        ran == [t \in Trials |-> RecordedExecutions(xs[t])]
        ts == [t \in Trials |-> DeriveTrial(ran[t], t \in exhausted, t \in requested)]
        sh == [s \in Locked |-> Aggregate({ts[t] : t \in ShardTrials({s})})]
        st == EffectiveStatus(campaign, wv)
        clean == /\ \A a \in DOMAIN acts :
                        acts[a].kind \in Billable /\ acts[a].st # "failed" =>
                            wv[acts[a].wave].st = "closed"
                 /\ \A w \in DOMAIN ws : wv[w].st \in {"unknown", "closed"}
    IN [st |-> st, waves |-> wv, ts |-> ts, shards |-> sh,
        open |-> campaign.open,
        ran |-> {t \in Trials : ran[t] # <<>>},
        cancelled |-> \E i \in DOMAIN c : c[i].kind = "cancel",
        dec |-> TerminalDecision(st, ts, {sh[s] : s \in Locked}, clean)]

View == ProjectRecovery(clog, waves, execs)

\* project_campaign and project_recovery accept the events.
Readable(v) == /\ v.st # "bad"
               /\ \A w \in DOMAIN v.waves : v.waves[w].st # "bad"
               /\ \A t \in Trials : v.ts[t] # "bad"

Known(v) == {w \in DOMAIN v.waves : v.waves[w].st # "unknown"}
Closed(v) == {w \in DOMAIN v.waves : v.waves[w].st = "closed"}

Spent(v, a) == \/ acts[a].st = "failed"
               \/ acts[a].kind \in Billable /\ acts[a].wave \in Closed(v)

-----------------------------------------------------------------------------
(* Candidates. An action is identified by its kind, its targets and whether *)
(* it names a wave or the action that was to start it.                      *)
OnWave(k, w, by) ==
    [kind |-> k, wave |-> w, by |-> by, trials |-> waves[w].trials, est |-> 0]

WaveCleanup(v, w) ==
    LET st == v.waves[w].st
        kinds ==
            IF st = "closed" THEN {}
            ELSE IF st = "cleanup_failed" THEN {"manual-intervention"}
            ELSE IF v.st \in Cancelling /\ grace THEN {"cancel-wave", "cleanup-wave"}
            ELSE IF st \in {"draining", "cleaning"} THEN {"cleanup-wave"}
            ELSE IF \/ v.st \in Cancelling
                    \/ \A s \in ShardsOf(waves[w].trials) : v.shards[s] \in TrialTerminal THEN
                    {"drain-wave"}
            ELSE {}
    IN {OnWave(k, w, "wave") : k \in kinds}

UnobservedWaves(v) ==
    {acts[a].wave : a \in {b \in DOMAIN acts : acts[b].kind \in Billable
                                               /\ acts[b].st # "failed"}} \ Known(v)

UnobservedCancellations(v) ==
    {OnWave(k, w, "act") : w \in UnobservedWaves(v),
        k \in IF grace THEN {"cancel-wave", "cleanup-wave"} ELSE {"drain-wave"}}

\* Chunks of at most MaxShardsPerWave shards, in shard order.
Chunks(S) ==
    {{s \in S : (Cardinality({r \in S : r < s}) \div MaxShardsPerWave) = i} :
        i \in {Cardinality({r \in S : r < s}) \div MaxShardsPerWave : s \in S}}

\* estimated_partial_wave_cost: the full estimate, in proportion.
PartialCost(n) ==
    LET capacity == Max({Cardinality(ShardTrials(c)) : c \in Chunks(Locked)})
        share == (WaveCost * n + capacity - 1) \div capacity
    IN IF WaveCost = 0 THEN 0 ELSE IF share < 1 THEN 1 ELSE share

HasEvidence(v, s) ==
    \E t \in ShardTrials({s}) : t \in v.ran \/ v.ts[t] # "planned"

RetryReady(v, t) ==
    \/ /\ v.ts[t] = "planned" /\ HasEvidence(v, shardOf[t])
       /\ \E w \in Closed(v) : shardOf[t] \in ShardsOf(waves[w].trials)
    \/ v.ts[t] = "retry_wait" /\ t \in due

RetryCandidates(v) ==
    LET reserved == UNION {acts[a].trials : a \in
                        {b \in DOMAIN acts : acts[b].kind = "retry-shard" /\ ~Spent(v, b)}}
        ready == {t \in Trials \ reserved : RetryReady(v, t)}
        chunk(c) == ready \cap ShardTrials(c)
    IN {[kind |-> "retry-shard", wave |-> 0, by |-> "trials", trials |-> chunk(c),
         est |-> PartialCost(Cardinality(chunk(c)))] : c \in Chunks(ShardsOf(ready))}

AssignedShards(v) ==
    (UNION {ShardsOf(waves[w].trials) : w \in Known(v) \ Closed(v)})
      \cup {s \in Locked : (\E w \in Closed(v) : s \in ShardsOf(waves[w].trials))
                             /\ HasEvidence(v, s)}
      \cup ShardsOf(v.ran)
      \cup UNION {ShardsOf(acts[a].trials) : a \in
                     {b \in DOMAIN acts : acts[b].kind \in Billable /\ ~Spent(v, b)}}

NewWaveCandidates(v) ==
    LET free == {s \in Locked \ AssignedShards(v) : v.shards[s] = "planned"}
    IN {[kind |-> "submit-wave", wave |-> 0, by |-> "shards", trials |-> ShardTrials(c),
         est |-> WaveCost] : c \in Chunks(free)}

Candidates(v) ==
    (UNION {WaveCleanup(v, w) : w \in Known(v)})
      \cup (IF v.st \in Cancelling THEN UnobservedCancellations(v)
            ELSE RetryCandidates(v) \cup NewWaveCandidates(v))
      \cup (IF v.dec = "none" THEN {}
            ELSE {[kind |-> "publish-summary", wave |-> 0, by |-> "summary",
                   trials |-> {}, est |-> 0]})

-----------------------------------------------------------------------------
(* Admission: one open wave per deployment, and the spend cap.              *)
SameAction(a, c) == /\ acts[a].kind = c.kind /\ acts[a].by = c.by
                    /\ acts[a].trials = c.trials
                    /\ c.kind \notin Billable => acts[a].wave = c.wave

\* _materialize: no unspent action has this identity.
Materializes(v, c) == \A a \in DOMAIN acts : SameAction(a, c) => Spent(v, a)

OpenWavesObserved(v) == Known(v) \ Closed(v)

OpenWaves(v) == (Known(v) \ Closed(v)) \cup UnobservedWaves(v)

DurableSpendOpen(v) == MapThenSumSet(LAMBDA w : v.waves[w].est, Known(v) \ Closed(v))

\* The estimates of the waves the events know.
DurableSpend(v) == MapThenSumSet(LAMBDA w : v.waves[w].est, Known(v))

UnobservedSpend(v) ==
    MapThenSumSet(LAMBDA a : acts[a].est,
        {a \in DOMAIN acts : acts[a].kind \in Billable /\ acts[a].st # "failed"
                               /\ acts[a].wave \notin Known(v)})

BudgetReason(v, c) ==
    IF OpenWaves(v) # {} THEN "deployment-budget"
    ELSE IF WaveCost > 0 /\ DurableSpend(v) + UnobservedSpend(v) + c.est > Cap THEN "spend-cap"
    ELSE "none"

\* What a candidate becomes: itself, nothing, or the end of its retries.
Admitted(v, c) ==
    IF ~Materializes(v, c) THEN {}
    ELSE IF c.kind \notin Billable \/ BudgetReason(v, c) = "none" THEN {c}
    ELSE IF c.kind = "retry-shard" /\ BudgetReason(v, c) = "spend-cap"
           /\ DurableSpend(v) + WaveCost > Cap THEN
            {e \in {[c EXCEPT !.kind = "exhaust-trials", !.est = 0]} : Materializes(v, e)}
    ELSE {}

FirstOf(S) == {c \in S : \A d \in S : Priority[c.kind] <= Priority[d.kind]}

Pending(as) == {a \in DOMAIN as : as[a].st \in {"reserved", "ambiguous"}}

-----------------------------------------------------------------------------
(* A pass: refresh_observation, _recover_terminal_jobs, the plan and the     *)
(* reservation, the action, its outcome, the end of the campaign.            *)
TerminalRecorded == \E i \in DOMAIN clog : clog[i].kind \in CampaignTerminal

\* The pass goes on with the events v projects, unless they do not project.
Load(pc, v) == pass' = IF Readable(v) THEN [Idle EXCEPT !.pc = pc, !.view = v] ELSE Idle

\* The worker's events of a wave are copied once its marker, behind a manifest
\* that covers them, is in the Bucket.
ObservedLog(w) ==
    [i \in DOMAIN waves[w].log |->
        [waves[w].log[i] EXCEPT !.seen = @ \/ waves[w].marker]]

\* The published executions of a locked trial.
ObservedExecutions(t) ==
    [i \in DOMAIN execs[t] |-> [execs[t][i] EXCEPT !.seen = TRUE]]

Observe ==
    LET ws == [w \in DOMAIN waves |-> [waves[w] EXCEPT !.log = ObservedLog(w)]]
        xs == [t \in Trials |-> ObservedExecutions(t)]
    IN /\ pass.pc = "idle" /\ ~TerminalRecorded
       /\ waves' = ws /\ execs' = xs
       /\ Load("observed", ProjectRecovery(clog, ws, xs))
       /\ UNCHANGED <<clog, acts, exhausted, requested, ep, faults, world>>

\* An event of the reconciler has one identity per wave and kind: it is
\* recorded once (_record_durable_event, ensure_event).
Recorded(log, kind, est) ==
    IF \E i \in DOMAIN log : log[i].by = "reconciler" /\ log[i].kind = kind THEN log
    ELSE Append(log, [kind |-> kind, by |-> "reconciler", est |-> est, seen |-> TRUE])

RecordWave(w, kind, est) == [waves[w] EXCEPT !.log = Recorded(@, kind, est)]

WithCampaign(kind, ws) ==
    IF \E i \in DOMAIN clog : clog[i].kind = kind /\ clog[i].ws = ws THEN clog
    ELSE Append(clog, [kind |-> kind, ws |-> ws])

RecordCampaign(kind, ws) == clog' = WithCampaign(kind, ws)

EstimateOf(v, w, est) == IF w \in Known(v) THEN v.waves[w].est ELSE est

DrainCampaign(v) ==
    IF v.st = "cancel_requested" THEN WithCampaign("draining", {}) ELSE clog

\* The actions whose Job has ended while their wave is still open.
EndedJobs(v) ==
    {a \in DOMAIN acts : /\ acts[a].kind \in Billable /\ waves[acts[a].wave].job = "ended"
                         /\ v.waves[acts[a].wave].st \notin
                              {"draining", "cleaning", "cleanup_failed", "closed"}}

\* Such waves are drained, whatever the Job left behind.
RecoverTerminalJobs ==
    LET v == pass.view
        ended == EndedJobs(v)
        ws == [w \in DOMAIN waves |->
              IF \E a \in ended : acts[a].wave = w
              THEN RecordWave(w, "draining",
                       EstimateOf(v, w, acts[CHOOSE a \in ended : acts[a].wave = w].est))
              ELSE waves[w]]
    IN /\ pass.pc = "observed" /\ ended # {}
       /\ waves' = ws /\ clog' = DrainCampaign(v)
       /\ Load("recovered", ProjectRecovery(DrainCampaign(v), ws, execs))
       /\ UNCHANGED <<acts, execs, exhausted, requested, ep, faults, world>>

\* plan_reconciliation: nothing is planned for a campaign that has ended.
Planned(v) ==
    IF v.st \in CampaignTerminal THEN {} ELSE UNION {Admitted(v, c) : c \in Candidates(v)}

\* The reservation of an action; a billable one names the wave it will start.
Reservation(c) ==
    [kind |-> c.kind, wave |-> IF c.kind \in Billable THEN Len(waves) + 1 ELSE c.wave,
     by |-> c.by, trials |-> c.trials, est |-> c.est, st |-> "reserved"]

Reserve(c) ==
    /\ acts' = Append(acts, c)
    /\ waves' = IF c.kind \in Billable
                THEN Append(waves, [trials |-> c.trials, job |-> "none", revived |-> FALSE,
                                    marker |-> FALSE, log |-> <<>>])
                ELSE waves

\* The plan of the durable events, the reservation of its first action, and
\* the choice of the first action that has no outcome.
Plan ==
    LET v == pass.view
        new == {Reservation(c) : c \in FirstOf(Planned(v))}
        summary == v.dec # "none" /\ \E a \in DOMAIN acts :
                        acts[a].kind = "publish-summary" /\ acts[a].st = "succeeded"
        select(as) == IF Pending(as) = {} THEN pass' = Idle
                      ELSE \E a \in Pending(as) :
                              /\ \A b \in Pending(as) :
                                    Priority[as[a].kind] <= Priority[as[b].kind]
                              /\ pass' = [pc |-> "selected", view |-> v, act |-> a,
                                          out |-> "none"]
    IN /\ pass.pc = "recovered" \/ (pass.pc = "observed" /\ EndedJobs(v) = {})
       /\ \/ /\ summary
             /\ pass' = [Idle EXCEPT !.pc = "published", !.view = [dec |-> v.dec]]
             /\ UNCHANGED <<acts, waves>>
          \/ /\ ~summary /\ new = {}
             /\ select(acts) /\ UNCHANGED <<acts, waves>>
          \/ /\ ~summary /\ Len(acts) < MaxActions
             /\ \E c \in new : Reserve(c) /\ select(acts')
       /\ UNCHANGED <<clog, execs, exhausted, requested, ep, faults, world>>

Selected(kinds) == pass.pc = "selected" /\ acts[pass.act].kind \in kinds
TargetWave == acts[pass.act].wave
Outcome(out) == pass' = [pc |-> "applied", view |-> [dec |-> pass.view.dec],
                         act |-> pass.act, out |-> out]
Fault == faults < MaxFaults /\ faults' = faults + 1
SetJob(w, job) == waves' = [waves EXCEPT ![w].job = job]
CreateJob(w) ==
    waves' = [waves EXCEPT ![w].job = "scheduled", ![w].revived = waves[w].log # <<>>]

\* _submit_wave: adopt the Job of this wave, or create it. A call that does
\* not answer leaves it unknown whether the Job exists.
SubmitWave ==
    LET w == TargetWave
        allowed == pass.view.st = "active"
    IN /\ Selected(Billable)
       /\ \/ /\ waves[w].job # "none"
             /\ Outcome("succeeded") /\ UNCHANGED <<waves, faults>>
          \/ /\ waves[w].job = "none" /\ (~allowed \/ ep = "running")
             /\ Outcome("failed") /\ UNCHANGED <<waves, faults>>
          \/ /\ waves[w].job = "none" /\ allowed /\ ep = "paused"
             /\ \/ CreateJob(w) /\ Outcome("succeeded") /\ UNCHANGED faults
                \/ Fault /\ UNCHANGED waves /\ Outcome("failed")
                \/ Fault /\ Outcome("ambiguous")
                     /\ (CreateJob(w) \/ UNCHANGED waves)
       /\ UNCHANGED <<clog, acts, execs, exhausted, requested, ep, world>>

CancelWave ==
    /\ Selected({"cancel-wave"})
    /\ \/ /\ IF Live(TargetWave) THEN SetJob(TargetWave, "ended") ELSE UNCHANGED waves
          /\ Outcome("succeeded") /\ UNCHANGED faults
       \/ /\ Fault /\ Live(TargetWave) /\ Outcome("ambiguous")
          /\ (SetJob(TargetWave, "ended") \/ UNCHANGED waves)
    /\ UNCHANGED <<clog, acts, execs, exhausted, requested, ep, world>>

DrainWave ==
    /\ Selected({"drain-wave"})
    /\ waves' = [waves EXCEPT ![TargetWave] =
                    RecordWave(TargetWave, "draining", EstimateOf(pass.view, TargetWave, 0))]
    /\ clog' = DrainCampaign(pass.view)
    /\ Outcome("succeeded")
    /\ UNCHANGED <<acts, execs, exhausted, requested, ep, faults, world>>

CleanupWaveUnwaited ==
    /\ Selected({"cleanup-wave"})
    /\ ep' = "paused" /\ Outcome("succeeded")
    /\ waves' = [waves EXCEPT ![TargetWave] =
                    RecordWave(TargetWave, "closed", EstimateOf(pass.view, TargetWave, 0))]
    /\ UNCHANGED <<clog, acts, execs, exhausted, requested, faults, world>>

\* Not before the Job has ended. The endpoint is paused and the wave closed.
CleanupWave ==
    LET st == pass.view.waves[TargetWave].st
        est == EstimateOf(pass.view, TargetWave, 0)
        log == waves[TargetWave].log
        cleaning == IF st \in {"unknown", "draining", "cleaning", "cleanup_failed"} THEN log
                    ELSE Recorded(log, "cleaning", est)
    IN /\ Selected({"cleanup-wave"})
       /\ \/ /\ Live(TargetWave)
             /\ Outcome("ambiguous") /\ UNCHANGED <<waves, ep, faults>>
          \/ /\ ~Live(TargetWave) /\ Fault
             /\ Outcome("ambiguous") /\ UNCHANGED <<waves, ep>>
          \/ /\ ~Live(TargetWave)
             /\ ep' = "paused"
             /\ waves' = [waves EXCEPT ![TargetWave].log =
                    IF st = "closed" THEN log ELSE Recorded(cleaning, "closed", est)]
             /\ Outcome("succeeded") /\ UNCHANGED faults
       /\ UNCHANGED <<clog, acts, execs, exhausted, requested, world>>

ManualIntervention ==
    /\ Selected({"manual-intervention"})
    /\ RecordCampaign("manual", {TargetWave})
    /\ Outcome("succeeded")
    /\ UNCHANGED <<acts, waves, execs, exhausted, requested, ep, faults, world>>

\* Recorded in one commit that loses against a cancellation
\* (ensure_events_unless_cancelled).
ExhaustTrials ==
    LET T == acts[pass.act].trials
        ok == /\ ~pass.view.cancelled
              /\ \A t \in T : pass.view.ts[t] \in
                    {"retry_wait", "invalid", "failed_infrastructure"}
              /\ T \subseteq exhausted \/ \A i \in DOMAIN clog : clog[i].kind # "cancel"
    IN /\ Selected({"exhaust-trials"})
       /\ exhausted' = IF ok THEN exhausted \cup T ELSE exhausted
       /\ Outcome(IF ok THEN "succeeded" ELSE "failed")
       /\ UNCHANGED <<clog, acts, waves, execs, requested, ep, faults, world>>

\* The finalizer and the publisher (Publication) succeed or fail.
PublishSummary ==
    /\ Selected({"publish-summary"})
    /\ \/ pass.view.dec # "none" /\ Outcome("succeeded") /\ UNCHANGED faults
       \/ pass.view.dec = "none" /\ Outcome("failed") /\ UNCHANGED faults
       \/ Fault /\ Outcome("failed")
    /\ UNCHANGED <<durable, ep, world>>

\* A reserved or ambiguous action takes its outcome.
ApplyOutcome(a, out) ==
    a \in Pending(acts) /\ acts' = [acts EXCEPT ![a].st = out]

RecordOutcome ==
    /\ pass.pc = "applied"
    /\ ApplyOutcome(pass.act, pass.out)
    /\ pass' = IF acts[pass.act].kind = "publish-summary" /\ pass.out = "succeeded"
               THEN [Idle EXCEPT !.pc = "published", !.view = pass.view] ELSE Idle
    /\ UNCHANGED <<clog, waves, execs, exhausted, requested, ep, faults, world>>

RecordTerminal ==
    /\ pass.pc = "published"
    /\ RecordCampaign(pass.view.dec, {})
    /\ pass' = Idle
    /\ UNCHANGED <<acts, waves, execs, exhausted, requested, ep, faults, world>>

\* Before it has selected an action a pass leaves nothing behind.
PassStops ==
    /\ pass.pc \in {"selected", "applied", "published"} /\ Fault
    /\ pass' = Idle
    /\ UNCHANGED <<durable, world, ep>>

-----------------------------------------------------------------------------
(* The wave Jobs (WaveWorker): what they publish and what they leave.       *)
ActionOf(w) == CHOOSE a \in DOMAIN acts : acts[a].kind \in Billable /\ acts[a].wave = w

WorkerEvent(w, kind) ==
    [kind |-> kind, by |-> "worker", est |-> acts[ActionOf(w)].est, seen |-> FALSE]

WorkerStarts(w) ==
    /\ waves[w].job = "scheduled"
    /\ waves' = [waves EXCEPT ![w].job = "running", ![w].log = Append(@, WorkerEvent(w, "active"))]
    /\ ep' = "running"
    /\ UNCHANGED <<clog, acts, execs, exhausted, requested, pass, faults, world>>

\* A trial runs once in a wave unless its evidence is complete already.
TrialEnds(w, t, out) ==
    /\ waves[w].job = "running" /\ t \in waves[w].trials
    /\ \A i \in DOMAIN execs[t] : execs[t][i].w # w /\ execs[t][i].out # "completed"
    /\ execs' = [execs EXCEPT ![t] = Append(@, [w |-> w, out |-> out, seen |-> FALSE])]
    /\ due' = due \ {t}
    /\ UNCHANGED <<plan, grace, clog, acts, waves, exhausted, requested, ep, pass,
                   faults>>

\* All its trials were attempted, or the wave failed before the first. The
\* endpoint is paused, or its cleanup failed and an operator has to see it.
WorkerEnds(w, cleaned) ==
    LET ran(t) == \E i \in DOMAIN execs[t] :
                      execs[t][i].w = w \/ execs[t][i].out = "completed"
        events == IF cleaned THEN <<WorkerEvent(w, "cleaning"), WorkerEvent(w, "closed")>>
                  ELSE <<WorkerEvent(w, "cleanup_failed")>>
    IN /\ waves[w].job = "running"
       /\ \/ (\A t \in waves[w].trials : ran(t)) /\ cleaned /\ UNCHANGED faults
          \/ Fault /\ ((\A t \in waves[w].trials : ran(t)) \/ cleaned)
       /\ waves' = [waves EXCEPT ![w].job = "ended", ![w].marker = TRUE,
                                       ![w].log = @ \o events]
       /\ ep' = IF cleaned THEN "paused" ELSE ep
       /\ UNCHANGED <<clog, acts, execs, exhausted, requested, pass, world>>

JobDies(w) ==
    /\ Live(w) /\ Fault
    /\ SetJob(w, "ended")
    /\ UNCHANGED <<clog, acts, execs, exhausted, requested, ep, pass, world>>

-----------------------------------------------------------------------------
(* The operator and the clock.                                              *)
CancelRequest ==
    /\ plan.cancels /\ \A i \in DOMAIN clog : clog[i].kind # "cancel"
    /\ RecordCampaign("cancel", {})
    /\ UNCHANGED <<acts, waves, execs, exhausted, requested, ep, pass, faults, world>>

GraceElapses ==
    /\ ~grace /\ \E i \in DOMAIN clog : clog[i].kind = "cancel"
    /\ grace' = TRUE
    /\ UNCHANGED <<plan, due, durable, ep, pass, faults>>

BackoffElapses(t) ==
    /\ t \notin due /\ execs[t] # <<>> /\ Last(execs[t]).out = "retryable"
    /\ due' = due \cup {t}
    /\ UNCHANGED <<plan, grace, durable, ep, pass, faults>>

RetryRequest(s) ==
    LET v == View
        eligible == {t \in ShardTrials({s}) :
                        v.ts[t] \in {"retry_wait", "failed_infrastructure"}}
    IN /\ Readable(v)
       /\ v.st \notin CampaignTerminal \cup {"cancel_requested", "draining"}
       /\ eligible # {} /\ ~(eligible \subseteq requested \cap due)
       /\ requested' = requested \cup eligible
       /\ due' = due \cup eligible
       /\ UNCHANGED <<plan, grace, clog, acts, waves, execs, exhausted, ep, pass,
                      faults>>

\* The operator verified that nothing runs, and names every wave whose cleanup
\* failed, in a commit that refuses if another has failed since.
Resolve ==
    LET v == View
        ws == v.open \cup CleanupFailed(v.waves)
    IN /\ Readable(v) /\ v.st = "manual_intervention" /\ v.open # {}
       /\ \A w \in ws : v.waves[w].st \in {"cleanup_failed", "closed"}
       /\ ep' = "paused"
       /\ clog' = Append(clog, [kind |-> "resolved", ws |-> ws])
       /\ waves' = [w \in DOMAIN waves |-> IF w \notin ws THEN waves[w]
                       ELSE [waves[w] EXCEPT !.log = Append(@,
                               [kind |-> "resolved", by |-> "reconciler", est |-> 0,
                                seen |-> TRUE])]]
       /\ UNCHANGED <<acts, execs, exhausted, requested, pass, faults, world>>

-----------------------------------------------------------------------------
ReconcilerInit ==
    /\ plan \in Layouts
    /\ clog = <<>> /\ grace = FALSE /\ acts = <<>> /\ waves = <<>>
    /\ execs = [t \in Trials |-> <<>>]
    /\ exhausted = {} /\ requested = {} /\ due = {}
    /\ ep = "paused" /\ pass = Idle /\ faults = 0

Reconcile ==
    \/ Observe \/ RecoverTerminalJobs \/ Plan
    \/ SubmitWave \/ CancelWave \/ DrainWave \/ CleanupWave \/ ManualIntervention
    \/ ExhaustTrials \/ PublishSummary \/ RecordOutcome \/ RecordTerminal

Worker(w) ==
    \/ WorkerStarts(w)
    \/ \E t \in Trials, out \in {"completed", "agent", "retryable"} : TrialEnds(w, t, out)
    \/ \E cleaned \in BOOLEAN : WorkerEnds(w, cleaned)

ReconcilerNext ==
    \/ Reconcile \/ PassStops
    \/ \E w \in DOMAIN waves : Worker(w) \/ JobDies(w)
    \/ CancelRequest \/ GraceElapses \/ Resolve
    \/ \E t \in Trials : BackoffElapses(t)
    \/ \E s \in Locked : RetryRequest(s)

ReconcilerSpec == ReconcilerInit /\ [][ReconcilerNext]_reconcilerVars

-----------------------------------------------------------------------------
(* Properties.                                                              *)
Cancelled == \E i \in DOMAIN clog : clog[i].kind = "cancel"

Resolved == \E i \in DOMAIN clog : clog[i].kind = "resolved"

\* The reconciler drained a wave before its Job was submitted, and submitted the
\* Job nevertheless: _submit_wave does not ask whether the wave is closed.
Overtaken == \E w \in DOMAIN waves : waves[w].revived

\* A deployment is used by one wave at a time, whatever was ambiguous, adopted
\* or reserved again (deployment_active_waves = 1, _submit_wave), unless the
\* submission of a wave that was drained before it began is taken up again,
\* which takes an operator's resolution of a failed cleanup.
OneLiveJob == IF Overtaken THEN Resolved
              ELSE \A v, w \in DOMAIN waves : Live(v) /\ Live(w) => v = w

\* When the end of a campaign is recorded nothing bills any more, and every
\* execution a worker published has been observed (_terminal_decision,
\* _cleanup_wave, _record_terminal), with the same exception.
TerminalIsClean ==
    TerminalRecorded /\ ~Overtaken =>
        /\ ep = "paused"
        /\ \A w \in DOMAIN waves : ~Live(w)
        /\ \A t \in Trials : \A i \in DOMAIN execs[t] : execs[t][i].seen

\* While nobody cancels, the events of reconciler, workers and operator always
\* project: no order of them makes the campaign unreadable (project_recovery),
\* with the same exception: a revived wave was drained with the estimate 0.
ReadableUnlessCancelled == Cancelled \/ Overtaken \/ Readable(View)

\* The estimates of the Jobs that were started stay within the cap
\* (_budget_reason, _active_action_admissions), with the same exception.
SpendWithinCap ==
    WaveCost > 0 /\ ~Overtaken =>
        MapThenSumSet(LAMBDA a : acts[a].est,
            {a \in DOMAIN acts : acts[a].kind \in Billable
                                   /\ waves[acts[a].wave].job # "none"}) <= Cap
=============================================================================
