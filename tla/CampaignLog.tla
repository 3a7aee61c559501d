----------------------------- MODULE CampaignLog -----------------------------
(* What the durable events of a campaign mean: control.project_campaign and *)
(* recovery.project_recovery. Events are replayed in the order of their      *)
(* timestamps, not of their arrival: a wave's timeline holds what its worker *)
(* recorded (unseen until the observer copies it from the Bucket) and what   *)
(* the reconciler recorded, in the order of their clocks.                    *)
EXTENDS Integers, Sequences, FiniteSets, SequencesExt

CONSTANT MaxExecutions  \* recovery_policy.max_physical_executions_per_trial

CampaignTerminal == {"completed", "partial", "failed", "cancelled"}
Scored == {"complete", "invalid", "failed_infrastructure"}
TrialTerminal == Scored \cup {"cancelled"}
Cancelling == {"cancel_requested", "draining", "manual_intervention"}

-----------------------------------------------------------------------------
(* Waves.                                                                   *)
Transitions ==
    [acquiring      |-> {"provisioning", "draining", "cleaning", "cleanup_failed"},
     provisioning   |-> {"ready", "draining", "cleaning", "cleanup_failed"},
     ready          |-> {"active", "draining", "cleaning", "cleanup_failed"},
     active         |-> {"draining", "cleaning", "cleanup_failed"},
     draining       |-> {"cleaning", "closed", "cleanup_failed"},
     cleaning       |-> {"closed", "cleanup_failed"},
     cleanup_failed |-> {"cleaning", "closed"},
     closed         |-> {}]

Unknown == [st |-> "unknown", est |-> 0]
BadWave == [st |-> "bad", est |-> 0]

StaleTransitionRefused(v, e) == FALSE

\* A transition the reconciler recorded from a view older than the worker's.
StaleTransition(v, e) ==
    /\ e.by = "reconciler"
    /\ \/ v.st = "closed" /\ e.kind \in {"draining", "cleaning"}
       \/ v.st = "cleanup_failed" /\ e.kind = "draining"

ApplyWaveEvent(v, e) ==
    IF v.st = "bad" THEN v
    ELSE IF e.kind = "resolved" THEN
            IF v.st \in {"cleanup_failed", "closed"} THEN [v EXCEPT !.st = "closed"]
                                                     ELSE BadWave
    ELSE IF v.st = "unknown" THEN [st |-> e.kind, est |-> e.est]
    ELSE IF e.est # v.est THEN BadWave          \* wave lifecycle identity changed
    ELSE IF StaleTransition(v, e) THEN v
    ELSE IF e.kind = v.st \/ e.kind \in Transitions[v.st] THEN [v EXCEPT !.st = e.kind]
    ELSE BadWave                          \* invalid wave transition

\* An event that was not copied from the Bucket is not read.
ReplayWaveEvent(v, e) == IF e.seen THEN ApplyWaveEvent(v, e) ELSE v

WaveView(log) == FoldLeft(ReplayWaveEvent, Unknown, log)

-----------------------------------------------------------------------------
(* The campaign: its status, the status to return to once the cleanups that *)
(* need an operator are resolved, and the waves of those cleanups.          *)
NewCampaign == [st |-> "active", back |-> "none", open |-> {}]

ReturnStatus(v, e) ==
    IF e.kind = "manual" /\ v.st # "manual_intervention" THEN v.st
    ELSE IF e.kind = "cancel" /\ v.st = "manual_intervention" /\ v.back # "draining"
         THEN "cancel_requested"
    ELSE IF e.kind = "draining" /\ v.st = "manual_intervention" THEN "draining"
    ELSE v.back

ResolvedStatus(v, open) ==
    IF open # {} THEN "manual_intervention"
    ELSE IF v.st # "manual_intervention" THEN "bad"
    ELSE IF v.back \in {"cancel_requested", "draining"} THEN v.back ELSE "active"

ApplyCampaignEvent(v, e) ==
    LET back == ReturnStatus(v, e)
        open == CASE e.kind = "manual" -> v.open \cup e.ws
                  [] e.kind = "resolved" -> v.open \ e.ws
                  [] OTHER -> v.open
        st == IF v.st \in CampaignTerminal \cup {"bad"} THEN "bad"
              ELSE IF e.kind = "cancel" THEN
                      IF v.st \in {"draining", "manual_intervention"} THEN v.st
                                                                ELSE "cancel_requested"
              ELSE IF e.kind = "draining" THEN
                      IF v.st = "manual_intervention" THEN v.st ELSE "draining"
              ELSE IF e.kind = "manual" THEN "manual_intervention"
              ELSE IF e.kind = "resolved" THEN ResolvedStatus(v, open)
              ELSE e.kind
    IN [st |-> st, open |-> open,
        back |-> IF e.kind = "resolved" /\ open = {} THEN "none" ELSE back]

CampaignView(log) == FoldLeft(ApplyCampaignEvent, NewCampaign, log)

\* The set of waves whose last recorded state is a failed cleanup: what a
\* resolution has to name (_validate_manual_resolution_basis).
CleanupFailed(view) == {w \in DOMAIN view : view[w].st = "cleanup_failed"}

\* project_recovery: a failed cleanup stops an unfinished campaign.
EffectiveStatus(campaign, view) ==
    IF campaign.st \notin CampaignTerminal \cup {"bad"} /\ CleanupFailed(view) # {}
    THEN "manual_intervention" ELSE campaign.st

-----------------------------------------------------------------------------
(* Trials, shards and runs. An execution ended "completed", "agent" (the    *)
(* agent or the benchmark is at fault) or "retryable"; x are the executions *)
(* of one trial in the order of their physical attempts.                    *)
FailedTrialState(out, n) ==
    IF out = "agent" THEN "invalid"
    ELSE IF n >= MaxExecutions THEN "failed_infrastructure"
    ELSE "retry_wait"

\* A recorded exhaustion stands until an operator asks for a retry
\* (_record_trial_status, _apply_retry_requests).
DeriveTrial(x, exhausted, requested) ==
    LET n == Len(x)
        done == {i \in 1..n : x[i].out = "completed"}
    IN IF done # {} /\ n \notin done THEN "bad"  \* completed, then executed again
       ELSE IF exhausted /\ ~requested THEN
              IF x[n].out = "agent" THEN "invalid" ELSE "failed_infrastructure"
       ELSE IF n = 0 THEN "planned"
       ELSE IF done # {} THEN "complete"
       ELSE FailedTrialState(x[n].out, n)

ScoredStatus(statuses) ==
    IF "complete" \in statuses THEN "complete"
    ELSE IF "failed_infrastructure" \in statuses THEN "failed_infrastructure"
    ELSE "invalid"

\* A shard, or a run, from the statuses of its parts.
Aggregate(statuses) ==
    IF statuses \subseteq Scored THEN ScoredStatus(statuses)
    ELSE IF statuses \subseteq TrialTerminal THEN "cancelled"
    ELSE IF "retry_wait" \in statuses THEN "retry_wait"
    ELSE "planned"

\* The decision that ends the campaign, "none" while there is none. ts gives
\* each trial's status, runs the statuses of the runs, clean whether every
\* wave that may exist is closed.
TerminalDecision(st, ts, runs, clean) ==
    LET cancelling == st \in {"cancel_requested", "draining"}
        over(t) == \/ ts[t] \in TrialTerminal
                   \/ cancelling /\ ts[t] \in {"planned", "retry_wait"}
        complete == \E t \in DOMAIN ts : ts[t] = "complete"
    IN IF st \in CampaignTerminal THEN st
       ELSE IF ~clean \/ \E t \in DOMAIN ts : ~over(t) THEN "none"
       ELSE IF runs = {"complete"} THEN "completed"
       ELSE IF cancelling /\ complete THEN "partial"
       ELSE IF "complete" \in runs THEN "partial"
       ELSE IF cancelling \/ \E t \in DOMAIN ts : ts[t] = "cancelled" THEN "cancelled"
       ELSE "failed"
=============================================================================
