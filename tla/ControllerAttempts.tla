------------------------- MODULE ControllerAttempts -------------------------
(***************************************************************************)
(* The controller Jobs of one campaign (src/harbor_hf/campaign_controller  *)
(* .py), the launchers that start them (submission.py: submit_campaign_    *)
(* controller, _launch_or_adopt_controller; campaign_watchdog.py:          *)
(* run_campaign_watchdog) and the records both keep in the coordination    *)
(* repository (controller_status.py: HubControllerStateStore).             *)
(*                                                                         *)
(* A record operation is one step: its loop commits with the head it read  *)
(* as parent, which module HubClaims shows to be atomic.  An operation may *)
(* raise, and a Job or a launcher may stop, between any two of them.       *)
(* Times are reduced to whether a claim or a lease has expired.            *)
(***************************************************************************)
EXTENDS Integers, FiniteSets

CONSTANTS
    Submitters,  \* processes that submit the campaign
    Watchdogs,   \* scheduled and webhook runs of its watchdog
    MaxAttempts, \* max_attempts of the controller policy
    MaxJobs,     \* bound: physical Jobs of the campaign
    MaxFaults    \* bound: launchers that stop and launches that fail

ASSUME BoundsAssumption ==
    MaxAttempts \in Nat \ {0} /\ MaxJobs \in Nat \ {0} /\ MaxFaults \in Nat

Launchers == Submitters \cup Watchdogs

Attempts == 1..MaxAttempts
Jobs == 1..MaxJobs
Nobody == 0
Other == -1   \* the controller of another campaign with the same provider

VARIABLES
    reserved,  \* attempts with a ControllerAttemptReservation
    recovery,  \* per attempt: the prior Job of its ControllerRecoveryDecision
    receipt,   \* per attempt: the Job of its ControllerLaunchReceipt
    lease,     \* per attempt: its ControllerLaunchClaim
    claim,     \* the ControllerClaim
    status,    \* the ControllerStatus
    capacity,  \* the owner of the ProviderCapacityClaim
    terminal,  \* the campaign's events project to a terminal status
    attemptOf, \* per Job: its attempt label, 0 before it is created
    proc,      \* per Job: its controller process
    late,      \* attempts whose create request is still on its way
    at,        \* per launcher: its next step
    goal,      \* per launcher: the attempt it launches
    sees,      \* per launcher: what it has read
    faults,    \* launchers stopped and launches failed so far
    overran    \* history: a launch lease expired while its launch went on

records == <<reserved, recovery, receipt, lease, claim, status, capacity, terminal>>
job == <<attemptOf, proc>>
launcher == <<at, goal, sees>>
controllerVars == <<records, job, late, launcher, faults, overran>>

NoLease == [owner |-> "free", fresh |-> FALSE]
NoClaim == [job |-> Nobody, fresh |-> FALSE]
NoStatus == [attempt |-> 0, job |-> Nobody, state |-> "none"]
Unread == [status |-> NoStatus, valid |-> FALSE, listed |-> {}, active |-> {},
           terminal |-> FALSE, decided |-> FALSE, made |-> Nobody]

(* A controller process: where it is, lost_event of its heartbeat, whether *)
(* a renewal took effect that it knows nothing of, and the state it will   *)
(* report at its end.                                                      *)
NoProc == [stage |-> "none", lost |-> FALSE, detached |-> FALSE, outcome |-> "retryable"]
Stage(j) == proc[j].stage

(* The states of a ControllerStatus, as the watchdog tells them apart:     *)
(* starting, running, waiting-retry, finalizing and failed-infrastructure; *)
(* paused and failed-deterministic; completed.                             *)
States == {"retryable", "approval", "completed"}
Statuses == [attempt : Attempts, job : Jobs, state : States] \cup {NoStatus}

Working == {"recover", "starting", "loop", "wave"}
Driving == Working \cup {"finish", "unclaim"}
Live(j) == Stage(j) \in Driving \cup {"pending"}
Created == {j \in Jobs : attemptOf[j] # 0}
Of(a) == {j \in Created : attemptOf[j] = a}

ControllersTypeOK ==
    /\ reserved \subseteq Attempts
    /\ recovery \in [Attempts -> Jobs \cup {Nobody}]
    /\ receipt \in [Attempts -> Jobs \cup {Nobody}]
    /\ lease \in [Attempts -> [owner : Launchers \cup {"free", "gone"}, fresh : BOOLEAN]]
    /\ claim \in [job : Jobs \cup {Nobody}, fresh : BOOLEAN]
    /\ status \in Statuses
    /\ capacity \in Jobs \cup {Nobody, Other} /\ terminal \in BOOLEAN
    /\ attemptOf \in [Jobs -> Attempts \cup {0}]
    /\ proc \in [Jobs -> [stage : Driving \cup {"none", "pending", "dead"}, lost : BOOLEAN,
                          detached : BOOLEAN, outcome : States]]
    /\ late \subseteq Attempts
    /\ at \in [Launchers -> {"idle", "jobs", "capacity", "decide", "decision",
                             "find", "acquire", "recheck", "run", "look", "release"}]
    /\ goal \in [Launchers -> Attempts]
    /\ sees \in [Launchers -> [status : Statuses, valid : BOOLEAN, listed : SUBSET Jobs,
                               active : SUBSET Jobs, terminal : BOOLEAN,
                               decided : BOOLEAN, made : Jobs \cup {Nobody}]]
    /\ faults \in 0..MaxFaults /\ overran \in BOOLEAN

ControllersInit ==
    /\ reserved = {} /\ late = {}
    /\ recovery = [a \in Attempts |-> Nobody] /\ receipt = [a \in Attempts |-> Nobody]
    /\ lease = [a \in Attempts |-> NoLease]
    /\ claim = NoClaim /\ status = NoStatus /\ capacity = Nobody /\ terminal = FALSE
    /\ attemptOf = [j \in Jobs |-> 0] /\ proc = [j \in Jobs |-> NoProc]
    /\ at = [p \in Launchers |-> "idle"] /\ goal = [p \in Launchers |-> 1]
    /\ sees = [p \in Launchers |-> Unread]
    /\ faults = 0 /\ overran = FALSE

-----------------------------------------------------------------------------
(* Launchers.  Each step is one operation on the records or on HF Jobs.    *)

Go(p, s) == at' = [at EXCEPT ![p] = s]

(* The end of a launcher's run, whatever it leaves behind: nobody holds    *)
(* its launch claim any more.                                              *)
End(p) ==
    /\ at' = [at EXCEPT ![p] = "idle"]
    /\ goal' = [goal EXCEPT ![p] = 1]
    /\ sees' = [sees EXCEPT ![p] = Unread]

Left(p) == [a \in Attempts |-> IF lease[a].owner = p
                                 THEN [lease[a] EXCEPT !.owner = "gone"] ELSE lease[a]]

(* submit_campaign_controller up to the reservation of attempt 1.  Once    *)
(* the receipt is there, a submission only returns it.                     *)
Submit(p) ==
    /\ p \in Submitters /\ at[p] = "idle" /\ receipt[1] = Nobody
    /\ reserved' = reserved \cup {1}
    /\ Go(p, "find")
    /\ UNCHANGED <<recovery, receipt, lease, claim, status, capacity, terminal, job, late,
                   goal, sees, faults, overran>>

(* run_campaign_watchdog: the campaign, its status and its claim, then the *)
(* Jobs.  Two Jobs of one attempt stop the watchdog.                       *)
WatchRecords(p) ==
    /\ p \in Watchdogs /\ at[p] = "idle"
    /\ sees' = [sees EXCEPT ![p].status = status, ![p].terminal = terminal,
                            ![p].valid = claim.fresh]
    /\ Go(p, "jobs")
    /\ UNCHANGED <<records, job, late, goal, faults, overran>>

WatchJobs(p) ==
    /\ at[p] = "jobs"
    /\ IF \A a \in Attempts : Cardinality(Of(a)) <= 1
         THEN /\ sees' = [sees EXCEPT ![p].listed = Created,
                                      ![p].active = {j \in Created : Live(j)}]
              /\ Go(p, "capacity")
              /\ UNCHANGED goal
         ELSE End(p)
    /\ UNCHANGED <<records, job, late, faults, overran>>

(* Mutant: every capacity claim of the campaign counts as abandoned.       *)
AbandonedByAny(p) == capacity \in Jobs

(* _capacity_is_abandoned.                                                 *)
Abandoned(p) == capacity \in Jobs \ sees[p].active

WatchCapacity(p) ==
    /\ at[p] = "capacity"
    /\ capacity' = IF Abandoned(p) THEN Nobody ELSE capacity
    /\ Go(p, "decide")
    /\ sees' = [sees EXCEPT ![p].listed = {}]
    /\ UNCHANGED <<reserved, recovery, receipt, lease, claim, status, terminal, job, late,
                   goal, faults, overran>>

(* Mutant: an active Job with a stale claim is replaced.                   *)
MayRecoverActive(p) ==
    /\ ~sees[p].terminal /\ sees[p].status.state = "retryable"
    /\ sees[p].status.attempt < MaxAttempts

(* plan_controller_watchdog.  The claim is compared with the clock now: a  *)
(* claim that was valid when it was read may have expired since.           *)
MayRecover(p) ==
    /\ ~sees[p].terminal /\ sees[p].active = {}
    /\ sees[p].status.state = "retryable"
    /\ sees[p].status.attempt < MaxAttempts

Decide(p) ==
    /\ at[p] = "decide"
    /\ \/ /\ ~MayRecover(p) \/ sees[p].valid
          /\ End(p)
       \/ /\ MayRecover(p)
          /\ LET next == sees[p].status.attempt + 1 IN
               IF recovery[next] \in {Nobody, sees[p].status.job}
                 THEN /\ goal' = [goal EXCEPT ![p] = next]
                      /\ sees' = [sees EXCEPT ![p].decided = recovery[next] # Nobody,
                                               ![p].valid = FALSE]
                      /\ Go(p, "decision")
                 ELSE End(p)
    /\ UNCHANGED <<records, job, late, faults, overran>>

(* write_recovery: a decision taken meanwhile has another decided_at.      *)
(* Then reserve_attempt, which repeats the decision's time.                *)
WriteRecovery(p) ==
    /\ at[p] = "decision"
    /\ IF recovery[goal[p]] # Nobody /\ ~sees[p].decided
         THEN End(p) /\ UNCHANGED <<recovery, reserved>>
         ELSE /\ recovery' = [recovery EXCEPT ![goal[p]] = sees[p].status.job]
              /\ reserved' = reserved \cup {goal[p]}
              /\ sees' = [sees EXCEPT ![p] = Unread]
              /\ Go(p, "find")
              /\ UNCHANGED goal
    /\ UNCHANGED <<receipt, lease, claim, status, capacity, terminal, job, late,
                   faults, overran>>

-----------------------------------------------------------------------------
(* _launch_or_adopt_controller.                                            *)

(* _existing_controller_launch: the receipt, or the one Job with the       *)
(* attempt's labels, which is recorded.  Several such Jobs raise.          *)
Known(p) == receipt[goal[p]] # Nobody \/ Of(goal[p]) # {}
Adoptable(p) == receipt[goal[p]] # Nobody \/ Cardinality(Of(goal[p])) = 1

Adopt(p) ==
    receipt' = IF receipt[goal[p]] = Nobody
                 THEN [receipt EXCEPT ![goal[p]] = CHOOSE j \in Of(goal[p]) : TRUE]
                 ELSE receipt

Find(p) ==
    /\ at[p] = "find"
    /\ IF Known(p) THEN End(p) ELSE Go(p, "acquire") /\ UNCHANGED <<goal, sees>>
    /\ IF Adoptable(p) THEN Adopt(p) ELSE UNCHANGED receipt
    /\ UNCHANGED <<reserved, recovery, lease, claim, status, capacity, terminal, job, late,
                   faults, overran>>

(* acquire_launch; when it is taken, the launch may have become visible.   *)
AcquireLease(p) ==
    /\ at[p] = "acquire"
    /\ IF lease[goal[p]].fresh
         THEN /\ End(p)
              /\ IF Adoptable(p) THEN Adopt(p) ELSE UNCHANGED receipt
              /\ UNCHANGED lease
         ELSE /\ lease' = [lease EXCEPT ![goal[p]] = [owner |-> p, fresh |-> TRUE]]
              /\ Go(p, "recheck")
              /\ UNCHANGED <<receipt, goal, sees>>
    /\ UNCHANGED <<reserved, recovery, claim, status, capacity, terminal, job, late,
                   faults, overran>>

Recheck(p) ==
    /\ at[p] = "recheck"
    /\ IF Adoptable(p) THEN Adopt(p) ELSE UNCHANGED receipt
    /\ IF Known(p) /\ ~Adoptable(p)
         THEN End(p) /\ lease' = Left(p)
         ELSE Go(p, IF Adoptable(p) THEN "release" ELSE "run") /\ UNCHANGED <<lease,
                                                                              goal,
                                                                              sees>>
    /\ UNCHANGED <<reserved, recovery, claim, status, capacity, terminal, job, late,
                   faults, overran>>

(* HF Jobs creates the Job of an attempt.                                  *)
NewJob == Cardinality(Created) + 1

CreateJob(a) ==
    /\ NewJob \in Jobs
    /\ attemptOf' = [attemptOf EXCEPT ![NewJob] = a]
    /\ proc' = [proc EXCEPT ![NewJob].stage = "pending"]

(* _run_controller_launch: the command returns the Job's ID, or fails with *)
(* the Job created, not created, or created only later.                    *)
LaunchSucceeds(p) ==
    /\ at[p] = "run"
    /\ CreateJob(goal[p])
    /\ sees' = [sees EXCEPT ![p].made = NewJob]
    /\ Go(p, "look")
    /\ UNCHANGED <<records, late, goal, faults, overran>>

LaunchFails(p) ==
    /\ at[p] = "run" /\ faults < MaxFaults
    /\ faults' = faults + 1
    /\ Go(p, "look")
    /\ \/ CreateJob(goal[p]) /\ UNCHANGED late
       \/ UNCHANGED <<job, late>>
       \/ late' = late \cup {goal[p]} /\ UNCHANGED job
    /\ UNCHANGED <<records, goal, sees, overran>>

Deliver(a) ==
    /\ a \in late
    /\ CreateJob(a)
    /\ late' = late \ {a}
    /\ UNCHANGED <<records, launcher, faults, overran>>

(* _record_controller_launch, with the Job of the command's output or the  *)
(* one that carries the labels.  Without one the launch claim stays.       *)
RecordLaunch(p) ==
    /\ at[p] = "look"
    /\ LET found == IF sees[p].made # Nobody THEN {sees[p].made} ELSE Of(goal[p])
           recorded == receipt[goal[p]] IN
         IF Cardinality(found) = 1 /\ (recorded = Nobody \/ recorded \in found)
           THEN /\ receipt' = [receipt EXCEPT ![goal[p]] = CHOOSE j \in found : TRUE]
                /\ Go(p, "release")
                /\ UNCHANGED <<lease, goal, sees>>
           ELSE End(p) /\ lease' = Left(p) /\ UNCHANGED receipt
    /\ UNCHANGED <<reserved, recovery, claim, status, capacity, terminal, job, late,
                   faults, overran>>

ReleaseLease(p) ==
    /\ at[p] = "release"
    /\ lease' = IF lease[goal[p]].owner = p
                  THEN [lease EXCEPT ![goal[p]] = NoLease] ELSE lease
    /\ End(p)
    /\ UNCHANGED <<reserved, recovery, receipt, claim, status, capacity, terminal, job, late,
                   faults, overran>>

(* A launcher stops, or an operation of it raises.                         *)
Stop(p) ==
    /\ at[p] # "idle" /\ faults < MaxFaults
    /\ faults' = faults + 1
    /\ lease' = Left(p)
    /\ End(p)
    /\ UNCHANGED <<reserved, recovery, receipt, claim, status, capacity, terminal, job, late,
                   overran>>

(* _CONTROLLER_LAUNCH_LEASE is over.                                       *)
LeaseExpires(a) ==
    /\ lease[a].fresh
    /\ lease' = [lease EXCEPT ![a].fresh = FALSE]
    /\ overran' = (overran \/ a \in late
                     \/ \E p \in Launchers : lease[a].owner = p /\ at[p] \in {"recheck", "run"})
    /\ UNCHANGED <<reserved, recovery, receipt, claim, status, capacity, terminal, job, late,
                   launcher, faults>>

-----------------------------------------------------------------------------
(* Controllers.  CampaignController.run of Job j.                          *)

To(j, s) == proc' = [proc EXCEPT ![j].stage = s]

ToFinish(j, state) ==
    proc' = [proc EXCEPT ![j].stage = "finish", ![j].outcome = state, ![j].lost = FALSE]

(* Nothing of a Job's process is left once it has ended.                   *)
Die(j) == proc' = [proc EXCEPT ![j] = [NoProc EXCEPT !.stage = "dead"]]

(* acquire: no claim, or an expired one of the preceding attempt.  Every   *)
(* replacement is started with --prior-job-terminal.                       *)
MayAcquire(j) ==
    \/ claim.job = Nobody
    \/ ~claim.fresh /\ attemptOf[j] > 1 /\ attemptOf[j] = attemptOf[claim.job] + 1

Acquire(j) ==
    /\ Stage(j) = "pending"
    /\ IF MayAcquire(j)
         THEN claim' = [job |-> j, fresh |-> TRUE] /\ To(j, "recover")
         ELSE UNCHANGED claim /\ Die(j)
    /\ UNCHANGED <<reserved, recovery, receipt, lease, status, capacity, terminal,
                   attemptOf, late,
                   launcher, faults, overran>>

(* recover_provider_capacity.                                              *)
RecoverCapacity(j) ==
    /\ Stage(j) = "recover"
    /\ IF capacity \in {Nobody, Other, j}
         THEN To(j, "starting") /\ UNCHANGED capacity
         ELSE IF attemptOf[j] > 1 /\ attemptOf[capacity] < attemptOf[j]
         THEN To(j, "starting") /\ capacity' = Nobody
         ELSE ToFinish(j, "retryable") /\ UNCHANGED capacity
    /\ UNCHANGED <<reserved, recovery, receipt, lease, claim, status, terminal,
                   attemptOf, late, launcher, faults, overran>>

(* write_status refuses to go back to an earlier attempt or another Job.   *)
StatusAllows(j) ==
    \/ status.attempt < attemptOf[j]
    \/ status.attempt = attemptOf[j] /\ status.job = j

Report(j, state) ==
    status' = [attempt |-> attemptOf[j], job |-> j, state |-> state]

(* write_started and the first status; then the heartbeat starts.          *)
StartUp(j) ==
    /\ Stage(j) = "starting"
    /\ IF StatusAllows(j)
         THEN Report(j, "retryable") /\ To(j, "loop")
         ELSE ToFinish(j, "retryable") /\ UNCHANGED status
    /\ UNCHANGED <<reserved, recovery, receipt, lease, claim, capacity, terminal,
                   attemptOf, late, launcher, faults, overran>>

(* _drive goes on with another iteration: the claim is not known to be     *)
(* lost and the campaign is not over.                                      *)
Looping(j) == Stage(j) = "loop" /\ ~proc[j].lost /\ ~terminal

(* _run_iteration, with what it finds: the ownership lost, the campaign    *)
(* terminal, a signal, an admission that stops new work.                   *)
Leave(j) ==
    /\ Stage(j) = "loop"
    /\ \/ (proc[j].lost \/ ~terminal) /\ ToFinish(j, "retryable")
       \/ /\ ~proc[j].lost /\ terminal
          /\ \E s \in {"completed", "approval"} : ToFinish(j, s)
    /\ UNCHANGED <<records, attemptOf, late, launcher, faults, overran>>

(* _admit_action: the time left, or the throughput, rules the next wave    *)
(* out.                                                                    *)
Pause(j) ==
    /\ Looping(j)
    /\ IF StatusAllows(j)
         THEN Report(j, "approval") /\ ToFinish(j, "approval")
         ELSE UNCHANGED status /\ ToFinish(j, "retryable")
    /\ UNCHANGED <<reserved, recovery, receipt, lease, claim, capacity, terminal,
                   attemptOf, late, launcher, faults, overran>>

(* An action that costs nothing: its status, then apply_campaign.  It ends *)
(* the campaign, or finds that policy blocks whatever is left; a step that *)
(* does neither changes nothing here.                                      *)
ApplyLocally(j) ==
    /\ Looping(j) /\ StatusAllows(j)
    /\ Report(j, "retryable")
    /\ \/ terminal' = TRUE /\ UNCHANGED proc
       \/ UNCHANGED terminal /\ ToFinish(j, "approval")
    /\ UNCHANGED <<reserved, recovery, receipt, lease, claim, capacity,
                   attemptOf, late, launcher, faults, overran>>

(* A wave or a retry: acquire_provider_capacity.  A controller that finds  *)
(* the capacity taken reports waiting-retry and looks again later.         *)
BeginWave(j) ==
    /\ Looping(j)
    /\ capacity = Nobody
    /\ capacity' = j /\ To(j, "wave")
    /\ UNCHANGED <<reserved, recovery, receipt, lease, claim, status, terminal,
                   attemptOf, late, launcher, faults, overran>>

(* InProcessWaveExecutor: the wave of the provider runs in this process,   *)
(* and its end, good or bad, is in the Bucket; another iteration follows,  *)
(* or policy blocks whatever is left.                                      *)
ExecuteWave(j) == To(j, "loop") \/ ToFinish(j, "approval")

(* The status, then the wave, then release_provider_capacity, which raises *)
(* when somebody else has the claim.                                       *)
RunWave(j) ==
    /\ Stage(j) = "wave" /\ StatusAllows(j) /\ capacity \in {j, Nobody}
    /\ Report(j, "retryable")
    /\ capacity' = Nobody
    /\ ExecuteWave(j)
    /\ UNCHANGED <<reserved, recovery, receipt, lease, claim, terminal, attemptOf, late,
                   launcher, faults, overran>>

(* An operation raises.  Under a capacity claim the finally clause returns *)
(* it, unless that is what raised.                                         *)
Raise(j) ==
    /\ Stage(j) \in Working
    /\ \E s \in {"retryable", "approval"} : ToFinish(j, s)
    /\ \/ UNCHANGED capacity
       \/ Stage(j) = "wave" /\ capacity = j /\ capacity' = Nobody
    /\ UNCHANGED <<reserved, recovery, receipt, lease, claim, status, terminal,
                   attemptOf, late, launcher, faults, overran>>

(* _finish_attempt: the last status and the end receipt, either of which   *)
(* may raise, then the release of the claim the heartbeat last knew.       *)
Finish(j) ==
    /\ Stage(j) = "finish"
    /\ \/ StatusAllows(j) /\ Report(j, proc[j].outcome)
       \/ UNCHANGED status
    /\ proc' = [proc EXCEPT ![j].stage = "unclaim", ![j].outcome = "retryable"]
    /\ UNCHANGED <<reserved, recovery, receipt, lease, claim, capacity, terminal,
                   attemptOf, late, launcher, faults, overran>>

Unclaim(j) ==
    /\ Stage(j) = "unclaim"
    /\ claim' = IF claim.job = j /\ ~proc[j].detached THEN NoClaim ELSE claim
    /\ Die(j)
    /\ UNCHANGED <<reserved, recovery, receipt, lease, status, capacity, terminal,
                   attemptOf, late,
                   launcher, faults, overran>>

(* _Heartbeat._run beside the controller.  A renewal that fails, or whose  *)
(* reply is lost, ends the thread.  Nothing tells a wave that is running.  *)
Renew(j) ==
    /\ Stage(j) \in {"loop", "wave"} /\ ~proc[j].lost
    /\ \/ /\ claim.job = j
          /\ claim' = [claim EXCEPT !.fresh = TRUE]
          /\ \E reply \in BOOLEAN :
               proc' = [proc EXCEPT ![j].lost = ~reply, ![j].detached = ~reply]
       \/ proc' = [proc EXCEPT ![j].lost = TRUE] /\ UNCHANGED claim
    /\ UNCHANGED <<reserved, recovery, receipt, lease, status, capacity, terminal,
                   attemptOf, late, launcher, faults, overran>>

(* stale_after_seconds have passed since the last heartbeat.               *)
ClaimExpires ==
    /\ claim.fresh
    /\ claim' = [claim EXCEPT !.fresh = FALSE]
    /\ UNCHANGED <<reserved, recovery, receipt, lease, status, capacity, terminal, job, late,
                   launcher, faults, overran>>

(* The platform ends a Job: a timeout, a kill, a failure before acquire.   *)
Kill(j) ==
    /\ Live(j)
    /\ Die(j)
    /\ UNCHANGED <<records, attemptOf, late, launcher, faults, overran>>

(* Another campaign's controller runs a wave on the same provider.         *)
OtherWave ==
    /\ \/ capacity = Nobody /\ capacity' = Other
       \/ capacity = Other /\ capacity' = Nobody
    /\ UNCHANGED <<reserved, recovery, receipt, lease, claim, status, terminal, job, late,
                   launcher, faults, overran>>

-----------------------------------------------------------------------------
Launch(p) ==
    \/ WatchJobs(p) \/ WatchCapacity(p) \/ Decide(p) \/ WriteRecovery(p)
    \/ Find(p) \/ AcquireLease(p) \/ Recheck(p)
    \/ LaunchSucceeds(p) \/ RecordLaunch(p) \/ ReleaseLease(p)

Control(j) ==
    \/ Acquire(j) \/ RecoverCapacity(j) \/ StartUp(j) \/ Leave(j) \/ Pause(j)
    \/ ApplyLocally(j) \/ BeginWave(j) \/ RunWave(j) \/ Raise(j)
    \/ Finish(j) \/ Unclaim(j)

ControllersNext ==
    \/ \E p \in Launchers : \/ Submit(p) \/ WatchRecords(p) \/ Launch(p) \/ LaunchFails(p)
                            \/ Stop(p)
    \/ \E a \in Attempts : Deliver(a) \/ LeaseExpires(a)
    \/ \E j \in Jobs : Control(j) \/ Renew(j) \/ Kill(j)
    \/ ClaimExpires \/ OtherWave

ControllersSpec == ControllersInit /\ [][ControllersNext]_controllerVars

-----------------------------------------------------------------------------
(* As long as no launch takes longer than its lease, at most one Job of    *)
(* the campaign is alive: a replacement is started only when the previous  *)
(* Job has ended, whatever the launchers read and when.                    *)
OneLiveJob == overran \/ Cardinality({j \in Jobs : Live(j)}) <= 1

(* A live Job keeps its capacity claim until it returns it itself, or      *)
(* until a watchdog removes it that listed the Jobs before this one was    *)
(* created.                                                                *)
CapacityKept ==
    [][\A j \in Jobs :
          /\ ~overran' /\ capacity = j /\ capacity' # j /\ Live(j)
          /\ Stage(j)' = Stage(j)
          => \E p \in Watchdogs : at[p] = "capacity" /\ j \notin sees[p].listed]_controllerVars
=============================================================================
