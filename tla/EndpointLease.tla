--------------------------- MODULE EndpointLease ---------------------------
(***************************************************************************)
(* One Inference Endpoint and the Jobs that turn it on: wave workers of a  *)
(* campaign (after its reconciler has provisioned the endpoint), run       *)
(* workers and profile workers.  Every Job checks that the endpoint is     *)
(* paused, launches a cleanup watchdog Job, resumes the endpoint once the  *)
(* watchdog holds the endpoint's lease, uses it, pauses it and publishes   *)
(* its evidence.  The watchdog pauses the endpoint after its Job ended and *)
(* then gives the lease back.                                              *)
(*                                                                         *)
(* A Job may be killed at any step, a call may fail before or after it     *)
(* took effect, and a pause may never be confirmed; MaxFaults bounds those *)
(* together.  Configuration drift of the endpoint is left out: every       *)
(* snapshot is taken to match the lock.                                    *)
(***************************************************************************)
EXTENDS Naturals, FiniteSets

CONSTANTS
  Users,       \* the Jobs
  Casts,       \* what the Jobs may be: functions from Users to Roles
  MaxFaults,   \* bound on killed Jobs, failed calls and unconfirmed pauses
  Nobody       \* not a user: the lease or claim is free

Kinds == {"wave", "run", "profile", "managed-profile"}

(* A Job's kind and the evidence prefix (run, wave or profile id) it writes. *)
Roles == [kind : Kinds, unit : Users]

(* A run, a wave and a profile have prefixes of their own, and the plan of a
   profile fixes its kind: Jobs of one unit are of one kind. *)
ASSUME CastsAssumption ==
  /\ IsFiniteSet(Users) /\ Nobody \notin Users /\ MaxFaults \in Nat
  /\ Casts \subseteq [Users -> Roles]
  /\ \A c \in Casts : \A u, v \in Users : c[u].unit = c[v].unit => c[u].kind = c[v].kind

VARIABLES
  cast,        \* the roles of this behaviour
  endpoint,    \* "absent", "paused", "starting", "running" or "pausing"
  lease,       \* the user whose watchdog holds the endpoint claim
  claim,       \* unit -> the user that reserved it (wave worker lease, run claim)
  evidence,    \* unit -> "none", "profile" (profile.json, no marker), "success", "failed"
  user,        \* what each Job, or the reconciler on its behalf, is doing; whether it
               \* must pause the endpoint, had no error, and failed no cleanup
  dog,         \* each Job's watchdog
  provenance,  \* an ambiguous action recorded the endpoint's name
  orphaned,    \* a pass died and left the endpoint it had created on
  intruders,   \* users that asked for a pause without a lease
  faults

vars == <<cast, endpoint, lease, claim, evidence, user, dog, provenance,
          orphaned, intruders, faults>>

On == {"starting", "running"}

UserSteps ==
  {"off", "create", "created", "creating-pause", "submit",        \* provisioning
   "queued", "inspect", "baseline", "launch", "waiting", "resume", \* the Job
   "resumed", "using", "cleanup", "pausing", "verifying", "publish", "mark",
   "recheck", "ended", "dead", "closing", "closing-pause", "closed"}
DogSteps == {"none", "submitted", "holding", "ready", "pausing", "verifying",
             "done", "refused", "lost"}

Kind(u) == cast[u].kind
Unit(u) == cast[u].unit
IsProfile(u) == Kind(u) \in {"profile", "managed-profile"}
Managed(u) == Kind(u) \in {"wave", "managed-profile"}

Terminal(unit) == evidence[unit] \in {"success", "failed"}

(* The Job is over, whatever the reconciler still does for it. *)
Ended(u) == user[u].pc \in {"ended", "dead", "closing", "closing-pause", "closed"}

TypeOK ==
  /\ cast \in Casts
  /\ endpoint \in {"absent", "paused", "starting", "running", "pausing"}
  /\ lease \in Users \cup {Nobody}
  /\ claim \in [Users -> Users \cup {Nobody}]
  /\ evidence \in [Users -> {"none", "profile", "success", "failed"}]
  /\ user \in [Users -> [pc : UserSteps, required : BOOLEAN, ok : BOOLEAN,
                         clean : BOOLEAN]]
  /\ dog \in [Users -> DogSteps]
  /\ provenance \in BOOLEAN /\ orphaned \in BOOLEAN
  /\ intruders \subseteq Users
  /\ faults \in 0..MaxFaults

(* A wave starts with the reconciler's provisioning; other Jobs are submitted. *)
Init ==
  /\ cast \in Casts
  /\ endpoint = IF \E u \in Users : Managed(u) THEN "absent" ELSE "paused"
  /\ lease = Nobody
  /\ claim = [u \in Users |-> Nobody]
  /\ evidence = [u \in Users |-> "none"]
  /\ user = [u \in Users |->
               [pc |-> IF Kind(u) = "wave" THEN "off" ELSE "queued",
                required |-> Kind(u) = "managed-profile", ok |-> TRUE, clean |-> TRUE]]
  /\ dog = [u \in Users |-> "none"]
  /\ provenance = FALSE /\ orphaned = FALSE /\ intruders = {}
  /\ faults = 0

Goto(u, pc) == user' = [user EXCEPT ![u].pc = pc]
Raise(u) == user' = [user EXCEPT ![u].pc = "cleanup", ![u].ok = FALSE]
Fault == faults < MaxFaults /\ faults' = faults + 1
NoFault == UNCHANGED faults

JobOnly == UNCHANGED <<cast, lease, claim, evidence, provenance, orphaned, intruders>>

-----------------------------------------------------------------------------
(* The endpoint service (external).                                        *)

Boot == endpoint = "starting" /\ endpoint' = "running"
        /\ UNCHANGED <<cast, lease, claim, evidence, user, dog, provenance,
                       orphaned, intruders, faults>>

Drained == endpoint = "pausing" /\ endpoint' = "paused"
           /\ UNCHANGED <<cast, lease, claim, evidence, user, dog, provenance,
                          orphaned, intruders, faults>>

PauseEffect == endpoint' = IF endpoint \in On THEN "pausing" ELSE endpoint
-----------------------------------------------------------------------------
(* The reconciler provisions the endpoint of a wave and submits its Job.   *)
(* It handles one wave at a time: the earlier ones are closed.             *)

Turn(u) == /\ Kind(u) = "wave"
           /\ \A v \in Users \ {u} : user[v].pc \in {"off", "closed"}

(* The endpoint was left by an action of this deployment that is known to
   have failed on it, and no wave of the deployment is open. *)
RecoverableOrphan == provenance

(* An endpoint that is on is adopted only after a pause that an earlier,
   ambiguous action of this deployment accounts for; otherwise
   create_or_adopt refuses it and the action fails. *)
ProvisionEndpoint(u) ==
  /\ Turn(u) /\ user[u].pc = "off" /\ ~ Terminal(Unit(u))
  /\ \/ endpoint = "absent" /\ Goto(u, "create")
     \/ endpoint = "paused" /\ Goto(u, "submit")
     \/ endpoint \in On \cup {"pausing"} /\ RecoverableOrphan /\ Goto(u, "created")
  /\ NoFault /\ JobOnly /\ UNCHANGED <<endpoint, dog>>

(* An ambiguous create is adopted when it took effect, given up when not.  *)
CreateEndpoint(u) ==
  /\ user[u].pc = "create"
  /\ \/ endpoint' = "starting" /\ Goto(u, "created") /\ NoFault
     \/ Fault /\ endpoint' = "absent"
        /\ IF Kind(u) = "wave" THEN Goto(u, "off") ELSE Raise(u)
  /\ JobOnly /\ UNCHANGED dog

PauseCreated(u) ==
  /\ user[u].pc = "created"
  /\ \/ PauseEffect /\ NoFault
     \/ Fault /\ UNCHANGED endpoint
  /\ Goto(u, "creating-pause")
  /\ JobOnly /\ UNCHANGED dog

(* A pause that is not confirmed, nor by the second try, ends the action as
   ambiguous, with the endpoint's name. *)
CreatedPaused(u) ==
  /\ user[u].pc = "creating-pause"
  /\ \/ /\ endpoint = "paused" /\ NoFault /\ UNCHANGED provenance
        /\ Goto(u, IF Kind(u) = "wave" THEN "submit" ELSE "baseline")
     \/ /\ endpoint # "paused" /\ NoFault
        /\ endpoint \in On
        /\ Goto(u, "created") /\ UNCHANGED provenance
     \/ /\ Fault
        /\ provenance' = (provenance \/ Kind(u) = "wave")
        /\ IF Kind(u) = "wave" THEN Goto(u, "off") ELSE Raise(u)
  /\ UNCHANGED <<cast, endpoint, lease, claim, evidence, dog, orphaned, intruders>>

SubmitJob(u) ==
  /\ user[u].pc = "submit" /\ Goto(u, "queued")
  /\ NoFault /\ JobOnly /\ UNCHANGED <<endpoint, dog>>

(* The reconciler's process stops while it provisions for a wave.          *)
PassStops(u) ==
  /\ Kind(u) = "wave" /\ user[u].pc \in {"create", "created", "creating-pause", "submit"}
  /\ Fault /\ Goto(u, "off")
  /\ orphaned' = (orphaned \/ (endpoint \in On /\ ~ provenance))
  /\ UNCHANGED <<cast, endpoint, lease, claim, evidence, dog, provenance, intruders>>
-----------------------------------------------------------------------------
(* The Job.                                                                *)

(* A claim expires with its Job's timeout, when that Job is over.           *)
Claimable(u) == claim[Unit(u)] \in {Nobody} \cup {v \in Users \ {u} : Ended(v)}

(* Two Jobs of one profile never overlap; nothing else orders the Jobs.    *)
Starts(u) == IsProfile(u) =>
               \A v \in Users \ {u} : Unit(v) = Unit(u) => user[v].pc \in {"queued", "ended", "dead"}

(* A profile prefix is new, to be resumed, selected but unmarked, or over. *)
ProfileDestination(u) ==
  IF Terminal(Unit(u)) THEN "ended"
  ELSE IF evidence[Unit(u)] = "profile" THEN "recheck"
  ELSE IF Managed(u) THEN "inspect" ELSE "baseline"

(* run_worker and the wave lease reserve the unit first; every Job refuses
   a destination with terminal evidence. *)
StartJob(u) ==
  /\ user[u].pc = "queued" /\ Starts(u)
  /\ IF IsProfile(u)
     THEN UNCHANGED claim /\ Goto(u, ProfileDestination(u))
     ELSE \/ /\ ~ Claimable(u) /\ UNCHANGED claim /\ Goto(u, "ended")
          \/ /\ Claimable(u)
             /\ IF Terminal(Unit(u))
                THEN claim' = [claim EXCEPT ![Unit(u)] = Nobody] /\ Goto(u, "ended")
                ELSE claim' = [claim EXCEPT ![Unit(u)] = u] /\ Goto(u, "baseline")
  /\ NoFault /\ UNCHANGED <<cast, endpoint, lease, evidence, dog, provenance, orphaned, intruders>>

(* A managed profile adopts an existing endpoint before it launches the
   watchdog, and creates a missing one after. *)
InspectManaged(u) ==
  /\ user[u].pc = "inspect"
  /\ \/ endpoint \in {"absent", "paused"} /\ Goto(u, "launch")
     \/ endpoint \notin {"absent", "paused"} /\ Raise(u)
  /\ NoFault /\ JobOnly /\ UNCHANGED <<endpoint, dog>>

(* A profile worker counts on cleaning up before its watchdog is launched. *)
Baseline(u) ==
  /\ user[u].pc = "baseline"
  /\ \/ /\ endpoint = "paused" /\ NoFault
        /\ user' = [user EXCEPT ![u].pc = IF dog[u] = "none" THEN "launch" ELSE "resume",
                                ![u].required = IsProfile(u)]
     \/ endpoint # "paused" /\ Raise(u) /\ NoFault
     \/ Fault /\ Raise(u)
  /\ JobOnly /\ UNCHANGED <<endpoint, dog>>

LaunchWatchdog(u) ==
  /\ user[u].pc = "launch"
  /\ \/ dog' = [dog EXCEPT ![u] = "submitted"] /\ Goto(u, "waiting") /\ NoFault
     \/ Fault /\ Raise(u) /\ UNCHANGED dog
  /\ JobOnly /\ UNCHANGED endpoint

(* The Job owns the endpoint once the watchdog's label says it is ready; a
   watchdog that exits first, or is not ready in time, is an error. *)
WatchdogReady(u) ==
  /\ user[u].pc = "waiting"
  /\ \/ /\ dog[u] = "ready" /\ NoFault
        /\ user' = [user EXCEPT ![u].required = TRUE,
                     ![u].pc = IF endpoint = "absent" THEN "create"
                               ELSE IF IsProfile(u) THEN "baseline"
                               ELSE "resume"]
     \/ dog[u] \in {"refused", "lost", "done"} /\ Raise(u) /\ NoFault
     \/ Fault /\ Raise(u)
  /\ JobOnly /\ UNCHANGED <<endpoint, dog>>

Resume(u) ==
  /\ user[u].pc = "resume"
  /\ \/ endpoint # "absent" /\ endpoint' = "starting" /\ Goto(u, "resumed") /\ NoFault
     \/ Fault /\ Raise(u) /\ endpoint' \in {endpoint, "starting"}
  /\ JobOnly /\ UNCHANGED dog

WaitReady(u) ==
  /\ user[u].pc = "resumed"
  /\ \/ endpoint = "running" /\ Goto(u, "using") /\ NoFault
     \/ endpoint \notin On /\ Raise(u) /\ NoFault
     \/ Fault /\ Raise(u)
  /\ JobOnly /\ UNCHANGED <<endpoint, dog>>

(* The benchmark, the wave's shards or the profile ladder end.             *)
Work(u) ==
  /\ user[u].pc = "using"
  /\ \/ Goto(u, "cleanup")
     \/ Raise(u)
  /\ NoFault /\ JobOnly /\ UNCHANGED <<endpoint, dog>>

(* A wave or run worker whose watchdog has no lease skips the cleanup; a
   profile worker whose watchdog was refused does not. *)
CleanupEndpoint(u) ==
  /\ user[u].pc = "cleanup"
  /\ Goto(u, IF user[u].required /\ (Kind(u) = "managed-profile" => endpoint # "absent")
             THEN "pausing" ELSE "publish")
  /\ NoFault /\ JobOnly /\ UNCHANGED <<endpoint, dog>>

PauseEndpointUnverified(u) ==
  /\ user[u].pc = "pausing" /\ PauseEffect /\ Goto(u, "publish") /\ NoFault
  /\ intruders' = IF lease = u THEN intruders ELSE intruders \cup {u}
  /\ UNCHANGED <<cast, lease, claim, evidence, dog, provenance, orphaned>>

(* pause_and_verify: the request is repeated until it is accepted or the
   endpoint is seen pausing. *)
PauseEndpoint(u) ==
  /\ user[u].pc = "pausing"
  /\ \/ PauseEffect /\ Goto(u, "verifying") /\ NoFault
     \/ Fault /\ PauseEffect /\ UNCHANGED user
     \/ Fault /\ UNCHANGED <<endpoint, user>>
  /\ intruders' = IF lease = u THEN intruders ELSE intruders \cup {u}
  /\ UNCHANGED <<cast, lease, claim, evidence, dog, provenance, orphaned>>

VerifyPaused(u) ==
  /\ user[u].pc = "verifying"
  /\ \/ endpoint = "paused" /\ NoFault /\ Goto(u, "publish")
     \/ /\ \/ endpoint \in On /\ NoFault
           \/ Fault
        /\ user' = [user EXCEPT ![u].pc = "publish", ![u].clean = FALSE]
  /\ JobOnly /\ UNCHANGED <<endpoint, dog>>

ReleaseClaim(u) ==
  claim' = IF claim[Unit(u)] = u THEN [claim EXCEPT ![Unit(u)] = Nobody] ELSE claim

(* The marker of a wave or run: success only with a verified pause.  The
   wave lease is always released, the run claim only without a marker.
   A profile without verified cleanup stays without a marker. *)
Publish(u) ==
  /\ user[u].pc = "publish"
  /\ IF IsProfile(u)
     THEN /\ UNCHANGED claim /\ NoFault
          /\ IF user[u].ok /\ user[u].clean
             THEN evidence' = [evidence EXCEPT ![Unit(u)] = "profile"] /\ Goto(u, "mark")
             ELSE /\ evidence' = IF user[u].clean
                                 THEN [evidence EXCEPT ![Unit(u)] = "failed"] ELSE evidence
                  /\ Goto(u, "ended")
     ELSE \/ /\ NoFault
             /\ evidence' = [evidence EXCEPT ![Unit(u)] =
                               IF user[u].ok /\ user[u].clean THEN "success" ELSE "failed"]
             /\ IF Kind(u) = "wave" THEN ReleaseClaim(u) ELSE UNCHANGED claim
             /\ Goto(u, "ended")
          \/ /\ Fault /\ UNCHANGED evidence /\ ReleaseClaim(u) /\ Goto(u, "ended")
  /\ UNCHANGED <<cast, endpoint, lease, dog, provenance, orphaned, intruders>>

MarkSelected(u) ==
  /\ user[u].pc = "mark"
  /\ evidence' = [evidence EXCEPT ![Unit(u)] = "success"] /\ Goto(u, "ended")
  /\ NoFault /\ UNCHANGED <<cast, endpoint, lease, claim, dog, provenance, orphaned, intruders>>

(* A restarted profile Job finds profile.json without its marker.          *)
RecheckCleanup(u) ==
  /\ user[u].pc = "recheck"
  /\ Goto(u, IF endpoint = "paused" THEN "mark" ELSE "ended")
  /\ NoFault /\ JobOnly /\ UNCHANGED <<endpoint, dog>>

JobKilled(u) ==
  /\ user[u].pc \in UserSteps \ {"off", "submit", "ended", "dead", "closing",
                                 "closing-pause", "closed"}
  /\ Kind(u) = "wave" => user[u].pc \notin {"create", "created", "creating-pause"}
  /\ Fault /\ Goto(u, "dead")
  /\ JobOnly /\ UNCHANGED <<endpoint, dog>>
-----------------------------------------------------------------------------
(* The reconciler closes a wave whose Job ended: cleanup-wave.             *)

CleanupWave(u) ==
  /\ Kind(u) = "wave"
  /\ \/ user[u].pc \in {"ended", "dead"} /\ Goto(u, "closing") /\ UNCHANGED endpoint
     \/ user[u].pc = "closing" /\ endpoint = "paused" /\ Goto(u, "closed") /\ UNCHANGED endpoint
     \/ user[u].pc = "closing" /\ endpoint \in On /\ PauseEffect /\ UNCHANGED user
  /\ NoFault /\ JobOnly /\ UNCHANGED dog
-----------------------------------------------------------------------------
(* The watchdog Job.                                                       *)

DogOnly == UNCHANGED <<cast, claim, evidence, user, provenance, orphaned, intruders>>

ClaimEndpointShared(u) ==
  /\ dog[u] = "submitted"
  /\ lease' = u /\ dog' = [dog EXCEPT ![u] = "holding"]
  /\ NoFault /\ DogOnly /\ UNCHANGED endpoint

ClaimEndpoint(u) ==
  /\ dog[u] = "submitted"
  /\ IF lease = Nobody
     THEN lease' = u /\ dog' = [dog EXCEPT ![u] = "holding"]
     ELSE UNCHANGED lease /\ dog' = [dog EXCEPT ![u] = "refused"]
  /\ NoFault /\ DogOnly /\ UNCHANGED endpoint

(* Without its label the watchdog still guards the endpoint.               *)
MarkReady(u) ==
  /\ dog[u] = "holding"
  /\ dog' = [dog EXCEPT ![u] = "ready"]
  /\ NoFault /\ DogOnly /\ UNCHANGED <<endpoint, lease>>

SeeJobEndedAndLeave(u) ==
  /\ dog[u] \in {"holding", "ready"} /\ Ended(u)
  /\ dog' = [dog EXCEPT ![u] = "done"] /\ lease' = Nobody
  /\ NoFault /\ DogOnly /\ UNCHANGED endpoint

(* The Job's own timeout ends it before the watchdog stops waiting.        *)
SeeJobEnded(u) ==
  /\ dog[u] \in {"holding", "ready"} /\ Ended(u)
  /\ dog' = [dog EXCEPT ![u] = "pausing"]
  /\ NoFault /\ DogOnly /\ UNCHANGED <<endpoint, lease>>

DogPauses(u) ==
  /\ dog[u] = "pausing"
  /\ \/ endpoint # "absent" /\ PauseEffect /\ dog' = [dog EXCEPT ![u] = "verifying"] /\ NoFault
     \/ endpoint = "absent" /\ dog' = [dog EXCEPT ![u] = "lost"] /\ UNCHANGED endpoint /\ NoFault
     \/ Fault /\ PauseEffect /\ UNCHANGED dog
  /\ DogOnly /\ UNCHANGED lease

(* Only a verified pause gives the lease back.                             *)
DogReleases(u) ==
  /\ dog[u] = "verifying"
  /\ \/ endpoint = "paused" /\ lease' = Nobody /\ dog' = [dog EXCEPT ![u] = "done"] /\ NoFault
     \/ Fault /\ dog' = [dog EXCEPT ![u] = "lost"] /\ UNCHANGED lease
  /\ DogOnly /\ UNCHANGED endpoint

DogKilled(u) ==
  /\ dog[u] \in {"submitted", "holding", "ready", "pausing"}
  /\ Fault /\ dog' = [dog EXCEPT ![u] = "lost"]
  /\ DogOnly /\ UNCHANGED <<endpoint, lease>>
-----------------------------------------------------------------------------
Provisioning(u) == ProvisionEndpoint(u) \/ CreateEndpoint(u) \/ PauseCreated(u)
                   \/ CreatedPaused(u) \/ SubmitJob(u)
JobStep(u) ==
  \/ StartJob(u) \/ InspectManaged(u) \/ Baseline(u) \/ LaunchWatchdog(u)
  \/ WatchdogReady(u) \/ Resume(u) \/ WaitReady(u) \/ Work(u) \/ CleanupEndpoint(u)
  \/ PauseEndpoint(u) \/ VerifyPaused(u) \/ Publish(u) \/ MarkSelected(u) \/ RecheckCleanup(u)
DogStep(u) == ClaimEndpoint(u) \/ MarkReady(u) \/ SeeJobEnded(u) \/ DogPauses(u) \/ DogReleases(u)

Next ==
  \/ Boot \/ Drained
  \/ \E u \in Users : Provisioning(u) \/ JobStep(u) \/ CleanupWave(u) \/ DogStep(u)
                      \/ PassStops(u) \/ JobKilled(u) \/ DogKilled(u)

(* Processes keep running: the service, a Job, its watchdog and the
   reconciler's passes take their steps; no fault is owed. *)
Fairness ==
  /\ WF_vars(Boot) /\ WF_vars(Drained)
  /\ \A u \in Users : /\ WF_vars(JobStep(u) /\ NoFault)
                      /\ WF_vars(DogStep(u) /\ NoFault)
                      /\ WF_vars((Provisioning(u) \/ CleanupWave(u)) /\ NoFault)

Spec == Init /\ [][Next]_vars /\ Fairness
-----------------------------------------------------------------------------
(* While no Job without a lease has asked for a pause, the endpoint a Job
   is using stays up: no other Job, watchdog or reconciler pauses it. *)
UndisturbedUse ==
  intruders = {} => \A u \in Users : user[u].pc = "using" => endpoint = "running"

(* Success is published only for an endpoint that was seen paused, and the
   lease keeps it so until the watchdog has paused it again. *)
PausedAtSuccess ==
  \A u \in Users : evidence[Unit(u)] = "success" /\ lease = u => endpoint = "paused"

(* When every Job is over the endpoint ends up off, except where the last
   line of defence is gone: a watchdog was lost, or a reconciler pass died
   between creating the endpoint and pausing it. *)
Abandoned == orphaned \/ \E u \in Users : dog[u] = "lost"
EndpointEndsOff ==
  (\A u \in Users : Ended(u) \/ user[u].pc = "off")
     ~> (endpoint \in {"absent", "paused"} \/ Abandoned
         \/ \E u \in Users : ~ (Ended(u) \/ user[u].pc = "off"))
=============================================================================
