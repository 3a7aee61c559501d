------------------------ MODULE EndpointLeaseProofs ------------------------
(***************************************************************************)
(* Proofs about EndpointLease for any number of Jobs, any cast of kinds    *)
(* and units, and any number of faults.                                    *)
(*                                                                         *)
(* That nobody disturbs a Job is inductive only together with who may      *)
(* touch the endpoint at all: a Job past its watchdog's label has the      *)
(* lease (LeaseOK), and a wave that is being provisioned, run or closed    *)
(* has the endpoint's Jobs to itself (WaveOK).  That success means a       *)
(* paused endpoint needs, besides, that a Job without an error cannot skip *)
(* the pause (CleanupOK), that one Job at a time works on a unit (ClaimOK, *)
(* ProfileOK), and that a unit with success is never worked on again      *)
(* (EvidenceOK).                                                           *)
(***************************************************************************)
EXTENDS EndpointLease, TLAPS

(* The steps of a Job between its start and its end.                       *)
JobSteps == {"inspect", "baseline", "launch", "waiting", "resume", "resumed", "using",
             "cleanup", "pausing", "verifying", "publish"}
CreateSteps == {"create", "created", "creating-pause"}

(* The Job has started and has not ended; a wave's create steps are the    *)
(* reconciler's and come before its Job.                                   *)
Working(u) == \/ user[u].pc \in JobSteps
              \/ user[u].pc \in CreateSteps /\ Kind(u) # "wave"

(* The Job goes on under the lease of its watchdog.                        *)
Owning(u) == \/ user[u].pc \in {"resume", "resumed", "using"}
             \/ user[u].pc \in CreateSteps /\ Kind(u) # "wave"
             \/ user[u].pc = "baseline" /\ dog[u] # "none"
             \/ user[u].pc \in {"cleanup", "pausing", "verifying", "publish"} /\ user[u].ok

(* The lease: a watchdog that guards or pauses holds it, it pauses only    *)
(* after its Job, and a Job that owns the endpoint has it.                 *)
LeaseOK(u) ==
  /\ dog[u] \in {"holding", "ready", "pausing", "verifying"} => lease = u
  /\ dog[u] \in {"pausing", "verifying"} => Ended(u)
  /\ Owning(u) => lease = u /\ dog[u] \in {"ready", "lost"}
  /\ user[u].pc \in {"off", "submit", "queued", "inspect", "launch"} => dog[u] = "none"
  /\ user[u].pc \in CreateSteps /\ Kind(u) = "wave" => dog[u] = "none"

(* A wave has the endpoint's Jobs to itself until it is closed.            *)
WaveOK(u) ==
  Kind(u) = "wave" /\ user[u].pc \notin {"off", "closed"} =>
    \A v \in Users \ {u} : user[v].pc \in {"off", "closed"}

(* An endpoint is created once, and whoever used it without an error has   *)
(* to see it paused.                                                       *)
CleanupOK(u) ==
  /\ user[u].pc = "create" => endpoint = "absent"
  /\ user[u].pc \in CreateSteps => Managed(u)
  /\ user[u].pc = "inspect" => Kind(u) = "managed-profile"
  /\ user[u].pc \in {"launch", "waiting"} /\ Kind(u) # "managed-profile" => endpoint # "absent"
  /\ user[u].pc \in {"resumed", "using"} => endpoint # "absent"
  /\ user[u].ok /\ user[u].pc = "cleanup" => endpoint # "absent"
  /\ user[u].pc = "baseline" /\ dog[u] # "none" => IsProfile(u)
  /\ Owning(u) /\ user[u].pc \notin {"pausing", "verifying", "publish"} => user[u].required
  /\ user[u].pc = "publish" /\ user[u].ok /\ user[u].clean => endpoint = "paused"

(* One Job at a time works on a unit: a run or a wave under its claim, a   *)
(* profile because no other Job of it is active.                           *)
ClaimOK(u) == Working(u) /\ ~ IsProfile(u) => claim[Unit(u)] = u

Idle == {"queued", "ended", "dead"}
Outside == {"off", "submit", "closing", "closing-pause", "closed"}   \* a wave's only
ProfileOK(u) ==
  IsProfile(u) =>
    /\ user[u].pc \notin Outside
    /\ user[u].pc \notin Idle =>
         \A v \in Users \ {u} : Unit(v) = Unit(u) => user[v].pc \in Idle

Selected(unit) == evidence[unit] \in {"profile", "success"}

(* Evidence of success: never under a working Job, always under a marking  *)
(* one; and who has the lease of such a unit finds the endpoint paused, as *)
(* everybody does while nobody has it.                                     *)
EvidenceOK(u) ==
  /\ Working(u) => ~ Selected(Unit(u))
  /\ user[u].pc \in {"mark", "recheck"} => Selected(Unit(u)) /\ IsProfile(u)
  /\ evidence[Unit(u)] = "profile" => IsProfile(u)
  /\ Selected(Unit(u)) /\ lease = u => endpoint = "paused"
  /\ Selected(u) /\ lease = Nobody => endpoint = "paused"

UseOK(u) == intruders = {} /\ user[u].pc = "using" => endpoint = "running"

EndpointInv ==
  /\ TypeOK
  /\ \A u \in Users : /\ LeaseOK(u) /\ WaveOK(u) /\ CleanupOK(u)
                      /\ ClaimOK(u) /\ ProfileOK(u) /\ EvidenceOK(u) /\ UseOK(u)

(* The types of the Jobs, and of everything else.                          *)
UserTypes == user \in [Users -> [pc : UserSteps, required : BOOLEAN, ok : BOOLEAN,
                                 clean : BOOLEAN]]
OtherTypes ==
  /\ cast \in Casts
  /\ endpoint \in {"absent", "paused", "starting", "running", "pausing"}
  /\ lease \in Users \cup {Nobody}
  /\ claim \in [Users -> Users \cup {Nobody}]
  /\ evidence \in [Users -> {"none", "profile", "success", "failed"}]
  /\ dog \in [Users -> DogSteps]
  /\ provenance \in BOOLEAN /\ orphaned \in BOOLEAN
  /\ intruders \subseteq Users
  /\ faults \in 0..MaxFaults

(* The roles are fixed, and Jobs of one unit are of one kind.              *)
LEMMA CastOK ==
    ASSUME TypeOK
    PROVE  /\ \A u \in Users : Kind(u) \in Kinds /\ Unit(u) \in Users
           /\ \A u, v \in Users : Unit(u) = Unit(v) => Kind(u) = Kind(v)
  BY CastsAssumption DEF TypeOK, Kind, Unit, Roles

(* A Job that goes to another step, or raises an error, stays well typed.  *)
LEMMA GotoTypes ==
    ASSUME UserTypes
    PROVE  /\ UNCHANGED user => UserTypes'
           /\ \A u \in Users : Raise(u) => UserTypes'
           /\ \A u \in Users : \A pc \in UserSteps : Goto(u, pc) => UserTypes'
  BY DEF UserTypes, Goto, Raise, UserSteps

(* So does one that learns whether it has to pause the endpoint.           *)
LEMMA RequireTypes ==
    ASSUME UserTypes, NEW u \in Users, NEW pc \in UserSteps, NEW b \in BOOLEAN,
           user' = [user EXCEPT ![u].pc = pc, ![u].required = b]
    PROVE  UserTypes'
  BY Zenon DEF UserTypes

(* Every step keeps the types of the Jobs.                                 *)
LEMMA UserTypesNext ==
    ASSUME EndpointInv, [Next]_vars
    PROVE  UserTypes'
  <1>0. UserTypes
    BY DEF EndpointInv, TypeOK, UserTypes
  <1>g. /\ UNCHANGED user => UserTypes'
        /\ \A u \in Users : Raise(u) => UserTypes'
        /\ \A u \in Users : \A pc \in UserSteps : Goto(u, pc) => UserTypes'
    BY <1>0, GotoTypes
  <1> USE DEF UserSteps
  <1>1. CASE UNCHANGED vars
    BY <1>0, <1>g, <1>1 DEF vars, UserTypes
  <1>2. CASE Boot \/ Drained
    BY <1>0, <1>g, <1>2 DEF Boot, Drained, UserTypes
  <1>3. ASSUME NEW u \in Users, ProvisionEndpoint(u) PROVE UserTypes'
    BY <1>0, <1>g, <1>3 DEF ProvisionEndpoint
  <1>4. ASSUME NEW u \in Users,
               \/ CreateEndpoint(u) \/ PauseCreated(u) \/ CreatedPaused(u) \/ SubmitJob(u)
               \/ PassStops(u)
        PROVE  UserTypes'
    BY <1>0, <1>g, <1>4 DEF CreateEndpoint, PauseCreated, CreatedPaused, SubmitJob, PassStops
  <1>5. ASSUME NEW u \in Users, StartJob(u) PROVE UserTypes'
    BY <1>0, <1>g, <1>5 DEF StartJob, ProfileDestination
  <1>6. ASSUME NEW u \in Users,
               \/ InspectManaged(u) \/ LaunchWatchdog(u) \/ Resume(u) \/ WaitReady(u)
        PROVE  UserTypes'
    BY <1>0, <1>g, <1>6 DEF InspectManaged, LaunchWatchdog, Resume, WaitReady
  <1>7. ASSUME NEW u \in Users, Baseline(u) PROVE UserTypes'
    <2>0. IsProfile(u) \in BOOLEAN
      BY DEF IsProfile
    <2>1. CASE user' = [user EXCEPT ![u].pc = IF dog[u] = "none" THEN "launch" ELSE "resume",
                                    ![u].required = IsProfile(u)]
      BY <1>0, <2>0, <2>1, RequireTypes
    <2>2. QED
      BY <1>7, <1>g, <2>1 DEF Baseline
  <1>8. ASSUME NEW u \in Users, WatchdogReady(u) PROVE UserTypes'
    BY <1>0, <1>g, <1>8 DEF WatchdogReady, UserTypes
  <1>9. ASSUME NEW u \in Users,
               \/ Work(u) \/ CleanupEndpoint(u) \/ PauseEndpoint(u)
        PROVE  UserTypes'
    BY <1>0, <1>g, <1>9 DEF Work, CleanupEndpoint, PauseEndpoint
  <1>10. ASSUME NEW u \in Users, VerifyPaused(u) PROVE UserTypes'
    BY <1>0, <1>g, <1>10 DEF VerifyPaused, UserTypes
  <1>11. ASSUME NEW u \in Users, Publish(u) PROVE UserTypes'
    BY <1>0, <1>g, <1>11 DEF Publish
  <1>12. ASSUME NEW u \in Users,
               \/ MarkSelected(u) \/ RecheckCleanup(u) \/ JobKilled(u) \/ CleanupWave(u)
        PROVE  UserTypes'
    BY <1>0, <1>g, <1>12 DEF MarkSelected, RecheckCleanup, JobKilled, CleanupWave
  <1>13. ASSUME NEW u \in Users,
               \/ ClaimEndpoint(u) \/ MarkReady(u) \/ SeeJobEnded(u) \/ DogPauses(u)
               \/ DogReleases(u) \/ DogKilled(u)
        PROVE  UserTypes'
    BY <1>0, <1>g, <1>13 DEF ClaimEndpoint, DogOnly, MarkReady, SeeJobEnded, DogPauses,
                             DogReleases, DogKilled
  <1>14. QED
    BY <1>1, <1>2, <1>3, <1>4, <1>5, <1>6, <1>7, <1>8, <1>9, <1>10, <1>11, <1>12, <1>13
       DEF Next, Provisioning, JobStep, DogStep

(* Every step keeps the types of everything else.                          *)
LEMMA OtherTypesNext ==
    ASSUME EndpointInv, [Next]_vars
    PROVE  OtherTypes'
  <1> USE CastsAssumption DEF OtherTypes, DogSteps
  <1>0. OtherTypes
    BY DEF EndpointInv, TypeOK
  <1>c. \A u \in Users : Unit(u) \in Users
    BY CastOK DEF EndpointInv
  <1>1. CASE UNCHANGED vars
    BY <1>0, <1>c, <1>1 DEF vars
  <1>2. CASE Boot \/ Drained
    BY <1>0, <1>c, <1>2 DEF Boot, Drained
  <1>3. ASSUME NEW u \in Users,
               \/ SubmitJob(u) \/ RecheckCleanup(u) \/ JobKilled(u) \/ InspectManaged(u)
               \/ Baseline(u)
        PROVE  OtherTypes'
    BY <1>0, <1>c, <1>3 DEF SubmitJob, NoFault, JobOnly, RecheckCleanup, JobKilled, Fault,
                            InspectManaged, Baseline
  <1>4. ASSUME NEW u \in Users, ProvisionEndpoint(u) PROVE OtherTypes'
    BY <1>0, <1>c, <1>4 DEF ProvisionEndpoint, NoFault, JobOnly
  <1>5. ASSUME NEW u \in Users, CreateEndpoint(u) PROVE OtherTypes'
    BY <1>0, <1>c, <1>5 DEF CreateEndpoint, Fault, NoFault, JobOnly
  <1>6. ASSUME NEW u \in Users, PauseCreated(u) PROVE OtherTypes'
    BY <1>0, <1>c, <1>6 DEF PauseCreated, PauseEffect, Fault, NoFault, JobOnly
  <1>7. ASSUME NEW u \in Users, CreatedPaused(u) PROVE OtherTypes'
    <2>1. provenance' \in BOOLEAN
      BY <1>0, <1>7, Zenon DEF CreatedPaused
    <2>2. QED
      BY <1>0, <1>7, <2>1 DEF CreatedPaused, Fault, NoFault
  <1>8. ASSUME NEW u \in Users, PassStops(u) PROVE OtherTypes'
    BY <1>0, <1>c, <1>8 DEF PassStops, Fault
  <1>9. ASSUME NEW u \in Users, StartJob(u) PROVE OtherTypes'
    BY <1>0, <1>c, <1>9 DEF StartJob, ProfileDestination, NoFault
  <1>10. ASSUME NEW u \in Users, LaunchWatchdog(u) PROVE OtherTypes'
    BY <1>0, <1>c, <1>10 DEF LaunchWatchdog, Fault, NoFault, JobOnly
  <1>11. ASSUME NEW u \in Users, WatchdogReady(u) PROVE OtherTypes'
    BY <1>0, <1>c, <1>11 DEF WatchdogReady, Fault, NoFault, JobOnly
  <1>12. ASSUME NEW u \in Users, Resume(u) PROVE OtherTypes'
    BY <1>0, <1>c, <1>12 DEF Resume, Fault, NoFault, JobOnly
  <1>13. ASSUME NEW u \in Users,
               \/ WaitReady(u) \/ Work(u) \/ CleanupEndpoint(u) \/ VerifyPaused(u)
        PROVE  OtherTypes'
    BY <1>0, <1>c, <1>13 DEF WaitReady, Fault, NoFault, JobOnly, Work, CleanupEndpoint,
                             VerifyPaused
  <1>14. ASSUME NEW u \in Users, PauseEndpoint(u) PROVE OtherTypes'
    BY <1>0, <1>c, <1>14 DEF PauseEndpoint, PauseEffect, Fault, NoFault
  <1>15. ASSUME NEW u \in Users, Publish(u) PROVE OtherTypes'
    BY <1>0, <1>c, <1>15 DEF Publish, ReleaseClaim, Fault, NoFault
  <1>16. ASSUME NEW u \in Users, MarkSelected(u) PROVE OtherTypes'
    BY <1>0, <1>c, <1>16 DEF MarkSelected, NoFault
  <1>17. ASSUME NEW u \in Users, CleanupWave(u) PROVE OtherTypes'
    BY <1>0, <1>c, <1>17 DEF CleanupWave, PauseEffect, NoFault, JobOnly
  <1>18. ASSUME NEW u \in Users,
               \/ ClaimEndpoint(u) \/ MarkReady(u) \/ SeeJobEnded(u)
        PROVE  OtherTypes'
    BY <1>0, <1>c, <1>18 DEF ClaimEndpoint, NoFault, DogOnly, MarkReady, SeeJobEnded
  <1>19. ASSUME NEW u \in Users, DogPauses(u) PROVE OtherTypes'
    BY <1>0, <1>c, <1>19 DEF DogPauses, PauseEffect, Fault, NoFault, DogOnly
  <1>20. ASSUME NEW u \in Users,
               \/ DogReleases(u) \/ DogKilled(u)
        PROVE  OtherTypes'
    BY <1>0, <1>c, <1>20 DEF DogReleases, Fault, NoFault, DogOnly, DogKilled
  <1>21. QED
    BY <1>1, <1>2, <1>3, <1>4, <1>5, <1>6, <1>7, <1>8, <1>9, <1>10, <1>11, <1>12, <1>13,
       <1>14, <1>15, <1>16, <1>17, <1>18, <1>19, <1>20
       DEF Next, Provisioning, JobStep, DogStep

(* The roles are fixed.                                                    *)
LEMMA CastFixed == [Next]_vars => cast' = cast
  <1> SUFFICES ASSUME [Next]_vars PROVE cast' = cast
    OBVIOUS
  <1> USE DEF JobOnly, DogOnly
  <1>1. CASE Boot \/ Drained \/ UNCHANGED vars
    BY <1>1 DEF Boot, Drained, vars
  <1>2. ASSUME NEW u \in Users, Provisioning(u) \/ PassStops(u) \/ JobKilled(u) \/ CleanupWave(u)
        PROVE  cast' = cast
    BY <1>2 DEF Provisioning, ProvisionEndpoint, CreateEndpoint, PauseCreated, CreatedPaused,
                SubmitJob, PassStops, JobKilled, CleanupWave
  <1>3. ASSUME NEW u \in Users, JobStep(u) PROVE cast' = cast
    BY <1>3 DEF JobStep, StartJob, InspectManaged, Baseline, LaunchWatchdog, WatchdogReady,
                Resume, WaitReady, Work, CleanupEndpoint, PauseEndpoint, VerifyPaused, Publish,
                MarkSelected, RecheckCleanup
  <1>4. ASSUME NEW u \in Users, DogStep(u) \/ DogKilled(u) PROVE cast' = cast
    BY <1>4 DEF DogStep, ClaimEndpoint, MarkReady, SeeJobEnded, DogPauses, DogReleases, DogKilled
  <1>5. QED
    BY <1>1, <1>2, <1>3, <1>4 DEF Next

(* Every step keeps the lease with the Job that owns the endpoint.         *)
LEMMA LeaseOKNext ==
    ASSUME EndpointInv, [Next]_vars
    PROVE  \A w \in Users : LeaseOK(w)'
  <1> SUFFICES ASSUME NEW w \in Users PROVE LeaseOK(w)'
    OBVIOUS
  <1> USE DEF UserTypes, OtherTypes, Kind, LeaseOK, Owning, Ended, CreateSteps
  <1>0. UserTypes /\ OtherTypes /\ cast' = cast
    BY CastFixed DEF EndpointInv, TypeOK, UserTypes, OtherTypes
  <1>c. /\ \A u, v \in Users : Unit(u) = Unit(v) => Kind(u) = Kind(v)
        /\ \A u \in Users : Unit(u) \in Users
        /\ Nobody \notin Users
    BY CastOK, CastsAssumption DEF EndpointInv
  <1>h. \A u \in Users : LeaseOK(u) /\ CleanupOK(u)
    BY DEF EndpointInv
  <1>1. CASE UNCHANGED vars
    BY <1>0, <1>h, <1>1 DEF vars
  <1>2. CASE Boot \/ Drained
    BY <1>0, <1>h, <1>2 DEF Boot, Drained
  <1>3. ASSUME NEW u \in Users, ProvisionEndpoint(u) PROVE LeaseOK(w)'
    BY <1>0, <1>h, <1>3 DEF ProvisionEndpoint, Turn, Goto, JobOnly
  <1>4. ASSUME NEW u \in Users, CreateEndpoint(u) PROVE LeaseOK(w)'
    BY <1>0, <1>h, <1>4 DEF CreateEndpoint, Goto, Raise, JobOnly
  <1>5. ASSUME NEW u \in Users, PauseCreated(u) PROVE LeaseOK(w)'
    BY <1>0, <1>h, <1>5 DEF PauseCreated, Goto, JobOnly
  <1>6. ASSUME NEW u \in Users, CreatedPaused(u) PROVE LeaseOK(w)'
    BY <1>0, <1>h, <1>6 DEF CreatedPaused, Goto, Raise
  <1>7. ASSUME NEW u \in Users, SubmitJob(u) PROVE LeaseOK(w)'
    BY <1>0, <1>h, <1>7 DEF SubmitJob, Goto, JobOnly
  <1>8. ASSUME NEW u \in Users, StartJob(u) PROVE LeaseOK(w)'
    BY <1>0, <1>h, <1>8 DEF StartJob, ProfileDestination, Goto
  <1>9. ASSUME NEW u \in Users, InspectManaged(u) PROVE LeaseOK(w)'
    BY <1>0, <1>h, <1>9 DEF InspectManaged, Goto, Raise, JobOnly
  <1>10. ASSUME NEW u \in Users, Baseline(u) PROVE LeaseOK(w)'
    BY <1>0, <1>h, <1>10 DEF Baseline, Raise, JobOnly
  <1>11. ASSUME NEW u \in Users, LaunchWatchdog(u) PROVE LeaseOK(w)'
    BY <1>0, <1>h, <1>11 DEF LaunchWatchdog, Goto, Raise, JobOnly
  <1>12. ASSUME NEW u \in Users, WatchdogReady(u) PROVE LeaseOK(w)'
    BY <1>0, <1>h, <1>12 DEF WatchdogReady, Raise, JobOnly
  <1>13. ASSUME NEW u \in Users, Resume(u) PROVE LeaseOK(w)'
    BY <1>0, <1>h, <1>13 DEF Resume, Goto, Raise, JobOnly
  <1>14. ASSUME NEW u \in Users, WaitReady(u) PROVE LeaseOK(w)'
    BY <1>0, <1>h, <1>14 DEF WaitReady, Goto, Raise, JobOnly
  <1>15. ASSUME NEW u \in Users, Work(u) PROVE LeaseOK(w)'
    BY <1>0, <1>h, <1>15 DEF Work, Goto, Raise, JobOnly
  <1>16. ASSUME NEW u \in Users, CleanupEndpoint(u) PROVE LeaseOK(w)'
    BY <1>0, <1>h, <1>16 DEF CleanupEndpoint, Goto, JobOnly
  <1>17. ASSUME NEW u \in Users, PauseEndpoint(u) PROVE LeaseOK(w)'
    BY <1>0, <1>h, <1>17 DEF PauseEndpoint, Goto
  <1>18. ASSUME NEW u \in Users, VerifyPaused(u) PROVE LeaseOK(w)'
    BY <1>0, <1>h, <1>18 DEF VerifyPaused, Goto, JobOnly
  <1>19. ASSUME NEW u \in Users, Publish(u) PROVE LeaseOK(w)'
    BY <1>0, <1>h, <1>19 DEF Publish, Goto
  <1>20. ASSUME NEW u \in Users, MarkSelected(u) PROVE LeaseOK(w)'
    BY <1>0, <1>h, <1>20 DEF MarkSelected, Goto
  <1>21. ASSUME NEW u \in Users, RecheckCleanup(u) PROVE LeaseOK(w)'
    BY <1>0, <1>h, <1>21 DEF RecheckCleanup, Goto, JobOnly
  <1>22. ASSUME NEW u \in Users, CleanupWave(u) PROVE LeaseOK(w)'
    BY <1>0, <1>h, <1>22 DEF CleanupWave, Goto, JobOnly
  <1>23. ASSUME NEW u \in Users, ClaimEndpoint(u) PROVE LeaseOK(w)'
    BY <1>0, <1>h, <1>c, <1>23 DEF ClaimEndpoint, DogOnly
  <1>24. ASSUME NEW u \in Users, MarkReady(u) PROVE LeaseOK(w)'
    BY <1>0, <1>h, <1>24 DEF MarkReady, DogOnly
  <1>25. ASSUME NEW u \in Users, SeeJobEnded(u) PROVE LeaseOK(w)'
    BY <1>0, <1>h, <1>25 DEF SeeJobEnded, DogOnly
  <1>26. ASSUME NEW u \in Users, DogPauses(u) PROVE LeaseOK(w)'
    BY <1>0, <1>h, <1>26 DEF DogPauses, DogOnly
  <1>27. ASSUME NEW u \in Users, DogReleases(u) PROVE LeaseOK(w)'
    BY <1>0, <1>h, <1>27 DEF DogReleases, DogOnly
  <1>28. ASSUME NEW u \in Users, PassStops(u) PROVE LeaseOK(w)'
    BY <1>0, <1>h, <1>28 DEF PassStops, Goto
  <1>29. ASSUME NEW u \in Users, JobKilled(u) PROVE LeaseOK(w)'
    BY <1>0, <1>h, <1>29 DEF JobKilled, Goto, JobOnly
  <1>30. ASSUME NEW u \in Users, DogKilled(u) PROVE LeaseOK(w)'
    BY <1>0, <1>h, <1>30 DEF DogKilled, DogOnly
  <1>31. QED
    BY <1>1, <1>2, <1>3, <1>4, <1>5, <1>6, <1>7, <1>8, <1>9, <1>10, <1>11, <1>12, <1>13,
       <1>14, <1>15, <1>16, <1>17, <1>18, <1>19, <1>20, <1>21, <1>22, <1>23, <1>24, <1>25,
       <1>26, <1>27, <1>28, <1>29, <1>30
       DEF Next, Provisioning, JobStep, DogStep

(* Every step leaves an open wave alone with the endpoint.                 *)
LEMMA WaveOKNext ==
    ASSUME EndpointInv, [Next]_vars
    PROVE  \A w \in Users : WaveOK(w)'
  <1> SUFFICES ASSUME NEW w \in Users PROVE WaveOK(w)'
    OBVIOUS
  <1> USE DEF UserTypes, OtherTypes, Kind, WaveOK
  <1>0. UserTypes /\ OtherTypes /\ cast' = cast
    BY CastFixed DEF EndpointInv, TypeOK, UserTypes, OtherTypes
  <1>h. \A u \in Users : WaveOK(u)
    BY DEF EndpointInv
  <1>1. CASE UNCHANGED vars
    BY <1>0, <1>h, <1>1 DEF vars
  <1>2. CASE Boot \/ Drained
    BY <1>0, <1>h, <1>2 DEF Boot, Drained
  <1>3. ASSUME NEW u \in Users, ProvisionEndpoint(u) PROVE WaveOK(w)'
    BY <1>0, <1>h, <1>3 DEF ProvisionEndpoint, Turn, Goto
  <1>4. ASSUME NEW u \in Users, CreateEndpoint(u) PROVE WaveOK(w)'
    BY <1>0, <1>h, <1>4 DEF CreateEndpoint, Goto, Raise
  <1>5. ASSUME NEW u \in Users, PauseCreated(u) PROVE WaveOK(w)'
    BY <1>0, <1>h, <1>5 DEF PauseCreated, Goto
  <1>6. ASSUME NEW u \in Users, CreatedPaused(u) PROVE WaveOK(w)'
    BY <1>0, <1>h, <1>6 DEF CreatedPaused, Goto, Raise
  <1>7. ASSUME NEW u \in Users, SubmitJob(u) PROVE WaveOK(w)'
    BY <1>0, <1>h, <1>7 DEF SubmitJob, Goto
  <1>8. ASSUME NEW u \in Users, StartJob(u) PROVE WaveOK(w)'
    BY <1>0, <1>h, <1>8 DEF StartJob, Goto
  <1>9. ASSUME NEW u \in Users, InspectManaged(u) PROVE WaveOK(w)'
    BY <1>0, <1>h, <1>9 DEF InspectManaged, Goto, Raise
  <1>10. ASSUME NEW u \in Users, Baseline(u) PROVE WaveOK(w)'
    BY <1>0, <1>h, <1>10 DEF Baseline, Raise
  <1>11. ASSUME NEW u \in Users, LaunchWatchdog(u) PROVE WaveOK(w)'
    BY <1>0, <1>h, <1>11 DEF LaunchWatchdog, Goto, Raise
  <1>12. ASSUME NEW u \in Users, WatchdogReady(u) PROVE WaveOK(w)'
    BY <1>0, <1>h, <1>12 DEF WatchdogReady, Raise
  <1>13. ASSUME NEW u \in Users, Resume(u) PROVE WaveOK(w)'
    BY <1>0, <1>h, <1>13 DEF Resume, Goto, Raise
  <1>14. ASSUME NEW u \in Users, WaitReady(u) PROVE WaveOK(w)'
    BY <1>0, <1>h, <1>14 DEF WaitReady, Goto, Raise
  <1>15. ASSUME NEW u \in Users, Work(u) PROVE WaveOK(w)'
    BY <1>0, <1>h, <1>15 DEF Work, Goto, Raise
  <1>16. ASSUME NEW u \in Users, CleanupEndpoint(u) PROVE WaveOK(w)'
    BY <1>0, <1>h, <1>16 DEF CleanupEndpoint, Goto
  <1>17. ASSUME NEW u \in Users, PauseEndpoint(u) PROVE WaveOK(w)'
    BY <1>0, <1>h, <1>17 DEF PauseEndpoint, Goto
  <1>18. ASSUME NEW u \in Users, VerifyPaused(u) PROVE WaveOK(w)'
    BY <1>0, <1>h, <1>18 DEF VerifyPaused, Goto
  <1>19. ASSUME NEW u \in Users, Publish(u) PROVE WaveOK(w)'
    BY <1>0, <1>h, <1>19 DEF Publish, Goto
  <1>20. ASSUME NEW u \in Users, MarkSelected(u) PROVE WaveOK(w)'
    BY <1>0, <1>h, <1>20 DEF MarkSelected, Goto
  <1>21. ASSUME NEW u \in Users, RecheckCleanup(u) PROVE WaveOK(w)'
    BY <1>0, <1>h, <1>21 DEF RecheckCleanup, Goto
  <1>22. ASSUME NEW u \in Users, CleanupWave(u) PROVE WaveOK(w)'
    BY <1>0, <1>h, <1>22 DEF CleanupWave, Goto
  <1>23. ASSUME NEW u \in Users, ClaimEndpoint(u) PROVE WaveOK(w)'
    BY <1>0, <1>h, <1>23 DEF ClaimEndpoint, DogOnly
  <1>24. ASSUME NEW u \in Users, MarkReady(u) PROVE WaveOK(w)'
    BY <1>0, <1>h, <1>24 DEF MarkReady, DogOnly
  <1>25. ASSUME NEW u \in Users, SeeJobEnded(u) PROVE WaveOK(w)'
    BY <1>0, <1>h, <1>25 DEF SeeJobEnded, DogOnly
  <1>26. ASSUME NEW u \in Users, DogPauses(u) PROVE WaveOK(w)'
    BY <1>0, <1>h, <1>26 DEF DogPauses, DogOnly
  <1>27. ASSUME NEW u \in Users, DogReleases(u) PROVE WaveOK(w)'
    BY <1>0, <1>h, <1>27 DEF DogReleases, DogOnly
  <1>28. ASSUME NEW u \in Users, PassStops(u) PROVE WaveOK(w)'
    BY <1>0, <1>h, <1>28 DEF PassStops, Goto
  <1>29. ASSUME NEW u \in Users, JobKilled(u) PROVE WaveOK(w)'
    BY <1>0, <1>h, <1>29 DEF JobKilled, Goto
  <1>30. ASSUME NEW u \in Users, DogKilled(u) PROVE WaveOK(w)'
    BY <1>0, <1>h, <1>30 DEF DogKilled, DogOnly
  <1>31. QED
    BY <1>1, <1>2, <1>3, <1>4, <1>5, <1>6, <1>7, <1>8, <1>9, <1>10, <1>11, <1>12, <1>13,
       <1>14, <1>15, <1>16, <1>17, <1>18, <1>19, <1>20, <1>21, <1>22, <1>23, <1>24, <1>25,
       <1>26, <1>27, <1>28, <1>29, <1>30
       DEF Next, Provisioning, JobStep, DogStep

(* No step lets a Job without an error skip or miss the pause.             *)
LEMMA CleanupOKNext ==
    ASSUME EndpointInv, [Next]_vars
    PROVE  \A w \in Users : CleanupOK(w)'
  <1> SUFFICES ASSUME NEW w \in Users PROVE CleanupOK(w)'
    OBVIOUS
  <1> USE DEF UserTypes, OtherTypes, Kind, Unit, IsProfile, Managed, CleanupOK, LeaseOK, WaveOK,
              Owning, CreateSteps
  <1>0. UserTypes /\ OtherTypes /\ cast' = cast
    BY CastFixed DEF EndpointInv, TypeOK, UserTypes, OtherTypes
  <1>h. \A u \in Users : LeaseOK(u) /\ WaveOK(u) /\ CleanupOK(u)
    BY DEF EndpointInv
  <1>1. CASE UNCHANGED vars
    BY <1>0, <1>h, <1>1 DEF vars
  <1>2. CASE Boot \/ Drained
    BY <1>0, <1>h, <1>2 DEF Boot, Drained
  <1>3. ASSUME NEW u \in Users, ProvisionEndpoint(u) PROVE CleanupOK(w)'
    BY <1>0, <1>h, <1>3 DEF ProvisionEndpoint, Turn, Goto, JobOnly
  <1>4. ASSUME NEW u \in Users, CreateEndpoint(u) PROVE CleanupOK(w)'
    BY <1>0, <1>h, <1>4 DEF CreateEndpoint, Goto, Raise, JobOnly
  <1>5. ASSUME NEW u \in Users, PauseCreated(u) PROVE CleanupOK(w)'
    BY <1>0, <1>h, <1>5 DEF PauseCreated, PauseEffect, On, Goto, JobOnly
  <1>6. ASSUME NEW u \in Users, CreatedPaused(u) PROVE CleanupOK(w)'
    BY <1>0, <1>h, <1>6 DEF CreatedPaused, On, Goto, Raise
  <1>7. ASSUME NEW u \in Users, SubmitJob(u) PROVE CleanupOK(w)'
    BY <1>0, <1>h, <1>7 DEF SubmitJob, Goto, JobOnly
  <1>8. ASSUME NEW u \in Users, StartJob(u) PROVE CleanupOK(w)'
    BY <1>0, <1>h, <1>8 DEF StartJob, ProfileDestination, Goto
  <1>9. ASSUME NEW u \in Users, InspectManaged(u) PROVE CleanupOK(w)'
    <2>1. \A v \in Users \ {u} : user'[v] = user[v]
      BY <1>0, <1>9 DEF InspectManaged, Goto, Raise
    <2>2. user'[u].pc = "launch" \/ (user'[u].pc = "cleanup" /\ ~ user'[u].ok)
      BY <1>0, <1>9 DEF InspectManaged, Goto, Raise
    <2>3. UNCHANGED <<endpoint, dog>> /\ Kind(u) = "managed-profile"
      BY <1>h, <1>9 DEF InspectManaged
    <2>4. QED
      BY <1>0, <1>h, <2>1, <2>2, <2>3
  <1>10. ASSUME NEW u \in Users, Baseline(u) PROVE CleanupOK(w)'
    <2>1. \A v \in Users \ {u} : user'[v] = user[v]
      BY <1>0, <1>10 DEF Baseline, Raise
    <2>2. UNCHANGED <<endpoint, dog>> /\ user[u].pc = "baseline"
      BY <1>10 DEF Baseline
    <2>3. CASE user'[u].pc = "cleanup" /\ ~ user'[u].ok
      BY <1>0, <1>h, <2>1, <2>2, <2>3
    <2>4. CASE /\ endpoint = "paused"
               /\ \/ user'[u].pc = "launch"
                  \/ user'[u].pc = "resume" /\ dog[u] # "none" /\ user'[u].required = IsProfile(u)
      BY <1>0, <1>h, <2>1, <2>2, <2>4
    <2>5. QED
      BY <1>0, <1>10, <2>3, <2>4 DEF Baseline, Raise
  <1>11. ASSUME NEW u \in Users, LaunchWatchdog(u) PROVE CleanupOK(w)'
    <2>1. \A v \in Users \ {u} : user'[v] = user[v] /\ dog'[v] = dog[v]
      BY <1>0, <1>11 DEF LaunchWatchdog, Goto, Raise
    <2>2. UNCHANGED endpoint /\ user[u].pc = "launch"
      BY <1>11 DEF LaunchWatchdog
    <2>3. user'[u].pc = "waiting" \/ (user'[u].pc = "cleanup" /\ ~ user'[u].ok)
      BY <1>0, <1>11 DEF LaunchWatchdog, Goto, Raise
    <2>4. QED
      BY <1>0, <1>h, <2>1, <2>2, <2>3
  <1>12. ASSUME NEW u \in Users, WatchdogReady(u) PROVE CleanupOK(w)'
    <2>1. \A v \in Users \ {u} : user'[v] = user[v]
      BY <1>0, <1>12 DEF WatchdogReady, Raise
    <2>2. UNCHANGED <<endpoint, dog>> /\ user[u].pc = "waiting"
      BY <1>12 DEF WatchdogReady
    <2>3. CASE user'[u].pc = "cleanup" /\ ~ user'[u].ok
      BY <1>0, <1>h, <2>1, <2>2, <2>3
    <2>4. CASE /\ user'[u].required
               /\ \/ user'[u].pc = "create" /\ endpoint = "absent"
                  \/ user'[u].pc = "baseline" /\ IsProfile(u)
                  \/ user'[u].pc = "resume"
      BY <1>0, <1>h, <2>1, <2>2, <2>4
    <2>5. QED
      BY <1>0, <1>12, <2>3, <2>4 DEF WatchdogReady, Raise
  <1>13. ASSUME NEW u \in Users, Resume(u) PROVE CleanupOK(w)'
    BY <1>0, <1>h, <1>13 DEF Resume, Goto, Raise, JobOnly
  <1>14. ASSUME NEW u \in Users, WaitReady(u) PROVE CleanupOK(w)'
    <2>1. \A v \in Users \ {u} : user'[v] = user[v]
      BY <1>0, <1>14 DEF WaitReady, Goto, Raise
    <2>2. UNCHANGED <<endpoint, dog>> /\ user[u].pc = "resumed"
      BY <1>14 DEF WaitReady
    <2>3. \/ user'[u].pc = "using" /\ user'[u].required = user[u].required
          \/ user'[u].pc = "cleanup" /\ ~ user'[u].ok
      BY <1>0, <1>14 DEF WaitReady, Goto, Raise
    <2>4. QED
      BY <1>0, <1>h, <2>1, <2>2, <2>3
  <1>15. ASSUME NEW u \in Users, Work(u) PROVE CleanupOK(w)'
    BY <1>0, <1>h, <1>15 DEF Work, Goto, Raise, JobOnly
  <1>16. ASSUME NEW u \in Users, CleanupEndpoint(u) PROVE CleanupOK(w)'
    BY <1>0, <1>h, <1>16 DEF CleanupEndpoint, Goto, JobOnly
  <1>17. ASSUME NEW u \in Users, PauseEndpoint(u) PROVE CleanupOK(w)'
    BY <1>0, <1>h, <1>17 DEF PauseEndpoint, PauseEffect, On, Goto
  <1>18. ASSUME NEW u \in Users, VerifyPaused(u) PROVE CleanupOK(w)'
    BY <1>0, <1>h, <1>18 DEF VerifyPaused, On, Goto, JobOnly
  <1>19. ASSUME NEW u \in Users, Publish(u) PROVE CleanupOK(w)'
    BY <1>0, <1>h, <1>19 DEF Publish, Goto
  <1>20. ASSUME NEW u \in Users, MarkSelected(u) PROVE CleanupOK(w)'
    BY <1>0, <1>h, <1>20 DEF MarkSelected, Goto
  <1>21. ASSUME NEW u \in Users, RecheckCleanup(u) PROVE CleanupOK(w)'
    BY <1>0, <1>h, <1>21 DEF RecheckCleanup, Goto, JobOnly
  <1>22. ASSUME NEW u \in Users, CleanupWave(u) PROVE CleanupOK(w)'
    BY <1>0, <1>h, <1>22 DEF CleanupWave, PauseEffect, On, Goto, JobOnly
  <1>23. ASSUME NEW u \in Users, ClaimEndpoint(u) PROVE CleanupOK(w)'
    BY <1>0, <1>h, <1>23 DEF ClaimEndpoint, DogOnly
  <1>24. ASSUME NEW u \in Users, MarkReady(u) PROVE CleanupOK(w)'
    BY <1>0, <1>h, <1>24 DEF MarkReady, DogOnly
  <1>25. ASSUME NEW u \in Users, SeeJobEnded(u) PROVE CleanupOK(w)'
    BY <1>0, <1>h, <1>25 DEF SeeJobEnded, DogOnly
  <1>26. ASSUME NEW u \in Users, DogPauses(u) PROVE CleanupOK(w)'
    BY <1>0, <1>h, <1>26 DEF DogPauses, PauseEffect, On, DogOnly
  <1>27. ASSUME NEW u \in Users, DogReleases(u) PROVE CleanupOK(w)'
    BY <1>0, <1>h, <1>27 DEF DogReleases, DogOnly
  <1>28. ASSUME NEW u \in Users, PassStops(u) PROVE CleanupOK(w)'
    BY <1>0, <1>h, <1>28 DEF PassStops, Goto, On
  <1>29. ASSUME NEW u \in Users, JobKilled(u) PROVE CleanupOK(w)'
    BY <1>0, <1>h, <1>29 DEF JobKilled, Goto, JobOnly
  <1>30. ASSUME NEW u \in Users, DogKilled(u) PROVE CleanupOK(w)'
    BY <1>0, <1>h, <1>30 DEF DogKilled, DogOnly
  <1>31. QED
    BY <1>1, <1>2, <1>3, <1>4, <1>5, <1>6, <1>7, <1>8, <1>9, <1>10, <1>11, <1>12, <1>13,
       <1>14, <1>15, <1>16, <1>17, <1>18, <1>19, <1>20, <1>21, <1>22, <1>23, <1>24, <1>25,
       <1>26, <1>27, <1>28, <1>29, <1>30
       DEF Next, Provisioning, JobStep, DogStep

(* Every step keeps a unit claimed by the run or wave that works on it.    *)
LEMMA ClaimOKNext ==
    ASSUME EndpointInv, [Next]_vars
    PROVE  \A w \in Users : ClaimOK(w)'
  <1> SUFFICES ASSUME NEW w \in Users PROVE ClaimOK(w)'
    OBVIOUS
  <1> USE DEF UserTypes, OtherTypes, Kind, Unit, IsProfile, Managed, ClaimOK, Working, Ended,
              JobSteps, CreateSteps
  <1>0. UserTypes /\ OtherTypes /\ cast' = cast
    BY CastFixed DEF EndpointInv, TypeOK, UserTypes, OtherTypes
  <1>c. /\ \A u, v \in Users : Unit(u) = Unit(v) => Kind(u) = Kind(v)
        /\ \A u \in Users : Unit(u) \in Users
        /\ Nobody \notin Users
    BY CastOK, CastsAssumption DEF EndpointInv
  <1>h. \A u \in Users : ClaimOK(u)
    BY DEF EndpointInv
  <1>1. CASE UNCHANGED vars
    BY <1>0, <1>h, <1>1 DEF vars
  <1>2. CASE Boot \/ Drained
    BY <1>0, <1>h, <1>2 DEF Boot, Drained
  <1>3. ASSUME NEW u \in Users, ProvisionEndpoint(u) PROVE ClaimOK(w)'
    BY <1>0, <1>h, <1>3 DEF ProvisionEndpoint, Turn, Goto, JobOnly
  <1>4. ASSUME NEW u \in Users, CreateEndpoint(u) PROVE ClaimOK(w)'
    BY <1>0, <1>h, <1>4 DEF CreateEndpoint, Goto, Raise, JobOnly
  <1>5. ASSUME NEW u \in Users, PauseCreated(u) PROVE ClaimOK(w)'
    BY <1>0, <1>h, <1>5 DEF PauseCreated, Goto, JobOnly
  <1>6. ASSUME NEW u \in Users, CreatedPaused(u) PROVE ClaimOK(w)'
    BY <1>0, <1>h, <1>6 DEF CreatedPaused, Goto, Raise
  <1>7. ASSUME NEW u \in Users, SubmitJob(u) PROVE ClaimOK(w)'
    BY <1>0, <1>h, <1>7 DEF SubmitJob, Goto, JobOnly
  <1>8. ASSUME NEW u \in Users, StartJob(u) PROVE ClaimOK(w)'
    <2>1. \A v \in Users \ {u} : user'[v] = user[v]
      BY <1>0, <1>8 DEF StartJob, Goto
    <2>2. user'[u].pc \in JobSteps /\ ~ IsProfile(u) => claim' = [claim EXCEPT ![Unit(u)] = u]
      BY <1>0, <1>8 DEF StartJob, Goto
    <2>3. user'[u].pc \notin CreateSteps
      BY <1>0, <1>8 DEF StartJob, Goto, ProfileDestination
    <2>4. CASE w = u
      BY <1>0, <1>c, <2>2, <2>3, <2>4
    <2>5. CASE w # u /\ UNCHANGED claim
      BY <1>0, <1>h, <2>1, <2>5
    <2>6. CASE w # u /\ Claimable(u) /\ claim'[Unit(u)] # claim[Unit(u)]
      BY <1>0, <1>h, <1>8, <1>c, <2>1, <2>6 DEF StartJob, Claimable
    <2>7. QED
      BY <1>0, <1>c, <1>8, <2>4, <2>5, <2>6 DEF StartJob
  <1>9. ASSUME NEW u \in Users, InspectManaged(u) PROVE ClaimOK(w)'
    BY <1>0, <1>h, <1>9 DEF InspectManaged, Goto, Raise, JobOnly
  <1>10. ASSUME NEW u \in Users, Baseline(u) PROVE ClaimOK(w)'
    BY <1>0, <1>h, <1>10 DEF Baseline, Raise, JobOnly
  <1>11. ASSUME NEW u \in Users, LaunchWatchdog(u) PROVE ClaimOK(w)'
    BY <1>0, <1>h, <1>11 DEF LaunchWatchdog, Goto, Raise, JobOnly
  <1>12. ASSUME NEW u \in Users, WatchdogReady(u) PROVE ClaimOK(w)'
    BY <1>0, <1>h, <1>12 DEF WatchdogReady, Raise, JobOnly
  <1>13. ASSUME NEW u \in Users, Resume(u) PROVE ClaimOK(w)'
    BY <1>0, <1>h, <1>13 DEF Resume, Goto, Raise, JobOnly
  <1>14. ASSUME NEW u \in Users, WaitReady(u) PROVE ClaimOK(w)'
    BY <1>0, <1>h, <1>14 DEF WaitReady, Goto, Raise, JobOnly
  <1>15. ASSUME NEW u \in Users, Work(u) PROVE ClaimOK(w)'
    BY <1>0, <1>h, <1>15 DEF Work, Goto, Raise, JobOnly
  <1>16. ASSUME NEW u \in Users, CleanupEndpoint(u) PROVE ClaimOK(w)'
    BY <1>0, <1>h, <1>16 DEF CleanupEndpoint, Goto, JobOnly
  <1>17. ASSUME NEW u \in Users, PauseEndpoint(u) PROVE ClaimOK(w)'
    BY <1>0, <1>h, <1>17 DEF PauseEndpoint, Goto
  <1>18. ASSUME NEW u \in Users, VerifyPaused(u) PROVE ClaimOK(w)'
    BY <1>0, <1>h, <1>18 DEF VerifyPaused, Goto, JobOnly
  <1>19. ASSUME NEW u \in Users, Publish(u) PROVE ClaimOK(w)'
    <2>1. \A v \in Users \ {u} : user'[v] = user[v]
      BY <1>0, <1>19 DEF Publish, Goto
    <2>2. user'[u].pc \in {"mark", "ended"}
      BY <1>0, <1>19 DEF Publish, Goto
    <2>3. \A x \in Users : claim[x] # u => claim'[x] = claim[x]
      BY <1>0, <1>19 DEF Publish, ReleaseClaim
    <2>4. QED
      BY <1>0, <1>h, <1>c, <2>1, <2>2, <2>3
  <1>20. ASSUME NEW u \in Users, MarkSelected(u) PROVE ClaimOK(w)'
    BY <1>0, <1>h, <1>20 DEF MarkSelected, Goto
  <1>21. ASSUME NEW u \in Users, RecheckCleanup(u) PROVE ClaimOK(w)'
    BY <1>0, <1>h, <1>21 DEF RecheckCleanup, Goto, JobOnly
  <1>22. ASSUME NEW u \in Users, CleanupWave(u) PROVE ClaimOK(w)'
    BY <1>0, <1>h, <1>22 DEF CleanupWave, Goto, JobOnly
  <1>23. ASSUME NEW u \in Users, ClaimEndpoint(u) PROVE ClaimOK(w)'
    BY <1>0, <1>h, <1>23 DEF ClaimEndpoint, DogOnly
  <1>24. ASSUME NEW u \in Users, MarkReady(u) PROVE ClaimOK(w)'
    BY <1>0, <1>h, <1>24 DEF MarkReady, DogOnly
  <1>25. ASSUME NEW u \in Users, SeeJobEnded(u) PROVE ClaimOK(w)'
    BY <1>0, <1>h, <1>25 DEF SeeJobEnded, DogOnly
  <1>26. ASSUME NEW u \in Users, DogPauses(u) PROVE ClaimOK(w)'
    BY <1>0, <1>h, <1>26 DEF DogPauses, DogOnly
  <1>27. ASSUME NEW u \in Users, DogReleases(u) PROVE ClaimOK(w)'
    BY <1>0, <1>h, <1>27 DEF DogReleases, DogOnly
  <1>28. ASSUME NEW u \in Users, PassStops(u) PROVE ClaimOK(w)'
    BY <1>0, <1>h, <1>28 DEF PassStops, Goto
  <1>29. ASSUME NEW u \in Users, JobKilled(u) PROVE ClaimOK(w)'
    BY <1>0, <1>h, <1>29 DEF JobKilled, Goto, JobOnly
  <1>30. ASSUME NEW u \in Users, DogKilled(u) PROVE ClaimOK(w)'
    BY <1>0, <1>h, <1>30 DEF DogKilled, DogOnly
  <1>31. QED
    BY <1>1, <1>2, <1>3, <1>4, <1>5, <1>6, <1>7, <1>8, <1>9, <1>10, <1>11, <1>12, <1>13,
       <1>14, <1>15, <1>16, <1>17, <1>18, <1>19, <1>20, <1>21, <1>22, <1>23, <1>24, <1>25,
       <1>26, <1>27, <1>28, <1>29, <1>30
       DEF Next, Provisioning, JobStep, DogStep

(* Every step keeps Jobs of one profile apart.                             *)
LEMMA ProfileOKNext ==
    ASSUME EndpointInv, [Next]_vars
    PROVE  \A w \in Users : ProfileOK(w)'
  <1> SUFFICES ASSUME NEW w \in Users PROVE ProfileOK(w)'
    OBVIOUS
  <1> USE DEF UserTypes, OtherTypes, Kind, Unit, IsProfile, Managed, ProfileOK, Idle, Outside
  <1>0. UserTypes /\ OtherTypes /\ cast' = cast
    BY CastFixed DEF EndpointInv, TypeOK, UserTypes, OtherTypes
  <1>c. /\ \A u, v \in Users : Unit(u) = Unit(v) => Kind(u) = Kind(v)
        /\ \A u \in Users : Unit(u) \in Users
        /\ Nobody \notin Users
    BY CastOK, CastsAssumption DEF EndpointInv
  <1>h. \A u \in Users : ProfileOK(u)
    BY DEF EndpointInv
  <1>f. ASSUME NEW u \in Users, user[u].pc \notin Idle,
               \A v \in Users \ {u} : user'[v] = user[v],
               IsProfile(u) => user'[u].pc \notin Outside
        PROVE  ProfileOK(w)'
    BY <1>0, <1>h, <1>f
  <1>w. ASSUME NEW u \in Users, Kind(u) = "wave", \A v \in Users \ {u} : user'[v] = user[v]
        PROVE  ProfileOK(w)'
    <2>1. CASE IsProfile(w)
      <3>1. w # u /\ Unit(w) # Unit(u)
        BY <1>c, <1>w, <2>1
      <3>2. QED
        BY <1>0, <1>h, <1>w, <3>1
    <2>2. QED
      BY <1>0, <2>1
  <1>1. CASE UNCHANGED vars
    BY <1>0, <1>h, <1>1 DEF vars
  <1>2. CASE Boot \/ Drained
    BY <1>0, <1>h, <1>2 DEF Boot, Drained
  <1>3. ASSUME NEW u \in Users,
               \/ ProvisionEndpoint(u) \/ PassStops(u) \/ CleanupWave(u)
        PROVE  ProfileOK(w)'
    <2>1. \A v \in Users \ {u} : user'[v] = user[v]
      BY <1>0, <1>3 DEF ProvisionEndpoint, Goto, PassStops, CleanupWave
    <2>2. QED
      BY <1>w, <1>3, <2>1 DEF ProvisionEndpoint, PassStops, CleanupWave, Turn
  <1>4. ASSUME NEW u \in Users,
               \/ CreateEndpoint(u) \/ PauseCreated(u) \/ CreatedPaused(u) \/ SubmitJob(u)
        PROVE  ProfileOK(w)'
    <2>1. \A v \in Users \ {u} : user'[v] = user[v]
      BY <1>0, <1>4 DEF CreateEndpoint, Goto, Raise, PauseCreated, CreatedPaused, SubmitJob
    <2>2. user[u].pc \notin Idle
      BY <1>4 DEF CreateEndpoint, PauseCreated, CreatedPaused, SubmitJob
    <2>3. IsProfile(u) => user'[u].pc \notin Outside
      BY <1>0, <1>h, <1>4 DEF CreateEndpoint, Goto, Raise, PauseCreated, CreatedPaused,
                              SubmitJob
    <2>4. QED
      BY <1>f, <2>1, <2>2, <2>3
  <1>5. ASSUME NEW u \in Users, StartJob(u) PROVE ProfileOK(w)'
    <2>1. \A v \in Users \ {u} : user'[v] = user[v]
      BY <1>0, <1>5 DEF StartJob, Goto
    <2>2. user[u].pc = "queued" /\ user'[u].pc \in {"ended", "recheck", "inspect", "baseline"}
      BY <1>0, <1>5 DEF StartJob, Goto, ProfileDestination
    <2>3. CASE w = u
      BY <1>5, <2>1, <2>2, <2>3 DEF StartJob, Starts
    <2>4. CASE w # u /\ Unit(w) = Unit(u)
      BY <1>0, <1>h, <1>c, <1>5, <2>1, <2>2, <2>4 DEF StartJob, Starts
    <2>5. CASE w # u /\ Unit(w) # Unit(u)
      BY <1>0, <1>h, <2>1, <2>5
    <2>6. QED
      BY <2>3, <2>4, <2>5
  <1>6. ASSUME NEW u \in Users,
               \/ InspectManaged(u) \/ LaunchWatchdog(u) \/ Resume(u) \/ WaitReady(u)
        PROVE  ProfileOK(w)'
    <2>1. \A v \in Users \ {u} : user'[v] = user[v]
      BY <1>0, <1>6 DEF InspectManaged, Goto, Raise, LaunchWatchdog, Resume, WaitReady
    <2>2. user[u].pc \notin Idle
      BY <1>6 DEF InspectManaged, LaunchWatchdog, Resume, WaitReady
    <2>3. IsProfile(u) => user'[u].pc \notin Outside
      BY <1>0, <1>h, <1>6 DEF InspectManaged, Goto, Raise, LaunchWatchdog, Resume, WaitReady
    <2>4. QED
      BY <1>f, <2>1, <2>2, <2>3
  <1>7. ASSUME NEW u \in Users,
               \/ Baseline(u) \/ WatchdogReady(u) \/ VerifyPaused(u)
        PROVE  ProfileOK(w)'
    <2>1. \A v \in Users \ {u} : user'[v] = user[v]
      BY <1>0, <1>7 DEF Baseline, Raise, WatchdogReady, VerifyPaused, Goto
    <2>2. user[u].pc \notin Idle
      BY <1>7 DEF Baseline, WatchdogReady, VerifyPaused
    <2>3. IsProfile(u) => user'[u].pc \notin Outside
      BY <1>0, <1>h, <1>7 DEF Baseline, Raise, WatchdogReady, VerifyPaused, Goto
    <2>4. QED
      BY <1>f, <2>1, <2>2, <2>3
  <1>8. ASSUME NEW u \in Users,
               \/ Work(u) \/ CleanupEndpoint(u) \/ PauseEndpoint(u)
        PROVE  ProfileOK(w)'
    <2>1. \A v \in Users \ {u} : user'[v] = user[v]
      BY <1>0, <1>8 DEF Work, Goto, Raise, CleanupEndpoint, PauseEndpoint
    <2>2. user[u].pc \notin Idle
      BY <1>8 DEF Work, CleanupEndpoint, PauseEndpoint
    <2>3. IsProfile(u) => user'[u].pc \notin Outside
      BY <1>0, <1>h, <1>8 DEF Work, Goto, Raise, CleanupEndpoint, PauseEndpoint
    <2>4. QED
      BY <1>f, <2>1, <2>2, <2>3
  <1>9. ASSUME NEW u \in Users,
               \/ Publish(u) \/ MarkSelected(u) \/ RecheckCleanup(u)
        PROVE  ProfileOK(w)'
    <2>1. \A v \in Users \ {u} : user'[v] = user[v]
      BY <1>0, <1>9 DEF Publish, Goto, MarkSelected, RecheckCleanup
    <2>2. user[u].pc \notin Idle
      BY <1>9 DEF Publish, MarkSelected, RecheckCleanup
    <2>3. IsProfile(u) => user'[u].pc \notin Outside
      BY <1>0, <1>h, <1>9 DEF Publish, Goto, MarkSelected, RecheckCleanup
    <2>4. QED
      BY <1>f, <2>1, <2>2, <2>3
  <1>10. ASSUME NEW u \in Users, JobKilled(u) PROVE ProfileOK(w)'
    BY <1>0, <1>h, <1>10 DEF JobKilled, Goto
  <1>11. ASSUME NEW u \in Users,
               \/ ClaimEndpoint(u) \/ MarkReady(u) \/ SeeJobEnded(u) \/ DogPauses(u)
               \/ DogReleases(u) \/ DogKilled(u)
        PROVE  ProfileOK(w)'
    BY <1>0, <1>h, <1>11 DEF ClaimEndpoint, DogOnly, MarkReady, SeeJobEnded, DogPauses,
                             DogReleases, DogKilled
  <1>12. QED
    BY <1>1, <1>2, <1>3, <1>4, <1>5, <1>6, <1>7, <1>8, <1>9, <1>10, <1>11
       DEF Next, Provisioning, JobStep, DogStep

(* Every step keeps units with success unworked and their endpoint paused. *)
LEMMA EvidenceOKNext ==
    ASSUME EndpointInv, [Next]_vars
    PROVE  \A w \in Users : EvidenceOK(w)'
  <1> SUFFICES ASSUME NEW w \in Users PROVE EvidenceOK(w)'
    OBVIOUS
  <1> USE DEF UserTypes, OtherTypes, Kind, Unit, IsProfile, Managed, EvidenceOK, Selected,
              ClaimOK, ProfileOK, Idle, Outside, CleanupOK, LeaseOK, Owning, Working, JobSteps,
              CreateSteps
  <1>0. UserTypes /\ OtherTypes /\ cast' = cast
    BY CastFixed DEF EndpointInv, TypeOK, UserTypes, OtherTypes
  <1>c. /\ \A u, v \in Users : Unit(u) = Unit(v) => Kind(u) = Kind(v)
        /\ \A u \in Users : Unit(u) \in Users
        /\ Nobody \notin Users
    BY CastOK, CastsAssumption DEF EndpointInv
  <1>h. \A u \in Users : LeaseOK(u) /\ CleanupOK(u) /\ ClaimOK(u) /\ ProfileOK(u) /\ EvidenceOK(u)
    BY DEF EndpointInv
  <1>1. CASE UNCHANGED vars
    BY <1>0, <1>h, <1>1 DEF vars
  <1>2. CASE Boot \/ Drained
    BY <1>0, <1>h, <1>2 DEF Boot, Drained
  <1>3. ASSUME NEW u \in Users, ProvisionEndpoint(u) PROVE EvidenceOK(w)'
    BY <1>0, <1>h, <1>3 DEF ProvisionEndpoint, Turn, Goto, JobOnly
  <1>4. ASSUME NEW u \in Users, CreateEndpoint(u) PROVE EvidenceOK(w)'
    BY <1>0, <1>h, <1>4 DEF CreateEndpoint, Goto, Raise, JobOnly
  <1>5. ASSUME NEW u \in Users, PauseCreated(u) PROVE EvidenceOK(w)'
    BY <1>0, <1>h, <1>5 DEF PauseCreated, PauseEffect, On, Goto, JobOnly
  <1>6. ASSUME NEW u \in Users, CreatedPaused(u) PROVE EvidenceOK(w)'
    <2>1. \A v \in Users \ {u} : user'[v] = user[v]
      BY <1>0, <1>6 DEF CreatedPaused, Goto, Raise
    <2>2. /\ user'[u].pc \in {"off", "submit", "created", "baseline", "cleanup"}
          /\ Kind(u) = "wave" => user'[u].pc \in {"off", "submit", "created"}
      BY <1>0, <1>6 DEF CreatedPaused, Goto, Raise
    <2>3. UNCHANGED <<endpoint, lease, evidence>> /\ user[u].pc = "creating-pause"
      BY <1>6 DEF CreatedPaused
    <2>4. QED
      BY <1>0, <1>h, <2>1, <2>2, <2>3
  <1>7. ASSUME NEW u \in Users, SubmitJob(u) PROVE EvidenceOK(w)'
    BY <1>0, <1>h, <1>7 DEF SubmitJob, Goto, JobOnly
  <1>8. ASSUME NEW u \in Users, StartJob(u) PROVE EvidenceOK(w)'
    <2>1. \A v \in Users \ {u} : user'[v] = user[v]
      BY <1>0, <1>8 DEF StartJob, Goto
    <2>2. UNCHANGED <<evidence, lease, endpoint>>
      BY <1>8 DEF StartJob
    <2>3. user'[u].pc \in {"ended", "recheck", "inspect", "baseline"}
      BY <1>0, <1>8 DEF StartJob, Goto, ProfileDestination
    <2>4. user'[u].pc = "recheck" => evidence[Unit(u)] = "profile" /\ IsProfile(u)
      BY <1>0, <1>8 DEF StartJob, Goto, ProfileDestination
    <2>5. user'[u].pc \in {"inspect", "baseline"} => ~ Selected(Unit(u))
      BY <1>0, <1>h, <1>8 DEF StartJob, Goto, ProfileDestination, Terminal
    <2>6. QED
      BY <1>0, <1>h, <2>1, <2>2, <2>3, <2>4, <2>5
  <1>9. ASSUME NEW u \in Users, InspectManaged(u) PROVE EvidenceOK(w)'
    BY <1>0, <1>h, <1>9 DEF InspectManaged, Goto, Raise, JobOnly
  <1>10. ASSUME NEW u \in Users, Baseline(u) PROVE EvidenceOK(w)'
    BY <1>0, <1>h, <1>10 DEF Baseline, Raise, JobOnly
  <1>11. ASSUME NEW u \in Users, LaunchWatchdog(u) PROVE EvidenceOK(w)'
    BY <1>0, <1>h, <1>11 DEF LaunchWatchdog, Goto, Raise, JobOnly
  <1>12. ASSUME NEW u \in Users, WatchdogReady(u) PROVE EvidenceOK(w)'
    BY <1>0, <1>h, <1>12 DEF WatchdogReady, Raise, JobOnly
  <1>13. ASSUME NEW u \in Users, Resume(u) PROVE EvidenceOK(w)'
    <2>1. lease = u /\ ~ Selected(Unit(u))
      BY <1>h, <1>13 DEF Resume
    <2>2. UNCHANGED <<evidence, lease>>
      BY <1>13 DEF Resume, JobOnly
    <2>3. \A v \in Users \ {u} : user'[v] = user[v]
      BY <1>0, <1>13 DEF Resume, Goto, Raise
    <2>4. user'[u].pc \in {"resumed", "cleanup"}
      BY <1>0, <1>13 DEF Resume, Goto, Raise
    <2>5. QED
      BY <1>0, <1>h, <1>c, <2>1, <2>2, <2>3, <2>4
  <1>14. ASSUME NEW u \in Users, WaitReady(u) PROVE EvidenceOK(w)'
    BY <1>0, <1>h, <1>14 DEF WaitReady, On, Goto, Raise, JobOnly
  <1>15. ASSUME NEW u \in Users, Work(u) PROVE EvidenceOK(w)'
    BY <1>0, <1>h, <1>15 DEF Work, Goto, Raise, JobOnly
  <1>16. ASSUME NEW u \in Users, CleanupEndpoint(u) PROVE EvidenceOK(w)'
    BY <1>0, <1>h, <1>16 DEF CleanupEndpoint, Goto, JobOnly
  <1>17. ASSUME NEW u \in Users, PauseEndpoint(u) PROVE EvidenceOK(w)'
    BY <1>0, <1>h, <1>17 DEF PauseEndpoint, PauseEffect, On, Goto
  <1>18. ASSUME NEW u \in Users, VerifyPaused(u) PROVE EvidenceOK(w)'
    BY <1>0, <1>h, <1>18 DEF VerifyPaused, On, Goto, JobOnly
  <1>19. ASSUME NEW u \in Users, Publish(u) PROVE EvidenceOK(w)'
    <2>1. \A v \in Users \ {u} : user'[v] = user[v]
      BY <1>0, <1>19 DEF Publish, Goto
    <2>2. UNCHANGED <<endpoint, lease>> /\ user[u].pc = "publish"
      BY <1>19 DEF Publish
    <2>3. \A x \in Users \ {Unit(u)} : evidence'[x] = evidence[x]
      BY <1>0, <1>19 DEF Publish
    <2>4. \A v \in Users \ {u} : Unit(v) = Unit(u) =>
            ~ Working(v) /\ user[v].pc \notin {"mark", "recheck"}
      BY <1>h, <1>c, <2>2
    <2>5. CASE Selected(Unit(u))'
      <3>1. endpoint = "paused"
        BY <1>0, <1>h, <1>c, <1>19, <2>5 DEF Publish
      <3>2. /\ user'[u].pc \in {"mark", "ended"}
            /\ user'[u].pc = "mark" \/ evidence'[Unit(u)] = "profile" => IsProfile(u)
        BY <1>0, <1>h, <1>c, <1>19 DEF Publish, Goto
      <3>3. QED
        BY <1>0, <1>h, <1>c, <2>1, <2>2, <2>3, <2>4, <2>5, <3>1, <3>2
    <2>6. CASE ~ Selected(Unit(u))'
      <3>1. user'[u].pc = "ended"
        BY <1>0, <1>c, <1>19, <2>6 DEF Publish, Goto
      <3>2. QED
        BY <1>0, <1>h, <1>c, <2>1, <2>2, <2>3, <2>4, <2>6, <3>1
    <2>7. QED
      BY <2>5, <2>6
  <1>20. ASSUME NEW u \in Users, MarkSelected(u) PROVE EvidenceOK(w)'
    BY <1>0, <1>h, <1>c, <1>20 DEF MarkSelected, Goto
  <1>21. ASSUME NEW u \in Users, RecheckCleanup(u) PROVE EvidenceOK(w)'
    BY <1>0, <1>h, <1>21 DEF RecheckCleanup, Goto, JobOnly
  <1>22. ASSUME NEW u \in Users, CleanupWave(u) PROVE EvidenceOK(w)'
    BY <1>0, <1>h, <1>22 DEF CleanupWave, PauseEffect, On, Goto, JobOnly
  <1>23. ASSUME NEW u \in Users, ClaimEndpoint(u) PROVE EvidenceOK(w)'
    BY <1>0, <1>h, <1>c, <1>23 DEF ClaimEndpoint, DogOnly
  <1>24. ASSUME NEW u \in Users, MarkReady(u) PROVE EvidenceOK(w)'
    BY <1>0, <1>h, <1>24 DEF MarkReady, DogOnly
  <1>25. ASSUME NEW u \in Users, SeeJobEnded(u) PROVE EvidenceOK(w)'
    BY <1>0, <1>h, <1>25 DEF SeeJobEnded, DogOnly
  <1>26. ASSUME NEW u \in Users, DogPauses(u) PROVE EvidenceOK(w)'
    BY <1>0, <1>h, <1>26 DEF DogPauses, PauseEffect, On, DogOnly
  <1>27. ASSUME NEW u \in Users, DogReleases(u) PROVE EvidenceOK(w)'
    BY <1>0, <1>h, <1>27 DEF DogReleases, DogOnly
  <1>28. ASSUME NEW u \in Users, PassStops(u) PROVE EvidenceOK(w)'
    BY <1>0, <1>h, <1>28 DEF PassStops, Goto, On
  <1>29. ASSUME NEW u \in Users, JobKilled(u) PROVE EvidenceOK(w)'
    BY <1>0, <1>h, <1>29 DEF JobKilled, Goto, JobOnly
  <1>30. ASSUME NEW u \in Users, DogKilled(u) PROVE EvidenceOK(w)'
    BY <1>0, <1>h, <1>30 DEF DogKilled, DogOnly
  <1>31. QED
    BY <1>1, <1>2, <1>3, <1>4, <1>5, <1>6, <1>7, <1>8, <1>9, <1>10, <1>11, <1>12, <1>13,
       <1>14, <1>15, <1>16, <1>17, <1>18, <1>19, <1>20, <1>21, <1>22, <1>23, <1>24, <1>25,
       <1>26, <1>27, <1>28, <1>29, <1>30
       DEF Next, Provisioning, JobStep, DogStep

(* No step takes the endpoint from the Job that uses it.                   *)
LEMMA UseOKNext ==
    ASSUME EndpointInv, [Next]_vars
    PROVE  \A w \in Users : UseOK(w)'
  <1> SUFFICES ASSUME NEW w \in Users PROVE UseOK(w)'
    OBVIOUS
  <1> USE DEF UserTypes, OtherTypes, Kind, UseOK, LeaseOK, WaveOK, Owning, Ended, CreateSteps
  <1>0. UserTypes /\ OtherTypes /\ cast' = cast
    BY CastFixed DEF EndpointInv, TypeOK, UserTypes, OtherTypes
  <1>h. \A u \in Users : LeaseOK(u) /\ WaveOK(u) /\ UseOK(u)
    BY DEF EndpointInv
  <1>f. ASSUME UNCHANGED <<endpoint, intruders>>,
               user'[w].pc = "using" => user[w].pc = "using"
        PROVE  UseOK(w)'
    BY <1>h, <1>f
  <1>1. CASE UNCHANGED vars
    BY <1>0, <1>h, <1>1 DEF vars
  <1>2. CASE Boot \/ Drained
    BY <1>0, <1>h, <1>2 DEF Boot, Drained
  <1>3. ASSUME NEW u \in Users, CreateEndpoint(u) PROVE UseOK(w)'
    BY <1>0, <1>h, <1>3 DEF CreateEndpoint, Goto, Raise, JobOnly
  <1>4. ASSUME NEW u \in Users, PauseCreated(u) PROVE UseOK(w)'
    BY <1>0, <1>h, <1>4 DEF PauseCreated, PauseEffect, On, Goto, JobOnly
  <1>5. ASSUME NEW u \in Users, Resume(u) PROVE UseOK(w)'
    BY <1>0, <1>h, <1>5 DEF Resume, Goto, Raise, JobOnly
  <1>6. ASSUME NEW u \in Users, WaitReady(u) PROVE UseOK(w)'
    BY <1>0, <1>h, <1>6 DEF WaitReady, On, Goto, Raise, JobOnly
  <1>7. ASSUME NEW u \in Users, PauseEndpoint(u) PROVE UseOK(w)'
    <2>1. CASE intruders' # {}
      BY <2>1
    <2>2. CASE intruders' = {}
      <3>1. lease = u /\ intruders = {}
        BY <1>7, <2>2 DEF PauseEndpoint
      <3>2. user'[w].pc = "using" => user[w].pc = "using"
        BY <1>0, <1>7 DEF PauseEndpoint, Goto
      <3>3. QED
        BY <1>h, <1>7, <3>1, <3>2 DEF PauseEndpoint
    <2>3. QED
      BY <2>1, <2>2
  <1>8. ASSUME NEW u \in Users, CleanupWave(u) PROVE UseOK(w)'
    BY <1>0, <1>h, <1>8 DEF CleanupWave, PauseEffect, On, Goto, JobOnly
  <1>9. ASSUME NEW u \in Users, DogPauses(u) PROVE UseOK(w)'
    BY <1>0, <1>h, <1>9 DEF DogPauses, PauseEffect, On, DogOnly
  <1>10. ASSUME NEW u \in Users,
               \/ ProvisionEndpoint(u) \/ SubmitJob(u) \/ CreatedPaused(u) \/ PassStops(u)
        PROVE  UseOK(w)'
    <2>1. UNCHANGED <<endpoint, intruders>>
      BY <1>10 DEF ProvisionEndpoint, JobOnly, SubmitJob, CreatedPaused, PassStops
    <2>2. user'[w].pc = "using" => user[w].pc = "using"
      BY <1>0, <1>10 DEF ProvisionEndpoint, Goto, SubmitJob, CreatedPaused, Raise, PassStops
    <2>3. QED
      BY <1>f, <2>1, <2>2
  <1>11. ASSUME NEW u \in Users, StartJob(u) PROVE UseOK(w)'
    <2>1. UNCHANGED <<endpoint, intruders>>
      BY <1>11 DEF StartJob
    <2>2. user'[w].pc = "using" => user[w].pc = "using"
      BY <1>0, <1>11 DEF StartJob, Goto, ProfileDestination
    <2>3. QED
      BY <1>f, <2>1, <2>2
  <1>12. ASSUME NEW u \in Users,
               \/ InspectManaged(u) \/ LaunchWatchdog(u)
        PROVE  UseOK(w)'
    <2>1. UNCHANGED <<endpoint, intruders>>
      BY <1>12 DEF InspectManaged, JobOnly, LaunchWatchdog
    <2>2. user'[w].pc = "using" => user[w].pc = "using"
      BY <1>0, <1>12 DEF InspectManaged, Goto, Raise, LaunchWatchdog
    <2>3. QED
      BY <1>f, <2>1, <2>2
  <1>13. ASSUME NEW u \in Users,
               \/ Baseline(u) \/ WatchdogReady(u)
        PROVE  UseOK(w)'
    <2>1. UNCHANGED <<endpoint, intruders>>
      BY <1>13 DEF Baseline, JobOnly, WatchdogReady
    <2>2. user'[w].pc = "using" => user[w].pc = "using"
      BY <1>0, <1>13 DEF Baseline, Raise, WatchdogReady
    <2>3. QED
      BY <1>f, <2>1, <2>2
  <1>14. ASSUME NEW u \in Users,
               \/ Work(u) \/ CleanupEndpoint(u)
        PROVE  UseOK(w)'
    <2>1. UNCHANGED <<endpoint, intruders>>
      BY <1>14 DEF Work, JobOnly, CleanupEndpoint
    <2>2. user'[w].pc = "using" => user[w].pc = "using"
      BY <1>0, <1>14 DEF Work, Goto, Raise, CleanupEndpoint
    <2>3. QED
      BY <1>f, <2>1, <2>2
  <1>15. ASSUME NEW u \in Users,
               \/ VerifyPaused(u) \/ RecheckCleanup(u) \/ JobKilled(u)
        PROVE  UseOK(w)'
    <2>1. UNCHANGED <<endpoint, intruders>>
      BY <1>15 DEF VerifyPaused, JobOnly, RecheckCleanup, JobKilled
    <2>2. user'[w].pc = "using" => user[w].pc = "using"
      BY <1>0, <1>15 DEF VerifyPaused, Goto, RecheckCleanup, JobKilled
    <2>3. QED
      BY <1>f, <2>1, <2>2
  <1>16. ASSUME NEW u \in Users,
               \/ Publish(u) \/ MarkSelected(u)
        PROVE  UseOK(w)'
    <2>1. UNCHANGED <<endpoint, intruders>>
      BY <1>16 DEF Publish, MarkSelected
    <2>2. user'[w].pc = "using" => user[w].pc = "using"
      BY <1>0, <1>16 DEF Publish, Goto, MarkSelected
    <2>3. QED
      BY <1>f, <2>1, <2>2
  <1>17. ASSUME NEW u \in Users,
               \/ ClaimEndpoint(u) \/ MarkReady(u) \/ SeeJobEnded(u) \/ DogReleases(u)
               \/ DogKilled(u)
        PROVE  UseOK(w)'
    <2>1. UNCHANGED <<endpoint, intruders>>
      BY <1>17 DEF ClaimEndpoint, DogOnly, MarkReady, SeeJobEnded, DogReleases, DogKilled
    <2>2. user'[w].pc = "using" => user[w].pc = "using"
      BY <1>0, <1>17 DEF ClaimEndpoint, DogOnly, MarkReady, SeeJobEnded, DogReleases, DogKilled
    <2>3. QED
      BY <1>f, <2>1, <2>2
  <1>18. QED
    BY <1>1, <1>2, <1>3, <1>4, <1>5, <1>6, <1>7, <1>8, <1>9, <1>10, <1>11, <1>12, <1>13,
       <1>14, <1>15, <1>16, <1>17
       DEF Next, Provisioning, JobStep, DogStep

(* The invariant holds in the initial states.                              *)
LEMMA InvInit == Init => EndpointInv
  <1> SUFFICES ASSUME Init PROVE EndpointInv
    OBVIOUS
  <1>1. UserTypes
    <2>1. \A u \in Users : (Kind(u) = "managed-profile") \in BOOLEAN
      OBVIOUS
    <2>2. QED
      BY <2>1 DEF Init, UserTypes, UserSteps
  <1>2. OtherTypes
    <2>1. endpoint \in {"absent", "paused"}
      BY Zenon DEF Init
    <2>2. faults \in 0..MaxFaults
      BY CastsAssumption DEF Init
    <2>3. provenance \in BOOLEAN /\ orphaned \in BOOLEAN /\ intruders \subseteq Users
      BY DEF Init
    <2>4. QED
      BY <2>1, <2>2, <2>3 DEF Init, OtherTypes, DogSteps
  <1>3. TypeOK
    BY <1>1, <1>2 DEF TypeOK, UserTypes, OtherTypes
  <1>4. ASSUME NEW u \in Users
        PROVE  /\ user[u].pc = IF Kind(u) = "wave" THEN "off" ELSE "queued"
               /\ dog[u] = "none" /\ evidence[u] = "none" /\ evidence[Unit(u)] = "none"
    BY <1>3, CastOK DEF Init
  <1>5. ASSUME NEW u \in Users
        PROVE  LeaseOK(u) /\ WaveOK(u) /\ CleanupOK(u) /\ ClaimOK(u) /\ EvidenceOK(u) /\ UseOK(u)
    BY <1>4 DEF LeaseOK, WaveOK, CleanupOK, ClaimOK, EvidenceOK, UseOK, Owning, Working,
                JobSteps, CreateSteps, Selected
  <1>6. ASSUME NEW u \in Users PROVE ProfileOK(u)
    BY <1>4 DEF ProfileOK, IsProfile, Idle, Outside
  <1>7. QED
    BY <1>3, <1>5, <1>6 DEF EndpointInv

(* Every step keeps the invariant.                                         *)
LEMMA InvNext == EndpointInv /\ [Next]_vars => EndpointInv'
  <1> SUFFICES ASSUME EndpointInv, [Next]_vars PROVE EndpointInv'
    OBVIOUS
  <1>1. TypeOK'
    BY UserTypesNext, OtherTypesNext DEF TypeOK, UserTypes, OtherTypes
  <1>2. QED
    BY <1>1, LeaseOKNext, WaveOKNext, CleanupOKNext, ClaimOKNext, ProfileOKNext, EvidenceOKNext,
       UseOKNext DEF EndpointInv

(* The inductive invariant holds throughout.                               *)
LEMMA InvAlways == Spec => []EndpointInv
  BY InvInit, InvNext, PTL DEF Spec

(* Type correctness, for any Jobs, casts and faults.                       *)
THEOREM EndpointsAreTyped == Spec => []TypeOK
  <1>1. EndpointInv => TypeOK
    BY DEF EndpointInv
  <1>2. QED
    BY <1>1, InvAlways, PTL

(* As long as no Job without a lease has asked for a pause, nobody takes   *)
(* the endpoint away from a Job that uses it: no reconciler, no watchdog   *)
(* of another Job, no cleanup of another wave.                             *)
THEOREM UseIsUndisturbed == Spec => []UndisturbedUse
  <1>1. EndpointInv => UndisturbedUse
    BY DEF EndpointInv, UseOK, UndisturbedUse
  <1>2. QED
    BY <1>1, InvAlways, PTL

(* A unit that published success leaves the endpoint paused for as long as *)
(* its watchdog keeps the lease.                                           *)
THEOREM SuccessMeansPaused == Spec => []PausedAtSuccess
  <1>1. EndpointInv => PausedAtSuccess
    BY DEF EndpointInv, EvidenceOK, Selected, PausedAtSuccess
  <1>2. QED
    BY <1>1, InvAlways, PTL
=============================================================================
