------------------------ MODULE CampaignTasksProofs ------------------------
(***************************************************************************)
(* Proofs about CampaignTasks for any tasks, batches, attempt limits and   *)
(* numbers of restarts.                                                    *)
(*                                                                         *)
(* That records are unique follows from what the process holds between two *)
(* writes (HoldOK) and from the order of attempts and their replacements   *)
(* (RetryOK).  That no task is stranded is about launches first: a launch  *)
(* of an open task is pending, observed, owed a transition, or its attempt *)
(* has a replacement (CarryOK).  Replacements come after what they replace,*)
(* so the last replaced attempt of a task leads to a launch that is one of *)
(* the other three.                                                        *)
(***************************************************************************)
EXTENDS CampaignTasks, FiniteSetTheorems, WellFoundedInduction, TLAPS

Resolved == {"launch", "observe"}
AttemptType == [launch : LaunchIds \cup {CancelAction}, outcome : Outcomes]
ActType == [kind : {"none", "admit", "jobCancel", "cancel"} \cup Resolved,
            of : LaunchIds \cup {CancelAction},
            seen : {"failed", "suppressed"} \cup JobStates, late : BOOLEAN]
PriorType == {NoPrior} \cup (Tasks \X Nat)

(* The types of the launches, of the tasks and of the process.             *)
LaunchTypes ==
  /\ admission \in {"pending", "received"}
  /\ launch \in [LaunchIds -> {"absent", "pending", "dispatched", "running", "failed",
                               "suppressed"}]
  /\ deadline \subseteq LaunchIds /\ jobCancel \subseteq LaunchIds /\ seenEnd \subseteq LaunchIds
  /\ obs \in [LaunchIds -> {"none", "plain", "grace"}]
  /\ cancel \in {"no", "requested", "received"}
  /\ published \in BOOLEAN
  /\ job \in [LaunchIds -> JobStates]

TaskTypes ==
  /\ attempts \in [Tasks -> Seq(AttemptType)]
  /\ selections \in [Tasks -> SUBSET Nat]
  /\ \A t \in Tasks : selections[t] \subseteq DOMAIN attempts[t]

ProcessTypes ==
  /\ pc \in {"idle", "apply", "admit", "complete", "finish", "after", "seal", "publish", "mark"}
  /\ act \in ActType /\ unadvanced \subseteq ActType
  /\ todo \subseteq Tasks
  /\ held \in PriorType /\ retrying \in PriorType

TaskTyped == LaunchTypes /\ TaskTypes /\ ProcessTypes

Present(l) == launch[l] # "absent"
Unreplaced(t, n) == \A k \in LaunchIds : k.prior = <<t, n>> => ~ Present(k)

(* A launch has one attempt of a task, and only the cancellation's attempt *)
(* is not a worker's or a fallback.                                        *)
AttemptOK(t) ==
  /\ \A m, n \in DOMAIN attempts[t] : attempts[t][m].launch = attempts[t][n].launch => m = n
  /\ \A n \in DOMAIN attempts[t] :
       IF attempts[t][n].launch = CancelAction THEN attempts[t][n].outcome = "cancelled"
       ELSE Present(attempts[t][n].launch)

(* A replacement is for an infrastructure failure on record, it is the     *)
(* only one, and what it reports comes later.                              *)
RetryOK(t) ==
  /\ \A l \in LaunchIds : \A n \in Nat : Present(l) /\ l.prior = <<t, n>> =>
       /\ n \in DOMAIN attempts[t] /\ attempts[t][n].outcome = "infrastructure"
       /\ n \notin selections[t]
       /\ \A k \in LaunchIds : Present(k) /\ k.prior = <<t, n>> => k = l
  /\ \A m \in DOMAIN attempts[t] : \A n \in Nat :
       attempts[t][m].launch.prior = <<t, n>> => n < m
  /\ \A m, n \in selections[t] : m = n

(* What is held across two writes still stands when it is used: the retry  *)
(* the operator was admitted for, the attempt and the tasks of a           *)
(* transition.                                                             *)
HoldOK ==
  /\ \A t \in Tasks : \A n \in Nat : retrying = <<t, n>> =>
       /\ n \in DOMAIN attempts[t] /\ attempts[t][n].outcome = "infrastructure"
       /\ n < MaxAttempts /\ n \notin selections[t]
       /\ Unreplaced(t, n)
  /\ \A t \in Tasks : \A n \in Nat : pc = "finish" /\ held = <<t, n>> =>
       n \in DOMAIN attempts[t] /\ attempts[t][n].launch = act.of /\ ~ Terminal(t)
  /\ pc = "finish" => held # NoPrior
  /\ pc = "seal" => cancel = "received" /\ \A t \in todo : ~ Terminal(t)

(* One transition at a time, and what its receipt says stays true.         *)
ReceiptOK(a) ==
  /\ a.kind = "launch" =>
       /\ a.of \in LaunchIds /\ launch[a.of] = a.seen
       /\ a.seen \in {"running", "failed", "suppressed"}
       /\ a.seen = "suppressed" => cancel # "no" \/ \A t \in a.of.tasks : Terminal(t)
  /\ a.kind = "observe" =>
       /\ a.of \in LaunchIds /\ launch[a.of] = "running"
       /\ a.seen \in {"running", "completed", "error"}
       /\ a.seen # "running" => job[a.of] # "running"
  /\ a.kind = "jobCancel" => cancel # "no"
  /\ a.kind = "cancel" => cancel = "received"

ActOK ==
  /\ pc # "idle" => unadvanced = {act}
  /\ \A a, b \in unadvanced : a = b
  /\ \A a \in unadvanced : ReceiptOK(a)
  /\ pc \in {"complete", "finish"} =>
       act.kind \in Resolved /\ act.seen \notin {"running", "suppressed"}

(* The receipt of a launch or an observation that is not applied yet.      *)
Unapplied(l) == /\ pc \in {"idle", "apply"}
                /\ \E a \in unadvanced : a.of = l /\ a.kind \in Resolved

(* A launch with a Job was dispatched, and a running Job is observed.      *)
LaunchOK(l) ==
  /\ job[l] # "none" => launch[l] \in {"dispatched", "running"}
  /\ launch[l] = "running" => job[l] # "none"
  /\ obs[l] # "none" => launch[l] = "running"
  /\ launch[l] = "running" /\ job[l] = "running" => obs[l] # "none" \/ Unapplied(l)
  /\ jobCancel # {} => cancel # "no"

Pending(l) == launch[l] \in {"pending", "dispatched"} \/ obs[l] # "none"

(* The transition in progress has yet to see to the task.                  *)
Owed(l, t) ==
  \/ Unapplied(l)
  \/ /\ pc \in {"complete", "finish"} /\ act.of = l
     /\ t \in todo \/ (pc = "finish" /\ \E n \in Nat : held = <<t, n>>)

Replaced(l, t) ==
  \E n \in DOMAIN attempts[t] :
    attempts[t][n].launch = l /\ \E k \in LaunchIds : Present(k) /\ k.prior = <<t, n>>

(* A launch of an open task goes on, is owed a transition or was replaced. *)
CarryOK(l, t) ==
  cancel = "no" /\ Present(l) /\ t \in l.tasks /\ ~ Terminal(t) =>
    Pending(l) \/ Owed(l, t) \/ Replaced(l, t)

AdmitOK ==
  admission = "received" =>
    \/ pc \in {"idle", "apply"} /\ \E a \in unadvanced : a.kind = "admit"
    \/ \A b \in Batches : Present(InitialLaunch(b))

(* A cancellation has something left to drive it until it has sealed all. *)
CancelOK ==
  /\ cancel = "received" /\ (Ready \/ pc \in {"publish", "mark"}) =>
       ~ NoPendingAction \/ \A t \in Tasks : Terminal(t)
  /\ pc = "seal" => \A t \in Tasks : Terminal(t) \/ t \in todo

PublishOK ==
  /\ Ready \/ pc = "mark" => ~ MayPublish
  /\ published => /\ \A t \in Tasks : Terminal(t)
                  /\ \A l \in LaunchIds : launch[l] # "dispatched"

TasksInv ==
  /\ TaskTyped
  /\ \A t \in Tasks : AttemptOK(t) /\ RetryOK(t)
  /\ HoldOK /\ ActOK
  /\ \A l \in LaunchIds : LaunchOK(l) /\ \A t \in Tasks : CarryOK(l, t)
  /\ AdmitOK /\ CancelOK /\ PublishOK

(* What a step may do to the records: launches, cancellation and           *)
(* publication stay; a launch is recorded by the admission, or as the only *)
(* replacement of an infrastructure failure that is not selected; an       *)
(* attempt is the first of its launch; a selection is a task's first, and  *)
(* of an attempt without a replacement on record or in flight.             *)
Stays ==
  /\ \A l \in LaunchIds : Present(l) => Present(l)'
  /\ cancel # "no" => cancel' # "no"
  /\ cancel = "received" => cancel' = "received"
  /\ published => published'

Recorded(l) ==
  /\ launch' = [launch EXCEPT ![l] = "pending"] /\ UNCHANGED <<attempts, selections>>
  /\ \/ l.prior = NoPrior
     \/ \E t \in Tasks : \E n \in Nat :
          /\ l.prior = <<t, n>> /\ n \in DOMAIN attempts[t]
          /\ attempts[t][n].outcome = "infrastructure" /\ n \notin selections[t]
          /\ Unreplaced(t, n) /\ retrying' # <<t, n>>

Appends(t, l, o) ==
  /\ attempts' = Append1(t, l, o) /\ AttemptIndex(attempts, l, t) = {}
  /\ IF l = CancelAction THEN o = "cancelled" ELSE Present(l)
  /\ UNCHANGED <<launch, selections>>

Selects(t, n) ==
  /\ Select(t, n) /\ selections[t] = {} /\ n \in DOMAIN attempts[t]
  /\ Unreplaced(t, n) /\ retrying # <<t, n>>
  /\ UNCHANGED <<launch, attempts, retrying>>

(* Launches are told apart by their tasks, what they replace and who       *)
(* recorded them; the cancellation is not one of them.                     *)
LEMMA InitialLaunches ==
    ASSUME NEW b \in Batches
    PROVE  /\ InitialLaunch(b) \in LaunchIds
           /\ InitialLaunch(b).tasks = b /\ InitialLaunch(b).prior = NoPrior
  BY DEF InitialLaunch, LaunchIds

(* A retry is a launch of its task, below the attempt limit.               *)
LEMMA RetryLaunches ==
    ASSUME NEW t \in Tasks, NEW n \in 1..(MaxAttempts - 1), NEW who \in {"auto", "operator"}
    PROVE  /\ RetryLaunch(t, n, who) \in LaunchIds
           /\ RetryLaunch(t, n, who).tasks = {t} /\ RetryLaunch(t, n, who).prior = <<t, n>>
  <1>1. RetryLaunch(t, n, who) \in LaunchIds
    BY DEF LaunchIds
  <1>2. QED
    BY <1>1 DEF RetryLaunch

(* There are no other launches.                                            *)
LEMMA Launches ==
    ASSUME NEW l \in LaunchIds
    PROVE  /\ l.tasks \subseteq Tasks /\ l # CancelAction
           /\ \/ \E b \in Batches : l = InitialLaunch(b)
              \/ \E t \in Tasks : \E n \in 1..(MaxAttempts - 1) : \E who \in {"auto", "operator"} :
                    l = RetryLaunch(t, n, who)
  <1>1. CASE \E b \in Batches : l = InitialLaunch(b)
    BY <1>1, BatchesAssumption DEF InitialLaunch, CancelAction
  <1>2. CASE \E t \in Tasks : \E n \in 1..(MaxAttempts - 1) : \E who \in {"auto", "operator"} :
                    l = RetryLaunch(t, n, who)
    <2>1. PICK t \in Tasks, n \in 1..(MaxAttempts - 1), who \in {"auto", "operator"} :
                 l = RetryLaunch(t, n, who)
      BY <1>2
    <2>2. l.tasks = {t} /\ l.by = who /\ CancelAction.by = "cancel"
      BY <2>1 DEF RetryLaunch, CancelAction
    <2>3. QED
      BY <1>2, <2>2
  <1>3. QED
    BY <1>1, <1>2 DEF LaunchIds

(* What a launch replaces tells its task and attempt.                      *)
LEMMA Priors ==
    /\ CancelAction.prior = NoPrior
    /\ \A t : \A n : <<t, n>> # NoPrior
    /\ \A t : \A u : \A m : \A n : <<t, m>> = <<u, n>> => t = u /\ m = n
  BY DEF CancelAction, NoPrior

(* What an appended attempt changes.                                       *)
LEMMA AttemptsGrow ==
    ASSUME TaskTypes, NEW t \in Tasks, NEW l \in LaunchIds \cup {CancelAction}, NEW o \in Outcomes,
           attempts' = Append1(t, l, o)
    PROVE  /\ attempts' \in [Tasks -> Seq(AttemptType)]
           /\ \A u \in Tasks \ {t} : attempts'[u] = attempts[u]
           /\ Len(attempts[t]) \in Nat /\ DOMAIN attempts[t] = 1..Len(attempts[t])
           /\ Len(attempts'[t]) = Len(attempts[t]) + 1
           /\ DOMAIN attempts'[t] = 1..(Len(attempts[t]) + 1)
           /\ \A n \in DOMAIN attempts[t] : attempts'[t][n] = attempts[t][n]
           /\ attempts'[t][Len(attempts[t]) + 1].launch = l
           /\ attempts'[t][Len(attempts[t]) + 1].outcome = o
  <1> DEFINE a == [launch |-> l, outcome |-> o]
  <1>1. a \in AttemptType /\ a.launch = l /\ a.outcome = o
    BY DEF AttemptType
  <1>2. attempts[t] \in Seq(AttemptType)
    BY DEF TaskTypes
  <1>3. attempts' = [attempts EXCEPT ![t] = Append(attempts[t], a)]
    BY DEF Append1
  <1>4. attempts'[t] = Append(attempts[t], a) /\ \A u \in Tasks \ {t} : attempts'[u] = attempts[u]
    BY <1>3 DEF TaskTypes
  <1> HIDE DEF a
  <1>5. Append(attempts[t], a) \in Seq(AttemptType)
    BY <1>1, <1>2
  <1>6. attempts' \in [Tasks -> Seq(AttemptType)]
    BY <1>3, <1>5 DEF TaskTypes
  <1>7. QED
    BY <1>1, <1>2, <1>4, <1>6

(* The attempt a transition holds between two of its writes.               *)
LEMMA Held ==
    ASSUME TasksInv, pc = "finish"
    PROVE  \E t \in Tasks : \E n \in Nat :
             /\ held = <<t, n>> /\ held[1] = t /\ held[2] = n
             /\ n \in DOMAIN attempts[t] /\ attempts[t][n].launch = act.of /\ ~ Terminal(t)
  <1>1. held \in Tasks \X Nat
    BY DEF TasksInv, TaskTyped, ProcessTypes, PriorType, HoldOK
  <1>2. PICK t \in Tasks, n \in Nat : held = <<t, n>>
    BY <1>1
  <1>3. QED
    BY <1>2 DEF TasksInv, HoldOK

(* What the operator's retry in flight was admitted for.                   *)
LEMMA Retrying ==
    ASSUME TasksInv, retrying # NoPrior
    PROVE  \E t \in Tasks : \E n \in 1..(MaxAttempts - 1) :
             /\ retrying = <<t, n>> /\ retrying[1] = t /\ retrying[2] = n
             /\ n \in DOMAIN attempts[t] /\ attempts[t][n].outcome = "infrastructure"
             /\ n \notin selections[t]
             /\ Unreplaced(t, n)
  <1>1. retrying \in Tasks \X Nat
    BY DEF TasksInv, TaskTyped, ProcessTypes, PriorType
  <1>2. PICK t \in Tasks, n \in Nat : retrying = <<t, n>>
    BY <1>1
  <1>3. n \in DOMAIN attempts[t] /\ n < MaxAttempts /\ attempts[t] \in Seq(AttemptType)
    BY <1>2 DEF TasksInv, TaskTyped, TaskTypes, HoldOK
  <1>4. n \in 1..(MaxAttempts - 1)
    BY <1>3, TasksAssumption
  <1>5. QED
    BY <1>2, <1>4 DEF TasksInv, HoldOK

(* A receipt is typed by its parts.                                        *)
LEMMA Acts ==
    ASSUME NEW k \in {"none", "admit", "jobCancel", "cancel"} \cup Resolved,
           NEW l \in LaunchIds \cup {CancelAction},
           NEW s \in {"failed", "suppressed"} \cup JobStates, NEW late \in BOOLEAN
    PROVE  /\ Act(k, l, s, late) \in ActType
           /\ Act(k, l, s, late).kind = k /\ Act(k, l, s, late).of = l
           /\ Act(k, l, s, late).seen = s
  BY Zenon DEF Act, ActType

(* An idle process holds no receipt.                                       *)
LEMMA NoActs == NoAct \in ActType /\ NoAct.kind = "none"
  <1>1. Act("none", CancelAction, "none", FALSE) \in ActType
    BY Acts DEF JobStates
  <1>2. Act("none", CancelAction, "none", FALSE).kind = "none"
    BY DEF Act
  <1>3. QED
    BY <1>1, <1>2 DEF NoAct


(* Every step keeps the types of the launches.                             *)
LEMMA LaunchTypesNext ==
    ASSUME TasksInv, [Next]_vars
    PROVE  LaunchTypes'
  <1> USE DEF LaunchTypes, JobStates
  <1>0. LaunchTypes /\ act \in ActType
    BY DEF TasksInv, TaskTyped, ProcessTypes
  <1>1. CASE UNCHANGED vars
    BY <1>0, <1>1 DEF vars, records, process
  <1>2. CASE \/ Replay \/ ApplyCancel \/ CompleteDone \/ NotCancelled \/ SealDone \/ MarkAdvanced
             \/ Crash
    BY <1>0, <1>2 DEF Replay, ApplyCancel, CompleteDone, NotCancelled, SealDone, MarkAdvanced,
                      Crash, records
  <1>3. CASE ApplyAdmit
    BY <1>0, <1>3 DEF ApplyAdmit, process
  <1>4. CASE ApplyLaunch
    BY <1>0, <1>4 DEF ApplyLaunch
  <1>5. CASE ApplyObserve
    BY <1>0, <1>5 DEF ApplyObserve
  <1>6. CASE FinishAttempt
    <2>1. PICK t \in Tasks, n \in Nat : held[1] = t /\ held[2] = n /\ n \in DOMAIN attempts[t]
      BY <1>6, Held DEF FinishAttempt
    <2>2. Len(attempts[t]) < MaxAttempts => RetryLaunch(t, n, "auto") \in LaunchIds
      <3>1. attempts[t] \in Seq(AttemptType)
        BY DEF TasksInv, TaskTyped, TaskTypes
      <3>2. Len(attempts[t]) < MaxAttempts => n \in 1..(MaxAttempts - 1)
        BY <2>1, <3>1, TasksAssumption
      <3>3. QED
        BY <3>2, RetryLaunches
    <2>3. QED
      BY <1>0, <1>6, <2>1, <2>2 DEF FinishAttempt
  <1>7. CASE OperatorRetryWrite
    BY <1>0, <1>7 DEF OperatorRetryWrite, process
  <1>8. CASE ContinueCancellation
    BY <1>0, <1>8 DEF ContinueCancellation, ActiveJobs
  <1>9. CASE MaybePublish \/ OperatorPublish
    BY <1>0, <1>9 DEF MaybePublish, OperatorPublish, process
  <1>10. CASE HandleAdmit \/ HandleCancel \/ RequestCancel
    BY <1>0, <1>10 DEF HandleAdmit, HandleCancel, RequestCancel, process
  <1>11. ASSUME NEW u \in Tasks,
                \/ CompleteTask(u) \/ SealAttempt(u) \/ SealSelect(u) \/ OperatorRetryCheck(u)
        PROVE  LaunchTypes'
    BY <1>0, <1>11 DEF CompleteTask, SealAttempt, SealSelect, OperatorRetryCheck, process,
                       records
  <1>12. ASSUME NEW k \in LaunchIds,
                \/ DispatchLaunch(k) \/ JobStarts(k) \/ JobEnds(k)
        PROVE  LaunchTypes'
    BY <1>0, <1>12 DEF DispatchLaunch, JobStarts, JobEnds, process, records
  <1>13. ASSUME NEW k \in LaunchIds, ResolveLaunch(k) PROVE LaunchTypes'
    BY <1>0, <1>13 DEF ResolveLaunch
  <1>14. ASSUME NEW k \in LaunchIds, HandleObserve(k) PROVE LaunchTypes'
    BY <1>0, <1>14 DEF HandleObserve
  <1>15. ASSUME NEW k \in LaunchIds, HandleJobCancel(k) PROVE LaunchTypes'
    BY <1>0, <1>15 DEF HandleJobCancel
  <1>16. ASSUME NEW k \in LaunchIds, NEW u \in Tasks, NEW o \in {"final", "infrastructure"},
                WorkerAttempt(k, u, o)
        PROVE  LaunchTypes'
    BY <1>0, <1>16 DEF WorkerAttempt, process
  <1>17. QED
    BY <1>1, <1>2, <1>3, <1>4, <1>5, <1>6, <1>7, <1>8, <1>9, <1>10, <1>11, <1>12, <1>13,
       <1>14, <1>15, <1>16
       DEF Next, Transition

(* Every step keeps the types of the tasks.                                *)
LEMMA TaskTypesNext ==
    ASSUME TasksInv, [Next]_vars
    PROVE  TaskTypes'
  <1>0. TaskTypes /\ ProcessTypes
    BY DEF TasksInv, TaskTyped
  <1>a. ASSUME NEW u \in Tasks, NEW l \in LaunchIds \cup {CancelAction}, NEW o \in Outcomes,
               attempts' = Append1(u, l, o), UNCHANGED selections
        PROVE  TaskTypes'
    <2>1. /\ attempts' \in [Tasks -> Seq(AttemptType)]
          /\ \A t \in Tasks \ {u} : attempts'[t] = attempts[t]
          /\ DOMAIN attempts[u] \subseteq DOMAIN attempts'[u]
      BY <1>0, <1>a, AttemptsGrow
    <2>2. \A t \in Tasks : selections'[t] \subseteq DOMAIN attempts'[t]
      BY <1>0, <1>a, <2>1 DEF TaskTypes
    <2>3. QED
      BY <1>0, <1>a, <2>1, <2>2 DEF TaskTypes
  <1> USE DEF TaskTypes
  <1>1. CASE UNCHANGED vars
    BY <1>0, <1>1 DEF vars, records, process
  <1>2. CASE \/ Replay \/ ApplyAdmit \/ ApplyLaunch \/ ApplyObserve \/ ApplyCancel
             \/ CompleteDone \/ ContinueCancellation \/ NotCancelled \/ SealDone \/ MaybePublish
             \/ MarkAdvanced \/ HandleAdmit \/ HandleCancel \/ Crash \/ RequestCancel
             \/ OperatorPublish \/ OperatorRetryWrite
    BY <1>0, <1>2 DEF Replay, ApplyAdmit, ApplyLaunch, ApplyObserve, ApplyCancel, CompleteDone,
                      ContinueCancellation, NotCancelled, SealDone, MaybePublish, MarkAdvanced,
                      HandleAdmit, HandleCancel, Crash, RequestCancel, OperatorPublish,
                      OperatorRetryWrite, records, process
  <1>3. CASE FinishAttempt
    <2>1. PICK t \in Tasks, n \in Nat : held[1] = t /\ held[2] = n /\ n \in DOMAIN attempts[t]
      BY <1>3, Held DEF FinishAttempt
    <2>2. UNCHANGED attempts /\ (UNCHANGED selections \/ Select(t, n))
      BY <1>3, <2>1 DEF FinishAttempt
    <2>3. n \in Nat /\ attempts[t] \in Seq(AttemptType)
      BY <1>0
    <2>4. CASE Select(t, n)
      <3>1. selections' = [selections EXCEPT ![t] = selections[t] \cup {n}]
        BY <2>4 DEF Select
      <3>2. selections[t] \cup {n} \in SUBSET Nat
        BY <1>0, <2>3
      <3>3. selections' \in [Tasks -> SUBSET Nat]
        BY <1>0, <3>1, <3>2
      <3>4. QED
        BY <1>0, <2>1, <2>2, <3>1, <3>3
    <2>5. QED
      BY <1>0, <2>2, <2>4
  <1>4. ASSUME NEW u \in Tasks, CompleteTask(u) PROVE TaskTypes'
    <2>1. Fallback \in Outcomes /\ act.of \in LaunchIds \cup {CancelAction} /\ UNCHANGED selections
      BY <1>0, <1>4 DEF CompleteTask, Fallback, Outcomes, ProcessTypes, ActType
    <2>2. UNCHANGED attempts \/ attempts' = Append1(u, act.of, Fallback)
      BY <1>4 DEF CompleteTask
    <2>3. QED
      BY <1>0, <1>a, <2>1, <2>2
  <1>5. ASSUME NEW u \in Tasks, SealAttempt(u) PROVE TaskTypes'
    BY <1>a, <1>5 DEF SealAttempt, Outcomes
  <1>6. ASSUME NEW u \in Tasks, SealSelect(u) PROVE TaskTypes'
    BY <1>0, <1>6 DEF SealSelect, Select, AttemptIndex
  <1>7. ASSUME NEW u \in Tasks, OperatorRetryCheck(u) PROVE TaskTypes'
    BY <1>0, <1>7 DEF OperatorRetryCheck, records, process
  <1>8. ASSUME NEW k \in LaunchIds,
               \/ DispatchLaunch(k) \/ ResolveLaunch(k) \/ HandleObserve(k) \/ HandleJobCancel(k)
               \/ JobStarts(k) \/ JobEnds(k)
        PROVE  TaskTypes'
    BY <1>0, <1>8 DEF DispatchLaunch, ResolveLaunch, HandleObserve, HandleJobCancel, JobStarts,
                      JobEnds, process, records
  <1>9. ASSUME NEW k \in LaunchIds, NEW u \in Tasks, NEW o \in {"final", "infrastructure"},
               WorkerAttempt(k, u, o)
        PROVE  TaskTypes'
    BY <1>a, <1>9 DEF WorkerAttempt, Outcomes
  <1>10. QED
    BY <1>1, <1>2, <1>3, <1>4, <1>5, <1>6, <1>7, <1>8, <1>9
       DEF Next, Transition

(* Every step keeps the types of the process.                              *)
LEMMA ProcessTypesNext ==
    ASSUME TasksInv, [Next]_vars
    PROVE  ProcessTypes'
  <1> USE DEF ProcessTypes
  <1>0. LaunchTypes /\ TaskTypes /\ ProcessTypes
    BY DEF TasksInv, TaskTyped
  <1>r. ASSUME NEW a \in ActType, Received(a), UNCHANGED retrying PROVE ProcessTypes'
    BY <1>0, <1>r DEF Received, Start
  <1>1. CASE UNCHANGED vars
    BY <1>0, <1>1 DEF vars, records, process
  <1>2. CASE \/ Replay \/ ApplyAdmit \/ ApplyCancel \/ CompleteDone \/ NotCancelled \/ SealDone
             \/ MaybePublish
    BY <1>0, <1>2 DEF Replay, ApplyAdmit, ApplyCancel, CompleteDone, NotCancelled, SealDone,
                      MaybePublish, Start, records, Goto, process
  <1>3. CASE ApplyLaunch \/ ApplyObserve
    <2>1. act.of.tasks \subseteq Tasks
      BY <1>0, Launches DEF ActType, CancelAction
    <2>2. QED
      BY <1>0, <1>3, <2>1 DEF ApplyLaunch, ApplyObserve, Goto, Complete
  <1>4. CASE FinishAttempt
    BY <1>0, <1>4 DEF FinishAttempt, Goto
  <1>5. CASE ContinueCancellation
    BY <1>0, <1>5 DEF ContinueCancellation, Goto
  <1>6. CASE MarkAdvanced \/ Crash
    <2>1. NoAct \in ActType /\ NoPrior \in PriorType
      BY NoActs DEF PriorType
    <2>2. QED
      BY <1>0, <1>6, <2>1 DEF MarkAdvanced, Crash, records
  <1>7. CASE HandleAdmit \/ HandleCancel
    <2>1. Act("admit", CancelAction, "none", FALSE) \in ActType
      BY Acts DEF JobStates
    <2>2. Act("cancel", CancelAction, "none", FALSE) \in ActType
      BY Acts DEF JobStates
    <2>3. QED
      BY <1>r, <1>7, <2>1, <2>2 DEF HandleAdmit, HandleCancel
  <1>8. CASE RequestCancel \/ OperatorPublish
    BY <1>0, <1>8 DEF RequestCancel, OperatorPublish, process
  <1>9. CASE OperatorRetryWrite
    <2>1. NoPrior \in PriorType
      BY DEF PriorType
    <2>2. QED
      BY <1>0, <1>9, <2>1 DEF OperatorRetryWrite, process
  <1>10. ASSUME NEW u \in Tasks, CompleteTask(u) PROVE ProcessTypes'
    <2>1. attempts[u] \in Seq(AttemptType) /\ attempts'[u] \in Seq(AttemptType)
      BY TaskTypesNext DEF TaskTypes, TasksInv, TaskTyped
    <2>2. Len(attempts[u]) \in Nat /\ Len(attempts'[u]) \in Nat /\ DOMAIN attempts[u] \subseteq Nat
      BY <2>1
    <2>3. held' \in PriorType
      <3>1. CASE UNCHANGED held
        BY <1>0, <3>1
      <3>2. CASE \E n \in Nat : held' = <<u, n>>
        BY <3>2 DEF PriorType
      <3>3. CASE AttemptIndex(attempts, act.of, u) # {} /\ ~ Terminal(u)
        <4>1. (CHOOSE n \in AttemptIndex(attempts, act.of, u) : TRUE) \in Nat
          BY <2>2, <3>3 DEF AttemptIndex
        <4>2. QED
          BY <1>10, <3>2, <3>3, <4>1 DEF CompleteTask
      <3>4. QED
        BY <1>10, <2>2, <3>1, <3>2, <3>3 DEF CompleteTask
    <2>4. QED
      BY <1>0, <1>10, <2>3 DEF CompleteTask
  <1>11. ASSUME NEW u \in Tasks,
                \/ SealAttempt(u) \/ SealSelect(u)
        PROVE  ProcessTypes'
    BY <1>0, <1>11 DEF SealAttempt, SealSelect, process
  <1>12. ASSUME NEW u \in Tasks, OperatorRetryCheck(u) PROVE ProcessTypes'
    <2>1. attempts[u] \in Seq(AttemptType)
      BY <1>0 DEF TaskTypes
    <2>2. retrying' \in PriorType
      BY <1>12, <2>1 DEF OperatorRetryCheck, PriorType
    <2>3. QED
      BY <1>0, <1>12, <2>2 DEF OperatorRetryCheck, records, process
  <1>13. ASSUME NEW k \in LaunchIds,
                \/ DispatchLaunch(k) \/ JobStarts(k) \/ JobEnds(k)
        PROVE  ProcessTypes'
    BY <1>0, <1>13 DEF DispatchLaunch, JobStarts, JobEnds, process, records
  <1>14. ASSUME NEW k \in LaunchIds, ResolveLaunch(k) PROVE ProcessTypes'
    <2>1. PICK r \in {"running", "failed", "suppressed"} :
             Received(Act("launch", k, r, k \in deadline))
      BY <1>14 DEF ResolveLaunch
    <2>2. r \in {"failed", "suppressed"} \cup JobStates /\ (k \in deadline) \in BOOLEAN
      BY DEF JobStates
    <2>3. Act("launch", k, r, k \in deadline) \in ActType
      BY <2>2, Acts, Zenon DEF Resolved
    <2>4. QED
      BY <1>r, <1>14, <2>1, <2>3 DEF ResolveLaunch
  <1>15. ASSUME NEW k \in LaunchIds, HandleObserve(k) PROVE ProcessTypes'
    <2>1. job[k] \in {"failed", "suppressed"} \cup JobStates /\ (obs[k] = "grace") \in BOOLEAN
      BY <1>0 DEF LaunchTypes
    <2>2. Act("observe", k, job[k], obs[k] = "grace") \in ActType
      BY <2>1, Acts, Zenon DEF Resolved
    <2>3. QED
      BY <1>r, <1>15, <2>2 DEF HandleObserve
  <1>16. ASSUME NEW k \in LaunchIds, HandleJobCancel(k) PROVE ProcessTypes'
    <2>1. PICK s \in {job[k]} \cup (IF job[k] = "running" THEN {"error"} ELSE {}) :
                 Received(Act("jobCancel", k, s, FALSE))
      BY <1>16 DEF HandleJobCancel
    <2>2. s \in {"failed", "suppressed"} \cup JobStates
      BY <1>0 DEF LaunchTypes, JobStates
    <2>3. Act("jobCancel", k, s, FALSE) \in ActType
      BY <2>2, Acts, Zenon DEF Resolved
    <2>4. QED
      BY <1>r, <1>16, <2>1, <2>3 DEF HandleJobCancel
  <1>17. ASSUME NEW k \in LaunchIds, NEW u \in Tasks, NEW o \in {"final", "infrastructure"},
                WorkerAttempt(k, u, o)
        PROVE  ProcessTypes'
    BY <1>0, <1>17 DEF WorkerAttempt, process
  <1>18. QED
    BY <1>1, <1>2, <1>3, <1>4, <1>5, <1>6, <1>7, <1>8, <1>9, <1>10, <1>11, <1>12, <1>13,
       <1>14, <1>15, <1>16, <1>17
       DEF Next, Transition

(* Launches stay on record, and cancellation and publication are not       *)
(* taken back.                                                             *)
LEMMA LaunchesStay ==
    ASSUME TasksInv, [Next]_vars
    PROVE  Stays
  <1> USE DEF Present, LaunchTypes, Stays
  <1>0. LaunchTypes
    BY DEF TasksInv, TaskTyped
  <1>1. CASE UNCHANGED vars
    BY <1>0, <1>1 DEF vars, records, process
  <1>2. CASE \/ Replay \/ ApplyLaunch \/ ApplyObserve \/ ApplyCancel \/ CompleteDone
             \/ ContinueCancellation \/ NotCancelled \/ SealDone \/ MaybePublish \/ MarkAdvanced
             \/ HandleAdmit \/ HandleCancel \/ Crash \/ RequestCancel \/ OperatorPublish
    BY <1>0, <1>2 DEF Replay, ApplyLaunch, ApplyObserve, ApplyCancel, CompleteDone,
                      ContinueCancellation, NotCancelled, SealDone, MaybePublish, MarkAdvanced,
                      HandleAdmit, HandleCancel, Crash, RequestCancel, OperatorPublish, records,
                      process
  <1>3. CASE ApplyAdmit \/ OperatorRetryWrite \/ FinishAttempt
    BY <1>0, <1>3 DEF ApplyAdmit, OperatorRetryWrite, FinishAttempt, process
  <1>4. ASSUME NEW u \in Tasks,
               \/ CompleteTask(u) \/ SealAttempt(u) \/ SealSelect(u) \/ OperatorRetryCheck(u)
        PROVE  Stays
    BY <1>0, <1>4 DEF CompleteTask, SealAttempt, SealSelect, OperatorRetryCheck, process,
                      records
  <1>5. ASSUME NEW k \in LaunchIds,
               \/ DispatchLaunch(k) \/ ResolveLaunch(k) \/ HandleObserve(k) \/ HandleJobCancel(k)
               \/ JobStarts(k) \/ JobEnds(k)
        PROVE  Stays
    BY <1>0, <1>5 DEF DispatchLaunch, ResolveLaunch, HandleObserve, HandleJobCancel, JobStarts,
                      JobEnds, process, records
  <1>6. ASSUME NEW k \in LaunchIds, NEW u \in Tasks, NEW o \in {"final", "infrastructure"},
               WorkerAttempt(k, u, o)
        PROVE  Stays
    BY <1>0, <1>6 DEF WorkerAttempt, process
  <1>7. QED
    BY <1>1, <1>2, <1>3, <1>4, <1>5, <1>6 DEF Next, Transition

(* A launch is recorded by the admission, or as the only replacement of an *)
(* infrastructure failure that is not selected.                            *)
LEMMA LaunchWrites ==
    ASSUME TasksInv, [Next]_vars, NEW l \in LaunchIds, ~ Present(l), Present(l)'
    PROVE  Recorded(l)
  <1>0. LaunchTypes /\ TaskTypes /\ HoldOK
    BY DEF TasksInv, TaskTyped
  <1>u. CASE \A k \in LaunchIds : launch'[k] = launch[k] \/ Present(k)
    BY <1>u DEF Present
  <1>1. CASE UNCHANGED vars
    BY <1>0, <1>u, <1>1 DEF vars, records, process
  <1>2. CASE \/ Replay \/ ApplyLaunch \/ ApplyObserve \/ ApplyCancel \/ CompleteDone
             \/ ContinueCancellation \/ NotCancelled \/ SealDone \/ MaybePublish \/ MarkAdvanced
             \/ HandleAdmit \/ HandleCancel \/ Crash \/ RequestCancel \/ OperatorPublish
    BY <1>0, <1>u, <1>2 DEF Replay, ApplyLaunch, ApplyObserve, ApplyCancel, CompleteDone,
                            ContinueCancellation, NotCancelled, SealDone, MaybePublish,
                            MarkAdvanced, HandleAdmit, HandleCancel, Crash, RequestCancel,
                            OperatorPublish, records, process
  <1>3. CASE ApplyAdmit
    <2>1. CASE UNCHANGED launch
      BY <1>u, <2>1
    <2>2. CASE \E b \in Batches : launch' = [launch EXCEPT ![InitialLaunch(b)] = "pending"]
      <3>1. PICK b \in Batches : launch' = [launch EXCEPT ![InitialLaunch(b)] = "pending"]
        BY <2>2
      <3>2. l = InitialLaunch(b)
        BY <1>0, <3>1 DEF LaunchTypes, Present
      <3>3. l.prior = NoPrior
        BY <3>2, InitialLaunches
      <3>4. QED
        BY <1>3, <3>1, <3>2, <3>3 DEF ApplyAdmit, Recorded
    <2>3. QED
      BY <1>3, <2>1, <2>2 DEF ApplyAdmit
  <1>4. CASE OperatorRetryWrite
    <2>1. PICK t \in Tasks, n \in 1..(MaxAttempts - 1) :
             /\ retrying = <<t, n>> /\ retrying[1] = t /\ retrying[2] = n
             /\ n \in DOMAIN attempts[t] /\ attempts[t][n].outcome = "infrastructure"
             /\ n \notin selections[t]
             /\ Unreplaced(t, n)
      BY <1>4, Retrying DEF OperatorRetryWrite
    <2>2. CASE launch' = [launch EXCEPT ![RetryLaunch(t, n, "operator")] = "pending"]
      <3>1. l = RetryLaunch(t, n, "operator")
        BY <1>0, <2>2 DEF LaunchTypes, Present
      <3>2. l.prior = <<t, n>> /\ n \in Nat
        BY <3>1, RetryLaunches
      <3>3. retrying' # <<t, n>> /\ UNCHANGED <<attempts, selections>>
        BY <1>4, Priors DEF OperatorRetryWrite
      <3>4. QED
        BY <2>1, <2>2, <3>1, <3>2, <3>3 DEF Recorded
    <2>3. QED
      BY <1>4, <1>u, <2>1, <2>2 DEF OperatorRetryWrite
  <1>5. CASE FinishAttempt
    <2>1. PICK t \in Tasks, n \in Nat :
             /\ held = <<t, n>> /\ held[1] = t /\ held[2] = n
             /\ n \in DOMAIN attempts[t] /\ ~ Terminal(t)
      BY <1>5, Held DEF FinishAttempt
    <2>2. CASE UNCHANGED launch
      BY <1>u, <2>2
    <2>3. CASE /\ attempts[t][n].outcome = "infrastructure" /\ Retries(t, n) = {}
               /\ Len(attempts[t]) < MaxAttempts
               /\ launch' = [launch EXCEPT ![RetryLaunch(t, n, "auto")] = "pending"]
               /\ UNCHANGED selections
      <3>1. l = RetryLaunch(t, n, "auto")
        BY <1>0, <2>3 DEF LaunchTypes, Present
      <3>2. n \in 1..(MaxAttempts - 1)
        <4>1. attempts[t] \in Seq(AttemptType)
          BY <1>0 DEF TaskTypes
        <4>2. QED
          BY <2>1, <2>3, <4>1, TasksAssumption
      <3>3. l.prior = <<t, n>>
        BY <3>1, <3>2, RetryLaunches
      <3>4. Unreplaced(t, n)
        BY <2>3 DEF Retries, Present, Unreplaced
      <3>5. retrying' # <<t, n>> /\ UNCHANGED attempts /\ n \notin selections[t]
        BY <1>5, <2>1, Priors DEF FinishAttempt, Terminal
      <3>6. QED
        BY <2>1, <2>3, <3>1, <3>3, <3>4, <3>5 DEF Recorded
    <2>4. QED
      BY <1>5, <2>1, <2>2, <2>3 DEF FinishAttempt
  <1>6. ASSUME NEW u \in Tasks,
               \/ CompleteTask(u) \/ SealAttempt(u) \/ SealSelect(u) \/ OperatorRetryCheck(u)
        PROVE  Recorded(l)
    BY <1>0, <1>u, <1>6 DEF CompleteTask, SealAttempt, SealSelect, OperatorRetryCheck, process,
                            records
  <1>7. ASSUME NEW k \in LaunchIds,
               \/ JobStarts(k) \/ JobEnds(k) \/ HandleObserve(k) \/ HandleJobCancel(k)
        PROVE  Recorded(l)
    BY <1>0, <1>u, <1>7 DEF JobStarts, JobEnds, HandleObserve, HandleJobCancel, records, process
  <1>8. ASSUME NEW k \in LaunchIds,
               \/ DispatchLaunch(k) \/ ResolveLaunch(k)
        PROVE  Recorded(l)
    BY <1>0, <1>u, <1>8 DEF DispatchLaunch, ResolveLaunch, LaunchTypes, Present
  <1>9. ASSUME NEW k \in LaunchIds, NEW u \in Tasks, NEW o \in {"final", "infrastructure"},
               WorkerAttempt(k, u, o)
        PROVE  Recorded(l)
    BY <1>0, <1>u, <1>9 DEF WorkerAttempt, process
  <1>10. QED
    BY <1>1, <1>2, <1>3, <1>4, <1>5, <1>6, <1>7, <1>8, <1>9
       DEF Next, Transition

(* An attempt is appended as the first of its launch, present or the       *)
(* cancellation.                                                           *)
LEMMA AttemptWrites ==
    ASSUME TasksInv, [Next]_vars
    PROVE  \/ UNCHANGED attempts
           \/ \E t \in Tasks : \E l \in LaunchIds \cup {CancelAction} : \E o \in Outcomes :
                Appends(t, l, o)
  <1> DEFINE Written == \/ UNCHANGED attempts
                        \/ \E t \in Tasks : \E l \in LaunchIds \cup {CancelAction} :
                             \E o \in Outcomes : Appends(t, l, o)
  <1> SUFFICES Written
    OBVIOUS
  <1>1. CASE UNCHANGED vars
    BY <1>1 DEF vars, records, process
  <1>2. CASE \/ Replay \/ ApplyAdmit \/ ApplyLaunch \/ ApplyObserve \/ ApplyCancel
             \/ CompleteDone \/ FinishAttempt \/ ContinueCancellation \/ NotCancelled \/ SealDone
             \/ MaybePublish \/ MarkAdvanced \/ HandleAdmit \/ HandleCancel \/ Crash
             \/ RequestCancel \/ OperatorPublish \/ OperatorRetryWrite
    BY <1>2 DEF Replay, ApplyAdmit, ApplyLaunch, ApplyObserve, ApplyCancel, CompleteDone,
                FinishAttempt, ContinueCancellation, NotCancelled, SealDone, MaybePublish,
                MarkAdvanced, HandleAdmit, HandleCancel, Crash, RequestCancel, OperatorPublish,
                OperatorRetryWrite, records, process
  <1>3. ASSUME NEW u \in Tasks, CompleteTask(u) PROVE Written
    <2>1. Fallback \in Outcomes
      BY DEF Fallback, Outcomes
    <2>2. act.of \in LaunchIds /\ act.of # CancelAction /\ Present(act.of)
      <3>1. act \in unadvanced /\ act.kind \in Resolved
        BY <1>3 DEF CompleteTask, TasksInv, ActOK
      <3>2. ReceiptOK(act)
        BY <3>1 DEF TasksInv, ActOK
      <3>3. QED
        BY <3>1, <3>2, Launches DEF ReceiptOK, Resolved, Present
    <2>3. UNCHANGED <<launch, selections>>
      BY <1>3 DEF CompleteTask
    <2>4. UNCHANGED attempts \/ (attempts' = Append1(u, act.of, Fallback)
                                /\ AttemptIndex(attempts, act.of, u) = {})
      BY <1>3 DEF CompleteTask
    <2>5. QED
      BY <2>1, <2>2, <2>3, <2>4 DEF Appends
  <1>4. ASSUME NEW u \in Tasks, SealAttempt(u) PROVE Written
    <2>1. Appends(u, CancelAction, "cancelled")
      BY <1>4 DEF SealAttempt, Appends
    <2>2. QED
      BY <2>1 DEF Outcomes
  <1>5. ASSUME NEW u \in Tasks,
               \/ SealSelect(u) \/ OperatorRetryCheck(u)
        PROVE  Written
    BY <1>5 DEF SealSelect, OperatorRetryCheck, records, process
  <1>6. ASSUME NEW k \in LaunchIds,
               \/ DispatchLaunch(k) \/ ResolveLaunch(k) \/ HandleObserve(k) \/ HandleJobCancel(k)
               \/ JobStarts(k) \/ JobEnds(k)
        PROVE  Written
    BY <1>6 DEF DispatchLaunch, ResolveLaunch, HandleObserve, HandleJobCancel, JobStarts,
                JobEnds, process, records
  <1>7. ASSUME NEW k \in LaunchIds, NEW u \in Tasks, NEW o \in {"final", "infrastructure"},
               WorkerAttempt(k, u, o)
        PROVE  Written
    <2>1. Present(k) /\ k # CancelAction
      BY <1>7, Launches DEF WorkerAttempt, TasksInv, LaunchOK, Present
    <2>2. Appends(u, k, o)
      BY <1>7, <2>1 DEF WorkerAttempt, Appends
    <2>3. QED
      BY <2>2 DEF Outcomes
  <1>8. QED
    BY <1>1, <1>2, <1>3, <1>4, <1>5, <1>6, <1>7
       DEF Next, Transition

(* A task is sealed once, by an attempt that nobody replaces.              *)
LEMMA SelectionWrites ==
    ASSUME TasksInv, [Next]_vars
    PROVE  UNCHANGED selections \/ \E t \in Tasks : \E n \in Nat : Selects(t, n)
  <1> DEFINE Written == UNCHANGED selections \/ \E t \in Tasks : \E n \in Nat : Selects(t, n)
  <1> SUFFICES Written
    OBVIOUS
  <1>0. TaskTypes /\ ProcessTypes
    BY DEF TasksInv, TaskTyped
  <1>1. CASE UNCHANGED vars
    BY <1>1 DEF vars, records, process
  <1>2. CASE \/ Replay \/ ApplyAdmit \/ ApplyLaunch \/ ApplyObserve \/ ApplyCancel
             \/ CompleteDone \/ ContinueCancellation \/ NotCancelled \/ SealDone \/ MaybePublish
             \/ MarkAdvanced \/ HandleAdmit \/ HandleCancel \/ Crash \/ RequestCancel
             \/ OperatorPublish \/ OperatorRetryWrite
    BY <1>2 DEF Replay, ApplyAdmit, ApplyLaunch, ApplyObserve, ApplyCancel, CompleteDone,
                ContinueCancellation, NotCancelled, SealDone, MaybePublish, MarkAdvanced,
                HandleAdmit, HandleCancel, Crash, RequestCancel, OperatorPublish,
                OperatorRetryWrite, records, process
  <1>3. CASE FinishAttempt
    <2>1. PICK t \in Tasks, n \in Nat :
             /\ held = <<t, n>> /\ held[1] = t /\ held[2] = n
             /\ n \in DOMAIN attempts[t] /\ ~ Terminal(t)
      BY <1>3, Held DEF FinishAttempt
    <2>2. CASE /\ Select(t, n) /\ UNCHANGED launch
               /\ attempts[t][n].outcome # "infrastructure" \/ Retries(t, n) = {}
      <3>1. Unreplaced(t, n)
        BY <2>1, <2>2 DEF Unreplaced, Retries, Present, TasksInv, RetryOK
      <3>2. retrying # <<t, n>> /\ UNCHANGED <<attempts, retrying>> /\ selections[t] = {}
        BY <1>3, <2>1, Priors DEF FinishAttempt, Terminal
      <3>3. QED
        BY <2>1, <2>2, <3>1, <3>2 DEF Selects
    <2>3. QED
      BY <1>3, <2>1, <2>2 DEF FinishAttempt
  <1>4. ASSUME NEW u \in Tasks, SealSelect(u) PROVE Written
    <2>1. PICK n \in AttemptIndex(attempts, CancelAction, u) : Select(u, n)
      BY <1>4 DEF SealSelect
    <2>2. n \in DOMAIN attempts[u] /\ attempts[u][n].launch = CancelAction /\ n \in Nat
      BY <1>0, <2>1 DEF AttemptIndex, TaskTypes
    <2>3. attempts[u][n].outcome # "infrastructure"
      BY <2>2 DEF TasksInv, AttemptOK
    <2>4. Unreplaced(u, n) /\ retrying # <<u, n>>
      BY <2>2, <2>3 DEF Unreplaced, TasksInv, RetryOK, HoldOK
    <2>5. selections[u] = {} /\ UNCHANGED <<launch, attempts, retrying>>
      BY <1>4 DEF SealSelect, TasksInv, HoldOK, Terminal
    <2>6. QED
      BY <2>1, <2>2, <2>4, <2>5 DEF Selects
  <1>5. ASSUME NEW u \in Tasks,
               \/ CompleteTask(u) \/ SealAttempt(u) \/ OperatorRetryCheck(u)
        PROVE  Written
    BY <1>5 DEF CompleteTask, SealAttempt, OperatorRetryCheck, process, records
  <1>6. ASSUME NEW k \in LaunchIds,
               \/ DispatchLaunch(k) \/ ResolveLaunch(k) \/ HandleObserve(k) \/ HandleJobCancel(k)
               \/ JobStarts(k) \/ JobEnds(k)
        PROVE  Written
    BY <1>6 DEF DispatchLaunch, ResolveLaunch, HandleObserve, HandleJobCancel, JobStarts,
                JobEnds, process, records
  <1>7. ASSUME NEW k \in LaunchIds, NEW u \in Tasks, NEW o \in {"final", "infrastructure"},
               WorkerAttempt(k, u, o)
        PROVE  Written
    BY <1>7 DEF WorkerAttempt, process
  <1>8. QED
    BY <1>1, <1>2, <1>3, <1>4, <1>5, <1>6, <1>7
       DEF Next, Transition

(* Attempts stay where they are.                                           *)
LEMMA AttemptsKept ==
    ASSUME TasksInv, [Next]_vars, NEW t \in Tasks, NEW n \in DOMAIN attempts[t]
    PROVE  n \in DOMAIN attempts'[t] /\ attempts'[t][n] = attempts[t][n]
  <1>1. CASE UNCHANGED attempts
    BY <1>1
  <1>2. ASSUME NEW u \in Tasks, NEW l \in LaunchIds \cup {CancelAction}, NEW o \in Outcomes,
               Appends(u, l, o)
        PROVE  n \in DOMAIN attempts'[t] /\ attempts'[t][n] = attempts[t][n]
    <2>1. attempts' = Append1(u, l, o) /\ TaskTypes
      BY <1>2 DEF Appends, TasksInv, TaskTyped
    <2>2. /\ \A v \in Tasks \ {u} : attempts'[v] = attempts[v]
          /\ Len(attempts[u]) \in Nat /\ DOMAIN attempts[u] = 1..Len(attempts[u])
          /\ DOMAIN attempts'[u] = 1..(Len(attempts[u]) + 1)
          /\ \A m \in DOMAIN attempts[u] : attempts'[u][m] = attempts[u][m]
      BY <2>1, AttemptsGrow
    <2>3. DOMAIN attempts[u] \subseteq DOMAIN attempts'[u]
      BY <2>2
    <2>4. QED
      BY <2>2, <2>3
  <1>3. QED
    BY <1>1, <1>2, AttemptWrites

(* Every step leaves one attempt per launch and task.                      *)
LEMMA AttemptOKNext ==
    ASSUME TasksInv, [Next]_vars
    PROVE  \A t \in Tasks : AttemptOK(t)'
  <1> SUFFICES ASSUME NEW t \in Tasks PROVE AttemptOK(t)'
    OBVIOUS
  <1>0. AttemptOK(t) /\ TaskTypes /\ Stays
    BY LaunchesStay DEF TasksInv, TaskTyped
  <1>t. \A n \in DOMAIN attempts[t] : attempts[t][n].launch \in LaunchIds \cup {CancelAction}
    <2>1. attempts[t] \in Seq(AttemptType)
      BY <1>0 DEF TaskTypes
    <2>2. \A n \in DOMAIN attempts[t] : attempts[t][n] \in AttemptType
      BY <2>1
    <2>3. QED
      BY <2>2 DEF AttemptType
  <1>1. CASE attempts'[t] = attempts[t]
    BY <1>0, <1>t, <1>1 DEF AttemptOK, Stays
  <1>2. ASSUME NEW u \in Tasks, NEW l \in LaunchIds \cup {CancelAction}, NEW o \in Outcomes,
               Appends(u, l, o)
        PROVE  AttemptOK(t)'
    <2>1. attempts' = Append1(u, l, o)
      BY <1>2 DEF Appends
    <2>2. CASE t # u
      BY <1>0, <1>1, <2>1, <2>2, AttemptsGrow
    <2>3. CASE t = u
      <3> DEFINE k == Len(attempts[t]) + 1
      <3>1. /\ k \in Nat /\ k \notin DOMAIN attempts[t]
            /\ DOMAIN attempts'[t] = DOMAIN attempts[t] \cup {k}
            /\ \A n \in DOMAIN attempts[t] : attempts'[t][n] = attempts[t][n]
            /\ attempts'[t][k].launch = l /\ attempts'[t][k].outcome = o
        BY <1>0, <2>1, <2>3, AttemptsGrow
      <3> HIDE DEF k
      <3>2. \A n \in DOMAIN attempts[t] : attempts[t][n].launch # l
        BY <1>2, <2>3 DEF Appends, AttemptIndex
      <3>3. IF l = CancelAction THEN o = "cancelled" ELSE Present(l)'
        BY <1>0, <1>2 DEF Appends, Stays
      <3>4. QED
        BY <1>0, <1>t, <3>1, <3>2, <3>3 DEF AttemptOK, Stays
    <2>4. QED
      BY <2>2, <2>3
  <1>3. QED
    BY <1>1, <1>2, AttemptWrites

(* Every step leaves one replacement per failure and one selection per     *)
(* task.                                                                   *)
LEMMA RetryOKNext ==
    ASSUME TasksInv, [Next]_vars
    PROVE  \A t \in Tasks : RetryOK(t)'
  <1> SUFFICES ASSUME NEW t \in Tasks PROVE RetryOK(t)'
    OBVIOUS
  <1>0. RetryOK(t) /\ AttemptOK(t) /\ TaskTypes /\ LaunchTypes
    BY DEF TasksInv, TaskTyped
  <1>1. CASE /\ attempts'[t] = attempts[t] /\ selections'[t] = selections[t]
             /\ \A l \in LaunchIds : Present(l)' => Present(l)
    BY <1>0, <1>1 DEF RetryOK
  <1>2. ASSUME NEW l \in LaunchIds, ~ Present(l), Present(l)' PROVE RetryOK(t)'
    <2>1. Recorded(l)
      BY <1>2, LaunchWrites
    <2>2. \A k \in LaunchIds : Present(k)' => Present(k) \/ k = l
      BY <1>0, <2>1 DEF Recorded, LaunchTypes, Present
    <2>3. UNCHANGED <<attempts, selections>>
      BY <2>1 DEF Recorded
    <2>4. CASE \A n \in Nat : l.prior # <<t, n>>
      BY <1>0, <2>2, <2>3, <2>4 DEF RetryOK
    <2>5. ASSUME NEW n \in Nat, l.prior = <<t, n>> PROVE RetryOK(t)'
      <3>1. /\ n \in DOMAIN attempts[t] /\ attempts[t][n].outcome = "infrastructure"
            /\ n \notin selections[t] /\ Unreplaced(t, n)
        BY <2>1, <2>5, Priors DEF Recorded
      <3>2. \A m \in Nat : l.prior = <<t, m>> => m = n
        BY <2>5, Priors
      <3>3. QED
        BY <1>0, <2>2, <2>3, <2>5, <3>1, <3>2 DEF RetryOK, Unreplaced
    <2>6. QED
      BY <2>4, <2>5
  <1>3. ASSUME NEW u \in Tasks, NEW l \in LaunchIds \cup {CancelAction}, NEW o \in Outcomes,
               Appends(u, l, o)
        PROVE  RetryOK(t)'
    <2>1. attempts' = Append1(u, l, o) /\ UNCHANGED <<launch, selections>>
      BY <1>3 DEF Appends
    <2>2. CASE t # u
      BY <1>0, <1>1, <2>1, <2>2, AttemptsGrow DEF Present
    <2>3. CASE t = u
      <3> DEFINE k == Len(attempts[t]) + 1
      <3>1. /\ k \in Nat /\ DOMAIN attempts'[t] = DOMAIN attempts[t] \cup {k}
            /\ \A n \in DOMAIN attempts[t] : attempts'[t][n] = attempts[t][n] /\ n < k
            /\ attempts'[t][k].launch = l
        BY <1>0, <2>1, <2>3, AttemptsGrow
      <3> HIDE DEF k
      <3>2. \A n \in Nat : l.prior = <<t, n>> => n \in DOMAIN attempts[t]
        <4>1. CASE l = CancelAction
          BY <4>1, Priors
        <4>2. CASE l # CancelAction
          BY <1>0, <1>3, <4>2 DEF Appends, RetryOK
        <4>3. QED
          BY <4>1, <4>2
      <3>3. QED
        BY <1>0, <2>1, <3>1, <3>2 DEF RetryOK, Present
    <2>4. QED
      BY <2>2, <2>3
  <1>4. ASSUME NEW u \in Tasks, NEW n \in Nat, Selects(u, n) PROVE RetryOK(t)'
    <2>1. CASE t # u
      BY <1>0, <1>1, <1>4, <2>1 DEF Selects, Select, TaskTypes, Present
    <2>2. CASE t = u
      <3>1. selections'[t] = {n} /\ UNCHANGED <<launch, attempts>> /\ Unreplaced(t, n)
        BY <1>0, <1>4, <2>2 DEF Selects, Select, TaskTypes
      <3>2. QED
        BY <1>0, <3>1 DEF RetryOK, Unreplaced, Present
    <2>3. QED
      BY <2>1, <2>2
  <1>5. QED
    BY <1>1, <1>2, <1>3, <1>4, AttemptWrites, SelectionWrites

(* What the operator's retry was admitted for still stands when it is      *)
(* written, whatever is recorded in between.                               *)
LEMMA RetryingNext ==
    ASSUME TasksInv, [Next]_vars, NEW t \in Tasks, NEW n \in Nat, retrying' = <<t, n>>
    PROVE  /\ n \in DOMAIN attempts'[t] /\ attempts'[t][n].outcome = "infrastructure"
           /\ n < MaxAttempts /\ n \notin selections'[t] /\ Unreplaced(t, n)'
  <1>0. LaunchTypes /\ TaskTypes
    BY DEF TasksInv, TaskTyped
  <1>1. CASE UNCHANGED retrying
    <2>1. /\ n \in DOMAIN attempts[t] /\ attempts[t][n].outcome = "infrastructure"
          /\ n < MaxAttempts /\ n \notin selections[t] /\ Unreplaced(t, n)
      BY <1>1 DEF TasksInv, HoldOK
    <2>2. n \in DOMAIN attempts'[t] /\ attempts'[t][n] = attempts[t][n]
      BY <2>1, AttemptsKept
    <2>3. n \notin selections'[t]
      <3>1. ASSUME NEW u \in Tasks, NEW m \in Nat, Selects(u, m) PROVE n \notin selections'[t]
        BY <1>0, <1>1, <2>1, <3>1 DEF Selects, Select, TaskTypes
      <3>2. QED
        BY <2>1, <3>1, SelectionWrites
    <2>4. ASSUME NEW l \in LaunchIds, l.prior = <<t, n>>, Present(l)' PROVE FALSE
      <3>1. ~ Present(l)
        BY <2>1, <2>4 DEF Unreplaced
      <3>2. Recorded(l)
        BY <2>4, <3>1, LaunchWrites
      <3>3. QED
        BY <2>4, <3>2, Priors DEF Recorded
    <2>5. QED
      BY <2>1, <2>2, <2>3, <2>4 DEF Unreplaced
  <1>2. ASSUME NEW u \in Tasks, OperatorRetryCheck(u)
        PROVE  /\ n \in DOMAIN attempts'[t] /\ attempts'[t][n].outcome = "infrastructure"
               /\ n < MaxAttempts /\ n \notin selections'[t] /\ Unreplaced(t, n)'
    <2>1. PICK m \in DOMAIN attempts[u] :
             /\ attempts[u][m].outcome = "infrastructure"
             /\ Retries(u, m) = {} /\ retrying' = <<u, m>>
      BY <1>2 DEF OperatorRetryCheck
    <2>2. t = u /\ n = m
      BY <2>1, Priors
    <2>3. /\ UNCHANGED <<attempts, selections, launch>>
          /\ selections[t] = {} /\ Len(attempts[t]) < MaxAttempts
      BY <1>2, <2>2 DEF OperatorRetryCheck, records, Terminal
    <2>4. attempts[t] \in Seq(AttemptType)
      BY <1>0 DEF TaskTypes
    <2>5. n < MaxAttempts
      BY <2>1, <2>2, <2>3, <2>4, TasksAssumption
    <2>6. Unreplaced(t, n)'
      BY <2>1, <2>2, <2>3 DEF Retries, Unreplaced, Present
    <2>7. QED
      BY <2>1, <2>2, <2>3, <2>5, <2>6
  <1>3. UNCHANGED retrying \/ retrying' = NoPrior \/ \E u \in Tasks : OperatorRetryCheck(u)
    BY DEF Next, Transition, vars, Replay, ApplyAdmit, ApplyLaunch, ApplyObserve, ApplyCancel,
           CompleteDone, FinishAttempt, ContinueCancellation, NotCancelled, SealDone,
           MaybePublish, MarkAdvanced, HandleAdmit, HandleCancel, Crash, RequestCancel,
           OperatorPublish, OperatorRetryWrite, CompleteTask, SealAttempt, SealSelect,
           DispatchLaunch, ResolveLaunch, HandleObserve, HandleJobCancel, JobStarts, JobEnds,
           WorkerAttempt
  <1>4. QED
    BY <1>1, <1>2, <1>3, Priors

(* What a transition holds between two writes still stands.                *)
LEMMA HoldOKNext ==
    ASSUME TasksInv, [Next]_vars
    PROVE  HoldOK'
  <1> DEFINE Finish == /\ \A t \in Tasks : \A n \in Nat : pc = "finish" /\ held = <<t, n>> =>
                            /\ n \in DOMAIN attempts[t] /\ attempts[t][n].launch = act.of
                            /\ ~ Terminal(t)
                       /\ pc = "finish" => held # NoPrior
                       /\ pc = "seal" => cancel = "received" /\ \A t \in todo : ~ Terminal(t)
  <1>0. Finish /\ TaskTypes /\ ProcessTypes
    BY DEF TasksInv, TaskTyped, HoldOK
  <1>s. SUFFICES Finish'
    BY <1>s, RetryingNext DEF HoldOK
  <1>f. CASE UNCHANGED <<pc, held, act, todo, selections, cancel>>
    <2>1. \A t \in Tasks : Terminal(t)' = Terminal(t)
      BY <1>f DEF Terminal
    <2>2. ASSUME NEW t \in Tasks, NEW n \in Nat, pc' = "finish", held' = <<t, n>>
          PROVE  n \in DOMAIN attempts'[t] /\ attempts'[t][n].launch = act'.of /\ ~ Terminal(t)'
      <3>1. n \in DOMAIN attempts[t] /\ attempts[t][n].launch = act.of /\ ~ Terminal(t)
        BY <1>0, <1>f, <2>2
      <3>2. n \in DOMAIN attempts'[t] /\ attempts'[t][n] = attempts[t][n]
        BY <3>1, AttemptsKept
      <3>3. QED
        BY <1>f, <2>1, <3>1, <3>2
    <2>3. QED
      BY <1>0, <1>f, <2>1, <2>2 DEF ProcessTypes
  <1>n. CASE pc' \notin {"finish", "seal"}
    BY <1>n
  <1>1. CASE UNCHANGED vars
    BY <1>f, <1>n, <1>1 DEF vars, records, process
  <1>2. CASE Replay \/ ApplyCancel \/ CompleteDone \/ NotCancelled \/ MarkAdvanced \/ Crash
    BY <1>f, <1>n, <1>2 DEF Replay, ApplyCancel, CompleteDone, NotCancelled, MarkAdvanced,
                            Crash, Start, records, Goto
  <1>3. CASE ApplyAdmit
    BY <1>f, <1>n, <1>3 DEF ApplyAdmit, Goto, process
  <1>4. CASE ApplyLaunch \/ ApplyObserve
    BY <1>f, <1>n, <1>4 DEF ApplyLaunch, ApplyObserve, Goto, Complete
  <1>5. CASE FinishAttempt \/ SealDone \/ MaybePublish
    BY <1>f, <1>n, <1>5 DEF FinishAttempt, SealDone, MaybePublish, Goto, records
  <1>6. CASE ContinueCancellation
    BY <1>n, <1>6 DEF ContinueCancellation, Goto, Terminal
  <1>7. CASE HandleAdmit \/ HandleCancel
    BY <1>f, <1>n, <1>7 DEF HandleAdmit, HandleCancel, Received, Start
  <1>8. CASE RequestCancel
    <2>1. pc # "seal" /\ UNCHANGED <<pc, held, act, todo, selections>>
      BY <1>0, <1>8 DEF RequestCancel, process
    <2>2. \A t \in Tasks : Terminal(t)' = Terminal(t)
      BY <2>1 DEF Terminal
    <2>3. QED
      BY <1>0, <2>1, <2>2, AttemptsKept
  <1>9. CASE OperatorPublish \/ OperatorRetryWrite
    BY <1>f, <1>n, <1>9 DEF OperatorPublish, OperatorRetryWrite, process
  <1>10. ASSUME NEW u \in Tasks, CompleteTask(u) PROVE Finish'
    <2>1. CASE Terminal(u)
      BY <1>n, <1>10, <2>1 DEF CompleteTask
    <2>2. CASE ~ Terminal(u)
      <3> DEFINE now == AttemptIndex(attempts, act.of, u)
                 m == IF now = {} THEN Len(attempts'[u]) ELSE CHOOSE n \in now : TRUE
      <3>1. pc' = "finish" /\ held' = <<u, m>> /\ act' = act /\ Terminal(u)' = Terminal(u)
        BY <1>10, <2>2 DEF CompleteTask, Terminal
      <3>2. m \in DOMAIN attempts'[u] /\ attempts'[u][m].launch = act.of
        <4>1. CASE now = {}
          <5>1. attempts' = Append1(u, act.of, Fallback)
            BY <1>10, <2>2, <4>1 DEF CompleteTask
          <5>2. Fallback \in Outcomes /\ act.of \in LaunchIds \cup {CancelAction}
            BY <1>0 DEF Fallback, Outcomes, ProcessTypes, ActType
          <5>3. QED
            BY <1>0, <4>1, <5>1, <5>2, AttemptsGrow
        <4>2. CASE now # {}
          <5>1. m \in now /\ UNCHANGED attempts
            BY <1>10, <2>2, <4>2 DEF CompleteTask
          <5>2. QED
            BY <5>1 DEF AttemptIndex
        <4>3. QED
          BY <4>1, <4>2
      <3> HIDE DEF m
      <3>3. QED
        BY <2>2, <3>1, <3>2, Priors
    <2>3. QED
      BY <2>1, <2>2
  <1>11. ASSUME NEW u \in Tasks,
                \/ SealAttempt(u) \/ OperatorRetryCheck(u)
        PROVE  Finish'
    BY <1>f, <1>n, <1>11 DEF SealAttempt, OperatorRetryCheck, process, records
  <1>12. ASSUME NEW u \in Tasks, SealSelect(u) PROVE Finish'
    <2>1. \A t \in Tasks \ {u} : Terminal(t)' = Terminal(t)
      BY <1>0, <1>12 DEF SealSelect, Select, Terminal, TaskTypes
    <2>2. QED
      BY <1>0, <1>12, <2>1 DEF SealSelect, ProcessTypes
  <1>13. ASSUME NEW k \in LaunchIds,
                \/ DispatchLaunch(k) \/ JobStarts(k) \/ JobEnds(k)
        PROVE  Finish'
    BY <1>f, <1>n, <1>13 DEF DispatchLaunch, JobStarts, JobEnds, process, records
  <1>14. ASSUME NEW k \in LaunchIds, ResolveLaunch(k) PROVE Finish'
    BY <1>f, <1>n, <1>14 DEF ResolveLaunch, Received, Start
  <1>15. ASSUME NEW k \in LaunchIds,
                \/ HandleObserve(k) \/ HandleJobCancel(k)
        PROVE  Finish'
    BY <1>f, <1>n, <1>15 DEF HandleObserve, HandleJobCancel, Received, Start
  <1>16. ASSUME NEW k \in LaunchIds, NEW u \in Tasks, NEW o \in {"final", "infrastructure"},
                WorkerAttempt(k, u, o)
        PROVE  Finish'
    BY <1>f, <1>n, <1>16 DEF WorkerAttempt, process
  <1>17. QED
    BY <1>1, <1>2, <1>3, <1>4, <1>5, <1>6, <1>7, <1>8, <1>9, <1>10, <1>11, <1>12, <1>13,
       <1>14, <1>15, <1>16
       DEF Next, Transition

(* How a launch and its Job may move.                                      *)
LaunchStep(l) ==
  \/ launch'[l] = launch[l]
  \/ ~ Present(l) /\ launch'[l] = "pending"
  \/ launch[l] = "pending" /\ launch'[l] = "dispatched" /\ ~ Suppressed(l)
  \/ ResolveLaunch(l)

JobStep(l) ==
  \/ job'[l] = job[l]
  \/ launch[l] = "dispatched" /\ job[l] = "none" /\ job'[l] = "running"
  \/ job[l] = "running" /\ job'[l] \in {"completed", "error"}

(* Every step moves a launch forward.                                      *)
LEMMA LaunchSteps ==
    ASSUME TasksInv, [Next]_vars
    PROVE  \A l \in LaunchIds : LaunchStep(l)
  <1> SUFFICES ASSUME NEW l \in LaunchIds PROVE LaunchStep(l)
    OBVIOUS
  <1>0. LaunchTypes /\ TaskTypes
    BY DEF TasksInv, TaskTyped
  <1>u. CASE launch'[l] = launch[l]
    BY <1>u DEF LaunchStep
  <1>1. CASE UNCHANGED vars
    BY <1>u, <1>1 DEF vars, records, process
  <1>2. CASE \/ Replay \/ ApplyLaunch \/ ApplyObserve \/ ApplyCancel \/ CompleteDone
             \/ ContinueCancellation \/ NotCancelled \/ SealDone \/ MaybePublish \/ MarkAdvanced
             \/ HandleAdmit \/ HandleCancel \/ Crash \/ RequestCancel \/ OperatorPublish
    BY <1>u, <1>2 DEF Replay, ApplyLaunch, ApplyObserve, ApplyCancel, CompleteDone,
                      ContinueCancellation, NotCancelled, SealDone, MaybePublish, MarkAdvanced,
                      HandleAdmit, HandleCancel, Crash, RequestCancel, OperatorPublish, records,
                      process
  <1>3. CASE ApplyAdmit
    BY <1>0, <1>u, <1>3 DEF ApplyAdmit, LaunchTypes, LaunchStep, Present
  <1>4. CASE OperatorRetryWrite
    <2>1. PICK t \in Tasks, n \in 1..(MaxAttempts - 1) :
             retrying[1] = t /\ retrying[2] = n /\ Unreplaced(t, n)
      BY <1>4, Retrying DEF OperatorRetryWrite
    <2>2. ~ Present(RetryLaunch(t, n, "operator"))
      BY <2>1, RetryLaunches DEF Unreplaced
    <2>3. QED
      BY <1>0, <1>u, <1>4, <2>1, <2>2 DEF OperatorRetryWrite, LaunchTypes, LaunchStep
  <1>5. CASE FinishAttempt
    <2>1. PICK t \in Tasks, n \in Nat : held[1] = t /\ held[2] = n /\ n \in DOMAIN attempts[t]
      BY <1>5, Held DEF FinishAttempt
    <2>2. CASE /\ Retries(t, n) = {} /\ Len(attempts[t]) < MaxAttempts
               /\ launch' = [launch EXCEPT ![RetryLaunch(t, n, "auto")] = "pending"]
      <3>1. attempts[t] \in Seq(AttemptType)
        BY <1>0 DEF TaskTypes
      <3>2. n \in 1..(MaxAttempts - 1)
        BY <2>1, <2>2, <3>1, TasksAssumption
      <3>3. ~ Present(RetryLaunch(t, n, "auto"))
        BY <2>2, <3>2, RetryLaunches DEF Retries, Present
      <3>4. QED
        BY <1>0, <1>u, <2>2, <3>3 DEF LaunchTypes, LaunchStep
    <2>3. QED
      BY <1>u, <1>5, <2>1, <2>2 DEF FinishAttempt
  <1>6. ASSUME NEW u \in Tasks,
               \/ CompleteTask(u) \/ SealAttempt(u) \/ SealSelect(u) \/ OperatorRetryCheck(u)
        PROVE  LaunchStep(l)
    BY <1>u, <1>6 DEF CompleteTask, SealAttempt, SealSelect, OperatorRetryCheck, process,
                      records
  <1>7. ASSUME NEW k \in LaunchIds,
               \/ JobStarts(k) \/ JobEnds(k) \/ HandleObserve(k) \/ HandleJobCancel(k)
        PROVE  LaunchStep(l)
    BY <1>u, <1>7 DEF JobStarts, JobEnds, HandleObserve, HandleJobCancel, records, process
  <1>8. ASSUME NEW k \in LaunchIds, DispatchLaunch(k) PROVE LaunchStep(l)
    BY <1>0, <1>u, <1>8 DEF DispatchLaunch, LaunchTypes, LaunchStep
  <1>9. ASSUME NEW k \in LaunchIds, ResolveLaunch(k) PROVE LaunchStep(l)
    <2>1. CASE k = l
      BY <1>9, <2>1 DEF LaunchStep
    <2>2. CASE k # l
      BY <1>0, <1>u, <1>9, <2>2 DEF ResolveLaunch, LaunchTypes
    <2>3. QED
      BY <2>1, <2>2
  <1>10. ASSUME NEW k \in LaunchIds, NEW u \in Tasks, NEW o \in {"final", "infrastructure"},
                WorkerAttempt(k, u, o)
        PROVE  LaunchStep(l)
    BY <1>u, <1>10 DEF WorkerAttempt, process
  <1>11. QED
    BY <1>1, <1>2, <1>3, <1>4, <1>5, <1>6, <1>7, <1>8, <1>9, <1>10
       DEF Next, Transition

(* Every step starts a dispatched Job, ends a running one or leaves it.    *)
LEMMA JobSteps ==
    ASSUME TasksInv, [Next]_vars
    PROVE  \A l \in LaunchIds : JobStep(l)
  <1> SUFFICES ASSUME NEW l \in LaunchIds PROVE JobStep(l)
    OBVIOUS
  <1>0. LaunchTypes
    BY DEF TasksInv, TaskTyped
  <1>u. CASE job'[l] = job[l]
    BY <1>u DEF JobStep
  <1>1. CASE UNCHANGED vars
    BY <1>u, <1>1 DEF vars, records, process
  <1>2. CASE \/ Replay \/ ApplyAdmit \/ ApplyLaunch \/ ApplyObserve \/ ApplyCancel
             \/ CompleteDone \/ FinishAttempt \/ ContinueCancellation \/ NotCancelled \/ SealDone
             \/ MaybePublish \/ MarkAdvanced \/ HandleAdmit \/ HandleCancel \/ Crash
             \/ RequestCancel \/ OperatorPublish \/ OperatorRetryWrite
    BY <1>u, <1>2 DEF Replay, ApplyAdmit, ApplyLaunch, ApplyObserve, ApplyCancel, CompleteDone,
                      FinishAttempt, ContinueCancellation, NotCancelled, SealDone, MaybePublish,
                      MarkAdvanced, HandleAdmit, HandleCancel, Crash, RequestCancel,
                      OperatorPublish, OperatorRetryWrite, records, process
  <1>3. ASSUME NEW u \in Tasks,
               \/ CompleteTask(u) \/ SealAttempt(u) \/ SealSelect(u) \/ OperatorRetryCheck(u)
        PROVE  JobStep(l)
    BY <1>u, <1>3 DEF CompleteTask, SealAttempt, SealSelect, OperatorRetryCheck, process,
                      records
  <1>4. ASSUME NEW k \in LaunchIds,
               \/ DispatchLaunch(k) \/ ResolveLaunch(k) \/ HandleObserve(k)
        PROVE  JobStep(l)
    BY <1>u, <1>4 DEF DispatchLaunch, ResolveLaunch, HandleObserve, process
  <1>5. ASSUME NEW k \in LaunchIds, JobStarts(k) PROVE JobStep(l)
    BY <1>0, <1>u, <1>5 DEF JobStarts, LaunchTypes, JobStep
  <1>6. ASSUME NEW k \in LaunchIds, JobEnds(k) PROVE JobStep(l)
    BY <1>0, <1>u, <1>6 DEF JobEnds, LaunchTypes, JobStep
  <1>7. ASSUME NEW k \in LaunchIds, HandleJobCancel(k) PROVE JobStep(l)
    BY <1>0, <1>u, <1>7 DEF HandleJobCancel, LaunchTypes, JobStep
  <1>8. ASSUME NEW k \in LaunchIds, NEW u \in Tasks, NEW o \in {"final", "infrastructure"},
               WorkerAttempt(k, u, o)
        PROVE  JobStep(l)
    BY <1>u, <1>8 DEF WorkerAttempt, process
  <1>9. QED
    BY <1>1, <1>2, <1>3, <1>4, <1>5, <1>6, <1>7, <1>8
       DEF Next, Transition

(* Tasks are sealed by the transition's last writes only.                  *)
LEMMA SelectionsMove ==
    ASSUME TasksInv, [Next]_vars
    PROVE  UNCHANGED selections \/ pc' \in {"complete", "seal"}
  <1> DEFINE Moved == UNCHANGED selections \/ pc' \in {"complete", "seal"}
  <1> SUFFICES Moved
    OBVIOUS
  <1>1. CASE UNCHANGED vars
    BY <1>1 DEF vars, records, process
  <1>2. CASE \/ Replay \/ ApplyAdmit \/ ApplyLaunch \/ ApplyObserve \/ ApplyCancel
             \/ CompleteDone \/ ContinueCancellation \/ NotCancelled \/ SealDone \/ MaybePublish
             \/ MarkAdvanced \/ HandleAdmit \/ HandleCancel \/ Crash \/ RequestCancel
             \/ OperatorPublish \/ OperatorRetryWrite
    BY <1>2 DEF Replay, ApplyAdmit, ApplyLaunch, ApplyObserve, ApplyCancel, CompleteDone,
                ContinueCancellation, NotCancelled, SealDone, MaybePublish, MarkAdvanced,
                HandleAdmit, HandleCancel, Crash, RequestCancel, OperatorPublish,
                OperatorRetryWrite, records, Goto, process
  <1>3. CASE FinishAttempt
    BY <1>3 DEF FinishAttempt, Goto
  <1>4. ASSUME NEW u \in Tasks,
               \/ CompleteTask(u) \/ SealAttempt(u) \/ SealSelect(u) \/ OperatorRetryCheck(u)
        PROVE  Moved
    BY <1>4 DEF CompleteTask, SealAttempt, SealSelect, OperatorRetryCheck, process, records
  <1>5. ASSUME NEW k \in LaunchIds,
               \/ DispatchLaunch(k) \/ ResolveLaunch(k) \/ HandleObserve(k) \/ HandleJobCancel(k)
               \/ JobStarts(k) \/ JobEnds(k)
        PROVE  Moved
    BY <1>5 DEF DispatchLaunch, ResolveLaunch, HandleObserve, HandleJobCancel, JobStarts,
                JobEnds, process, records
  <1>6. ASSUME NEW k \in LaunchIds, NEW u \in Tasks, NEW o \in {"final", "infrastructure"},
               WorkerAttempt(k, u, o)
        PROVE  Moved
    BY <1>6 DEF WorkerAttempt, process
  <1>7. QED
    BY <1>1, <1>2, <1>3, <1>4, <1>5, <1>6 DEF Next, Transition

(* A sealed task stays sealed.                                             *)
LEMMA TerminalStays ==
    ASSUME TasksInv, [Next]_vars, NEW t \in Tasks, Terminal(t)
    PROVE  Terminal(t)'
  <1>1. CASE UNCHANGED selections
    BY <1>1 DEF Terminal
  <1>2. ASSUME NEW u \in Tasks, NEW n \in Nat, Selects(u, n) PROVE Terminal(t)'
    BY <1>2 DEF Selects, Select, Terminal, TasksInv, TaskTyped, TaskTypes
  <1>3. QED
    BY <1>1, <1>2, SelectionWrites

(* What a receipt says stays true.                                         *)
LEMMA ReceiptStays ==
    ASSUME TasksInv, [Next]_vars, NEW a \in unadvanced
    PROVE  ReceiptOK(a)'
  <1>0. ReceiptOK(a) /\ Stays
    BY LaunchesStay DEF TasksInv, ActOK
  <1>1. ASSUME a.kind \in Resolved
        PROVE  a.of \in LaunchIds /\ launch'[a.of] = launch[a.of]
    <2>1. a.of \in LaunchIds /\ launch[a.of] \in {"running", "failed", "suppressed"}
      BY <1>0, <1>1 DEF ReceiptOK, Resolved
    <2>2. LaunchStep(a.of)
      BY <2>1, LaunchSteps
    <2>3. QED
      BY <2>1, <2>2 DEF LaunchStep, ResolveLaunch, Ready, Present
  <1>2. CASE a.kind = "launch"
    <2>1. a.seen = "suppressed" => cancel' # "no" \/ \A t \in a.of.tasks : Terminal(t)'
      BY <1>0, <1>1, <1>2, TerminalStays, Launches DEF ReceiptOK, Resolved, Stays
    <2>2. QED
      BY <1>0, <1>1, <1>2, <2>1 DEF ReceiptOK, Resolved
  <1>3. CASE a.kind = "observe"
    <2>1. a.of \in LaunchIds /\ launch[a.of] = "running" /\ LaunchOK(a.of) /\ JobStep(a.of)
      BY <1>0, <1>3, JobSteps DEF ReceiptOK, TasksInv
    <2>2. job[a.of] # "running" => job'[a.of] # "running"
      BY <2>1 DEF JobStep, LaunchOK
    <2>3. QED
      BY <1>0, <1>1, <1>3, <2>1, <2>2 DEF ReceiptOK, Resolved
  <1>4. CASE a.kind \notin Resolved
    BY <1>0, <1>4 DEF ReceiptOK, Stays, Resolved
  <1>5. QED
    BY <1>2, <1>3, <1>4 DEF Resolved

(* Every step leaves one transition at a time, with a true receipt.        *)
LEMMA ActOKNext ==
    ASSUME TasksInv, [Next]_vars
    PROVE  ActOK'
  <1>0. ActOK /\ LaunchTypes /\ ProcessTypes
    BY DEF TasksInv, TaskTyped
  <1>f. CASE /\ UNCHANGED unadvanced /\ (pc' = "idle" \/ (UNCHANGED act /\ pc # "idle"))
             /\ pc' \in {"complete", "finish"} =>
                  act.kind \in Resolved /\ act.seen \notin {"running", "suppressed"}
    <2>1. \A a \in unadvanced' : ReceiptOK(a)'
      BY <1>f, ReceiptStays
    <2>2. QED
      BY <1>0, <1>f, <2>1 DEF ActOK
  <1>c. CASE UNCHANGED <<unadvanced, pc, act>>
    <2>1. \A a \in unadvanced' : ReceiptOK(a)'
      BY <1>c, ReceiptStays
    <2>2. QED
      BY <1>0, <1>c, <2>1 DEF ActOK
  <1>r. ASSUME NEW a, Ready, Received(a), ReceiptOK(a)' PROVE ActOK'
    <2>1. unadvanced' = {a} /\ pc' = "apply" /\ act' = a
      BY <1>r DEF Ready, Received, Start
    <2>2. QED
      BY <1>r, <2>1 DEF ActOK
  <1>1. CASE UNCHANGED vars
    BY <1>c, <1>f, <1>1 DEF vars, records, process
  <1>2. CASE Replay
    <2>1. PICK a \in unadvanced : act' = a /\ pc' = "apply"
      BY <1>2 DEF Replay, Start
    <2>2. UNCHANGED unadvanced /\ unadvanced = {a}
      BY <1>0, <1>2 DEF Replay, ActOK, records
    <2>3. \A b \in unadvanced' : ReceiptOK(b)'
      BY <2>2, ReceiptStays
    <2>4. QED
      BY <1>0, <2>1, <2>2, <2>3 DEF ActOK
  <1>3. CASE MarkAdvanced
    <2>1. unadvanced' = {} /\ pc' = "idle"
      BY <1>0, <1>3 DEF MarkAdvanced, ActOK
    <2>2. QED
      BY <2>1 DEF ActOK
  <1>4. CASE ApplyAdmit
    BY <1>c, <1>f, <1>4 DEF ApplyAdmit, Goto, process
  <1>5. CASE ApplyLaunch \/ ApplyObserve
    <2>1. ReceiptOK(act) /\ act.kind \in Resolved
      BY <1>0, <1>5 DEF ApplyLaunch, ApplyObserve, ActOK, Resolved
    <2>2. UNCHANGED <<unadvanced, act>> /\ pc = "apply" /\ pc' \in {"after", "complete"}
      BY <1>5 DEF ApplyLaunch, ApplyObserve, Goto, Complete
    <2>3. pc' = "complete" => act.seen \notin {"running", "suppressed"}
      BY <1>5, <2>1 DEF ApplyLaunch, ApplyObserve, Goto, Complete, ReceiptOK
    <2>4. QED
      BY <1>f, <2>1, <2>2, <2>3
  <1>6. CASE ApplyCancel \/ CompleteDone \/ NotCancelled \/ SealDone \/ MaybePublish \/ Crash
    BY <1>c, <1>f, <1>6 DEF ApplyCancel, CompleteDone, NotCancelled, SealDone, MaybePublish,
                            Crash, Goto, records
  <1>7. CASE FinishAttempt
    BY <1>0, <1>f, <1>7 DEF FinishAttempt, Goto, ActOK
  <1>8. CASE RequestCancel \/ OperatorPublish \/ OperatorRetryWrite
    BY <1>c, <1>f, <1>8 DEF RequestCancel, OperatorPublish, OperatorRetryWrite, process
  <1>9. CASE ContinueCancellation
    BY <1>c, <1>f, <1>9 DEF ContinueCancellation, Goto
  <1>10. CASE HandleAdmit
    <2>1. Ready /\ Received(Act("admit", CancelAction, "none", FALSE))
      BY <1>10 DEF HandleAdmit
    <2>2. ReceiptOK(Act("admit", CancelAction, "none", FALSE))'
      BY DEF ReceiptOK, Act
    <2>3. QED
      BY <2>1, <2>2, <1>r
  <1>11. CASE HandleCancel
    <2>1. Ready /\ Received(Act("cancel", CancelAction, "none", FALSE))
      BY <1>11 DEF HandleCancel
    <2>2. ReceiptOK(Act("cancel", CancelAction, "none", FALSE))'
      BY <1>11 DEF ReceiptOK, Act, HandleCancel
    <2>3. QED
      BY <2>1, <2>2, <1>r
  <1>12. ASSUME NEW u \in Tasks,
                \/ CompleteTask(u) \/ SealAttempt(u) \/ SealSelect(u) \/ OperatorRetryCheck(u)
        PROVE  ActOK'
    BY <1>0, <1>c, <1>f, <1>12
       DEF CompleteTask, SealAttempt, SealSelect, OperatorRetryCheck, ActOK, records, process
  <1>13. ASSUME NEW k \in LaunchIds,
                \/ DispatchLaunch(k) \/ JobStarts(k) \/ JobEnds(k)
        PROVE  ActOK'
    BY <1>c, <1>f, <1>13 DEF DispatchLaunch, JobStarts, JobEnds, process, records
  <1>14. ASSUME NEW k \in LaunchIds, ResolveLaunch(k) PROVE ActOK'
    <2>1. PICK r \in {"running", "failed", "suppressed"} :
             /\ r = "suppressed" => Suppressed(k)
             /\ launch' = [launch EXCEPT ![k] = r]
             /\ Received(Act("launch", k, r, k \in deadline))
      BY <1>14 DEF ResolveLaunch
    <2>2. PICK late : Received(Act("launch", k, r, late))
      BY <2>1
    <2>3. launch'[k] = r /\ Ready /\ UNCHANGED <<cancel, selections>>
      BY <1>0, <1>14, <2>1 DEF ResolveLaunch, LaunchTypes
    <2>4. r = "suppressed" => cancel' # "no" \/ \A t \in k.tasks : Terminal(t)'
      BY <2>1, <2>3 DEF Suppressed, Terminal
    <2>5. ReceiptOK(Act("launch", k, r, late))'
      BY <2>3, <2>4 DEF ReceiptOK, Act
    <2>6. QED
      BY <2>2, <2>3, <2>5, <1>r
  <1>15. ASSUME NEW k \in LaunchIds, HandleObserve(k) PROVE ActOK'
    <2>1. PICK s, late : s = job[k] /\ Received(Act("observe", k, s, late))
      BY <1>15 DEF HandleObserve
    <2>2. Ready /\ launch'[k] = "running" /\ job'[k] = s /\ s \in {"running", "completed", "error"}
      BY <1>0, <1>15, <2>1 DEF HandleObserve, TasksInv, LaunchOK, LaunchTypes, JobStates
    <2>3. ReceiptOK(Act("observe", k, s, late))'
      BY <2>2 DEF ReceiptOK, Act
    <2>4. QED
      BY <2>1, <2>2, <2>3, <1>r
  <1>16. ASSUME NEW k \in LaunchIds, HandleJobCancel(k) PROVE ActOK'
    <2>1. PICK s : Received(Act("jobCancel", k, s, FALSE))
      BY <1>16 DEF HandleJobCancel
    <2>2. cancel' # "no" /\ Ready
      BY <1>16 DEF HandleJobCancel, TasksInv, LaunchOK
    <2>3. ReceiptOK(Act("jobCancel", k, s, FALSE))'
      BY <2>2 DEF ReceiptOK, Act
    <2>4. QED
      BY <2>1, <2>2, <2>3, <1>r
  <1>17. ASSUME NEW k \in LaunchIds, NEW u \in Tasks, NEW o \in {"final", "infrastructure"},
                WorkerAttempt(k, u, o)
        PROVE  ActOK'
    BY <1>c, <1>17 DEF WorkerAttempt, process
  <1>18. QED
    BY <1>1, <1>2, <1>3, <1>4, <1>5, <1>6, <1>7, <1>8, <1>9, <1>10, <1>11, <1>12, <1>13,
       <1>14, <1>15, <1>16, <1>17
       DEF Next, Transition

(* How the observation of a launch may move.                               *)
ObsStep(l) ==
  \/ obs'[l] = obs[l]
  \/ HandleObserve(l)
  \/ obs'[l] # "none" /\ launch[l] = "running"

(* What applying the receipt of a launch or an observation leads to: its   *)
(* Job is observed, its tasks are completed, or nothing is left to do.     *)
LEMMA Applied ==
    ASSUME TasksInv, ApplyLaunch \/ ApplyObserve
    PROVE  /\ act.of \in LaunchIds /\ act' = act
           /\ \A k \in LaunchIds : k # act.of => obs'[k] = obs[k]
           /\ \/ obs'[act.of] # "none" /\ launch[act.of] = "running"
              \/ /\ UNCHANGED obs /\ pc' = "complete" /\ todo' = act.of.tasks
                 /\ launch[act.of] = "failed" \/ job[act.of] # "running"
              \/ /\ UNCHANGED obs /\ launch[act.of] = "suppressed"
                 /\ cancel # "no" \/ \A t \in act.of.tasks : Terminal(t)
  <1>1. act \in unadvanced /\ act.kind \in Resolved /\ LaunchTypes
    BY DEF ApplyLaunch, ApplyObserve, TasksInv, ActOK, Resolved, TaskTyped
  <1>2. ReceiptOK(act)
    BY <1>1 DEF TasksInv, ActOK
  <1>3. act.of \in LaunchIds
    BY <1>1, <1>2 DEF ReceiptOK, Resolved
  <1>4. CASE ApplyLaunch
    <2>1. launch[act.of] = act.seen /\ act.seen \in {"running", "failed", "suppressed"}
          /\ (act.seen = "suppressed" => cancel # "no" \/ \A t \in act.of.tasks : Terminal(t))
      BY <1>2, <1>4 DEF ApplyLaunch, ReceiptOK
    <2>2. QED
      BY <1>1, <1>3, <1>4, <2>1 DEF ApplyLaunch, Goto, Complete, LaunchTypes
  <1>5. CASE ApplyObserve
    <2>1. launch[act.of] = "running" /\ (act.seen # "running" => job[act.of] # "running")
      BY <1>2, <1>5 DEF ApplyObserve, ReceiptOK
    <2>2. QED
      BY <1>1, <1>3, <1>5, <2>1 DEF ApplyObserve, Goto, Complete, LaunchTypes
  <1>6. QED
    BY <1>4, <1>5

(* A handler's receipt is not applied yet.                                 *)
LEMMA Resolves ==
    ASSUME TasksInv, NEW l \in LaunchIds, ResolveLaunch(l) \/ HandleObserve(l)
    PROVE  Unapplied(l)' /\ UNCHANGED job
  <1>1. PICK a : Received(a) /\ a.of = l /\ a.kind \in Resolved
    BY DEF ResolveLaunch, HandleObserve, Act, Resolved
  <1>2. QED
    BY <1>1 DEF Unapplied, Received, Start, ResolveLaunch, HandleObserve

(* A launch is resolved as running exactly when it has a Job.              *)
LEMMA Resolutions ==
    ASSUME TasksInv, NEW l \in LaunchIds, ResolveLaunch(l)
    PROVE  /\ launch[l] \in {"pending", "dispatched"}
           /\ launch'[l] \in {"running", "failed", "suppressed"}
           /\ launch'[l] = "running" <=> job[l] # "none"
  BY DEF ResolveLaunch, TasksInv, TaskTyped, LaunchTypes

(* A running launch is observed again, or the observation has a receipt.   *)
LEMMA ObsSteps ==
    ASSUME TasksInv, [Next]_vars
    PROVE  \A l \in LaunchIds : ObsStep(l)
  <1> SUFFICES ASSUME NEW l \in LaunchIds PROVE ObsStep(l)
    OBVIOUS
  <1>0. LaunchTypes
    BY DEF TasksInv, TaskTyped
  <1>u. CASE obs'[l] = obs[l]
    BY <1>u DEF ObsStep
  <1>1. CASE UNCHANGED vars
    BY <1>u, <1>1 DEF vars, records, process
  <1>2. CASE \/ Replay \/ ApplyAdmit \/ ApplyCancel \/ CompleteDone \/ FinishAttempt
             \/ ContinueCancellation \/ NotCancelled \/ SealDone \/ MaybePublish \/ MarkAdvanced
             \/ HandleAdmit \/ HandleCancel \/ Crash \/ RequestCancel \/ OperatorPublish
             \/ OperatorRetryWrite
    BY <1>u, <1>2 DEF Replay, ApplyAdmit, ApplyCancel, CompleteDone, FinishAttempt,
                      ContinueCancellation, NotCancelled, SealDone, MaybePublish, MarkAdvanced,
                      HandleAdmit, HandleCancel, Crash, RequestCancel, OperatorPublish,
                      OperatorRetryWrite, records, process
  <1>3. CASE ApplyLaunch \/ ApplyObserve
    BY <1>u, <1>3, Applied DEF ObsStep
  <1>4. ASSUME NEW u \in Tasks,
               \/ CompleteTask(u) \/ SealAttempt(u) \/ SealSelect(u) \/ OperatorRetryCheck(u)
        PROVE  ObsStep(l)
    BY <1>u, <1>4 DEF CompleteTask, SealAttempt, SealSelect, OperatorRetryCheck, process,
                      records
  <1>5. ASSUME NEW k \in LaunchIds,
               \/ DispatchLaunch(k) \/ ResolveLaunch(k) \/ HandleJobCancel(k) \/ JobStarts(k)
               \/ JobEnds(k)
        PROVE  ObsStep(l)
    BY <1>u, <1>5 DEF DispatchLaunch, ResolveLaunch, HandleJobCancel, JobStarts, JobEnds,
                      process, records
  <1>6. ASSUME NEW k \in LaunchIds, HandleObserve(k) PROVE ObsStep(l)
    BY <1>0, <1>u, <1>6 DEF HandleObserve, ObsStep, LaunchTypes
  <1>7. ASSUME NEW k \in LaunchIds, NEW u \in Tasks, NEW o \in {"final", "infrastructure"},
               WorkerAttempt(k, u, o)
        PROVE  ObsStep(l)
    BY <1>u, <1>7 DEF WorkerAttempt, process
  <1>8. QED
    BY <1>1, <1>2, <1>3, <1>4, <1>5, <1>6, <1>7
       DEF Next, Transition

(* A receipt stays unapplied until its transition applies it.              *)
LEMMA UnappliedSteps ==
    ASSUME TasksInv, [Next]_vars, NEW l \in LaunchIds, Unapplied(l)
    PROVE  Unapplied(l)' \/ (act.of = l /\ (ApplyLaunch \/ ApplyObserve))
  <1> DEFINE Kept == Unapplied(l)' \/ (act.of = l /\ (ApplyLaunch \/ ApplyObserve))
  <1> SUFFICES Kept
    OBVIOUS
  <1>0. PICK a \in unadvanced : a.of = l /\ a.kind \in Resolved
    BY DEF Unapplied
  <1>a. ~ Ready /\ pc \in {"idle", "apply"} /\ (pc = "apply" => act = a)
    BY <1>0 DEF Ready, Unapplied, TasksInv, ActOK
  <1>f. CASE UNCHANGED unadvanced /\ pc' \in {"idle", "apply"}
    BY <1>0, <1>f DEF Unapplied
  <1>1. CASE UNCHANGED vars
    BY <1>a, <1>f, <1>1 DEF vars, records, process
  <1>2. CASE ApplyLaunch \/ ApplyObserve
    BY <1>0, <1>a, <1>2 DEF ApplyLaunch, ApplyObserve
  <1>3. CASE ApplyAdmit \/ ApplyCancel
    BY <1>0, <1>a, <1>3 DEF ApplyAdmit, ApplyCancel, Resolved
  <1>4. CASE HandleAdmit \/ HandleCancel
    BY <1>a, <1>f, <1>4 DEF HandleAdmit, HandleCancel
  <1>5. CASE Replay \/ Crash \/ RequestCancel \/ OperatorPublish \/ OperatorRetryWrite
    BY <1>a, <1>f, <1>5 DEF Replay, Crash, RequestCancel, OperatorPublish, OperatorRetryWrite,
                            Start, records, process
  <1>6. CASE \/ CompleteDone \/ FinishAttempt \/ ContinueCancellation \/ NotCancelled \/ SealDone
             \/ MaybePublish \/ MarkAdvanced
    BY <1>a, <1>f, <1>6 DEF CompleteDone, FinishAttempt, ContinueCancellation, NotCancelled,
                            SealDone, MaybePublish, MarkAdvanced, records
  <1>7. ASSUME NEW u \in Tasks,
               \/ CompleteTask(u) \/ SealAttempt(u) \/ SealSelect(u) \/ OperatorRetryCheck(u)
        PROVE  Kept
    BY <1>a, <1>f, <1>7 DEF CompleteTask, SealAttempt, SealSelect, OperatorRetryCheck, process,
                            records
  <1>8. ASSUME NEW k \in LaunchIds,
               \/ JobStarts(k) \/ JobEnds(k)
        PROVE  Kept
    BY <1>a, <1>f, <1>8 DEF JobStarts, JobEnds, records, process
  <1>9. ASSUME NEW k \in LaunchIds,
               \/ DispatchLaunch(k) \/ ResolveLaunch(k) \/ HandleObserve(k) \/ HandleJobCancel(k)
        PROVE  Kept
    BY <1>a, <1>f, <1>9 DEF DispatchLaunch, ResolveLaunch, HandleObserve, HandleJobCancel,
                            process
  <1>10. ASSUME NEW k \in LaunchIds, NEW u \in Tasks, NEW o \in {"final", "infrastructure"},
                WorkerAttempt(k, u, o)
        PROVE  Kept
    BY <1>a, <1>f, <1>10 DEF WorkerAttempt, process
  <1>11. QED
    BY <1>1, <1>2, <1>3, <1>4, <1>5, <1>6, <1>7, <1>8, <1>9, <1>10
       DEF Next, Transition

(* Every step leaves a running Job under observation.                      *)
LEMMA LaunchOKNext ==
    ASSUME TasksInv, [Next]_vars
    PROVE  \A l \in LaunchIds : LaunchOK(l)'
  <1> SUFFICES ASSUME NEW l \in LaunchIds PROVE LaunchOK(l)'
    OBVIOUS
  <1>0. LaunchOK(l) /\ LaunchStep(l) /\ JobStep(l) /\ ObsStep(l)
    BY LaunchSteps, JobSteps, ObsSteps DEF TasksInv
  <1>1. /\ job'[l] # "none" => launch'[l] \in {"dispatched", "running"}
        /\ launch'[l] = "running" => job'[l] # "none"
    <2>1. CASE ResolveLaunch(l)
      BY <2>1, Resolves, Resolutions
    <2>2. CASE ~ ResolveLaunch(l)
      BY <1>0, <2>2 DEF LaunchOK, LaunchStep, JobStep, Present
    <2>3. QED
      BY <2>1, <2>2
  <1>2. launch[l] = "running" => launch'[l] = "running"
    BY <1>0, Resolutions DEF LaunchStep, Present
  <1>3. obs'[l] # "none" => launch'[l] = "running"
    <2>1. HandleObserve(l) => obs'[l] = "none"
      BY DEF HandleObserve, TasksInv, TaskTyped, LaunchTypes
    <2>2. QED
      BY <1>0, <1>2, <2>1 DEF LaunchOK, ObsStep
  <1>4. ASSUME launch'[l] = "running", job'[l] = "running"
        PROVE  obs'[l] # "none" \/ Unapplied(l)'
    <2>1. CASE ResolveLaunch(l) \/ HandleObserve(l)
      BY <2>1, Resolves
    <2>2. CASE ~ ResolveLaunch(l) /\ ~ HandleObserve(l)
      <3>1. launch[l] = "running" /\ job[l] = "running"
        BY <1>0, <1>4, <2>2 DEF LaunchOK, LaunchStep, JobStep
      <3>2. CASE obs[l] # "none"
        BY <1>0, <2>2, <3>2 DEF ObsStep
      <3>3. CASE Unapplied(l)
        BY <3>1, <3>3, UnappliedSteps, Applied
      <3>4. QED
        BY <1>0, <3>1, <3>2, <3>3 DEF LaunchOK
    <2>3. QED
      BY <2>1, <2>2
  <1>5. jobCancel' # {} => cancel' # "no"
    <2>1. jobCancel' # {} => jobCancel # {} \/ cancel # "no"
      BY DEF Next, Transition, vars, records, Replay, ApplyAdmit, ApplyLaunch, ApplyObserve,
             ApplyCancel, CompleteDone, FinishAttempt, ContinueCancellation, NotCancelled,
             SealDone, MaybePublish, MarkAdvanced, HandleAdmit, HandleCancel, Crash,
             RequestCancel, OperatorPublish, OperatorRetryWrite, CompleteTask, SealAttempt,
             SealSelect, OperatorRetryCheck, DispatchLaunch, ResolveLaunch, HandleObserve,
             HandleJobCancel, JobStarts, JobEnds, WorkerAttempt
    <2>2. QED
      BY <1>0, <2>1, LaunchesStay DEF Stays, LaunchOK
  <1>6. QED
    BY <1>1, <1>3, <1>4, <1>5 DEF LaunchOK

(* A transition that owes a task something still does, unless it sealed    *)
(* the task or recorded its replacement.                                   *)
LEMMA OwedSteps ==
    ASSUME TasksInv, [Next]_vars, NEW l \in LaunchIds, NEW t \in Tasks, ~ Terminal(t),
           ~ Terminal(t)', pc \in {"complete", "finish"}, act.of = l,
           t \in todo \/ (pc = "finish" /\ \E n \in Nat : held = <<t, n>>)
    PROVE  Owed(l, t)' \/ Replaced(l, t)'
  <1> DEFINE Kept == Owed(l, t)' \/ Replaced(l, t)'
  <1> SUFFICES Kept
    OBVIOUS
  <1>0. /\ unadvanced = {act} /\ act.kind \in Resolved /\ ~ Ready
        /\ TaskTypes /\ ProcessTypes /\ pc # "idle"
    BY DEF TasksInv, TaskTyped, ActOK, Ready
  <1>f. CASE UNCHANGED <<pc, act, todo, held>>
    BY <1>f DEF Owed
  <1>1. CASE UNCHANGED vars
    BY <1>0, <1>f, <1>1 DEF vars, records, process
  <1>2. CASE \/ Replay \/ ApplyLaunch \/ ApplyObserve \/ ApplyAdmit \/ ApplyCancel
             \/ CompleteDone \/ ContinueCancellation \/ NotCancelled \/ SealDone \/ MaybePublish
             \/ MarkAdvanced \/ HandleAdmit \/ HandleCancel
    BY <1>0, <1>f, <1>2 DEF Replay, ApplyLaunch, ApplyObserve, ApplyAdmit, ApplyCancel,
                            CompleteDone, ContinueCancellation, NotCancelled, SealDone,
                            MaybePublish, MarkAdvanced, HandleAdmit, HandleCancel, records,
                            process
  <1>3. CASE Crash
    BY <1>0, <1>3 DEF Crash, Owed, Unapplied, records
  <1>4. CASE FinishAttempt
    <2>1. pc' = "complete" /\ UNCHANGED <<act, todo, attempts>>
      BY <1>4 DEF FinishAttempt, Goto
    <2>2. CASE t \in todo
      BY <2>1, <2>2 DEF Owed
    <2>3. CASE \E n \in Nat : held = <<t, n>>
      <3>1. PICK n \in Nat : held = <<t, n>>
        BY <2>3
      <3>2. held[1] = t /\ held[2] = n /\ n \in DOMAIN attempts[t] /\ attempts[t][n].launch = l
        BY <1>4, <3>1 DEF FinishAttempt, TasksInv, HoldOK
      <3>3. ~ Select(t, n)
        BY <1>0 DEF Select, Terminal, TaskTypes
      <3>4. CASE Retries(t, n) # {} /\ UNCHANGED launch
        BY <2>1, <3>2, <3>4 DEF Replaced, Retries, Present
      <3>5. CASE /\ Len(attempts[t]) < MaxAttempts
                 /\ launch' = [launch EXCEPT ![RetryLaunch(t, n, "auto")] = "pending"]
        <4>1. attempts[t] \in Seq(AttemptType)
          BY <1>0 DEF TaskTypes
        <4>2. n \in 1..(MaxAttempts - 1)
          BY <3>2, <3>5, <4>1, TasksAssumption
        <4>3. /\ RetryLaunch(t, n, "auto") \in LaunchIds
              /\ RetryLaunch(t, n, "auto").prior = <<t, n>>
          BY <4>2, RetryLaunches
        <4>4. Present(RetryLaunch(t, n, "auto"))'
          BY <3>5, <4>3 DEF Present, TasksInv, TaskTyped, LaunchTypes
        <4>5. QED
          BY <2>1, <3>2, <4>3, <4>4 DEF Replaced
      <3>6. QED
        BY <1>4, <3>2, <3>3, <3>4, <3>5 DEF FinishAttempt
    <2>4. QED
      BY <2>2, <2>3
  <1>5. CASE RequestCancel \/ OperatorPublish \/ OperatorRetryWrite
    BY <1>0, <1>f, <1>5 DEF RequestCancel, OperatorPublish, OperatorRetryWrite, process
  <1>6. ASSUME NEW u \in Tasks, CompleteTask(u) PROVE Kept
    <2>1. pc = "complete" /\ t \in todo /\ todo' = todo \ {u} /\ UNCHANGED act
      BY <1>6 DEF CompleteTask
    <2>2. CASE u # t
      BY <1>6, <2>1, <2>2 DEF CompleteTask, Owed
    <2>3. CASE u = t
      <3>1. PICK n : pc' = "finish" /\ held' = <<t, n>>
        BY <1>6, <2>3 DEF CompleteTask
      <3>2. held' \in PriorType
        BY ProcessTypesNext DEF ProcessTypes
      <3>3. n \in Nat
        BY <3>1, <3>2, Priors DEF PriorType
      <3>4. QED
        BY <2>1, <3>1, <3>3 DEF Owed
    <2>4. QED
      BY <2>2, <2>3
  <1>7. ASSUME NEW u \in Tasks,
               \/ SealAttempt(u) \/ SealSelect(u)
        PROVE  Kept
    BY <1>0, <1>f, <1>7 DEF SealAttempt, SealSelect, process
  <1>8. ASSUME NEW u \in Tasks, OperatorRetryCheck(u) PROVE Kept
    BY <1>0, <1>f, <1>8 DEF OperatorRetryCheck, records, process
  <1>9. ASSUME NEW k \in LaunchIds,
               \/ JobStarts(k) \/ JobEnds(k)
        PROVE  Kept
    BY <1>0, <1>f, <1>9 DEF JobStarts, JobEnds, records, process
  <1>10. ASSUME NEW k \in LaunchIds,
                \/ DispatchLaunch(k) \/ ResolveLaunch(k) \/ HandleObserve(k) \/ HandleJobCancel(k)
        PROVE  Kept
    BY <1>0, <1>f, <1>10 DEF DispatchLaunch, ResolveLaunch, HandleObserve, HandleJobCancel,
                             process
  <1>11. ASSUME NEW k \in LaunchIds, NEW u \in Tasks, NEW o \in {"final", "infrastructure"},
                WorkerAttempt(k, u, o)
        PROVE  Kept
    BY <1>0, <1>f, <1>11 DEF WorkerAttempt, process
  <1>12. QED
    BY <1>1, <1>2, <1>3, <1>4, <1>5, <1>6, <1>7, <1>8, <1>9, <1>10, <1>11
       DEF Next, Transition

(* Every step leaves a launch of an open task going on, owed a transition  *)
(* or replaced.                                                            *)
LEMMA CarryOKNext ==
    ASSUME TasksInv, [Next]_vars
    PROVE  \A l \in LaunchIds : \A t \in Tasks : CarryOK(l, t)'
  <1> SUFFICES ASSUME NEW l \in LaunchIds, NEW t \in Tasks, cancel' = "no", Present(l)',
                      t \in l.tasks, ~ Terminal(t)'
               PROVE  Pending(l)' \/ Owed(l, t)' \/ Replaced(l, t)'
    BY DEF CarryOK
  <1>0. /\ CarryOK(l, t) /\ LaunchStep(l) /\ ObsStep(l)
        /\ cancel = "no" /\ ~ Terminal(t)
    BY LaunchSteps, ObsSteps, LaunchesStay, TerminalStays DEF TasksInv, Stays
  <1>1. CASE ~ Present(l)
    BY <1>0, <1>1, Resolutions DEF LaunchStep, Present, Pending
  <1>2. CASE ResolveLaunch(l) \/ HandleObserve(l)
    BY <1>2, Resolves DEF Owed
  <1>3. CASE Pending(l) /\ ~ ResolveLaunch(l) /\ ~ HandleObserve(l)
    BY <1>0, <1>3 DEF LaunchStep, ObsStep, Pending, Present
  <1>4. CASE Unapplied(l)
    <2>1. CASE act.of = l /\ (ApplyLaunch \/ ApplyObserve)
      <3>1. \/ obs'[l] # "none"
            \/ act' = act /\ pc' = "complete" /\ t \in todo'
        BY <1>0, <2>1, Applied
      <3>2. QED
        BY <2>1, <3>1 DEF Pending, Owed
    <2>2. QED
      BY <1>4, <2>1, UnappliedSteps DEF Owed
  <1>5. CASE /\ pc \in {"complete", "finish"} /\ act.of = l
             /\ t \in todo \/ (pc = "finish" /\ \E n \in Nat : held = <<t, n>>)
    BY <1>0, <1>5, OwedSteps
  <1>6. CASE Replaced(l, t)
    <2>1. PICK n \in DOMAIN attempts[t], k \in LaunchIds :
             attempts[t][n].launch = l /\ Present(k) /\ k.prior = <<t, n>>
      BY <1>6 DEF Replaced
    <2>2. n \in DOMAIN attempts'[t] /\ attempts'[t][n] = attempts[t][n] /\ Present(k)'
      BY <2>1, AttemptsKept, LaunchesStay DEF Stays
    <2>3. QED
      BY <2>1, <2>2 DEF Replaced
  <1>7. QED
    BY <1>0, <1>1, <1>2, <1>3, <1>4, <1>5, <1>6 DEF CarryOK, Owed

(* Every step leaves the admission with its launches, or with its receipt. *)
LEMMA AdmitOKNext ==
    ASSUME TasksInv, [Next]_vars
    PROVE  AdmitOK'
  <1> DEFINE Admitted == \A b \in Batches : Present(InitialLaunch(b))
  <1>0. AdmitOK /\ ActOK
    BY DEF TasksInv
  <1>p. CASE Admitted
    BY <1>p, InitialLaunches, LaunchesStay DEF AdmitOK, Stays
  <1>f. CASE /\ UNCHANGED <<unadvanced, admission>>
             /\ pc \in {"idle", "apply"} => pc' \in {"idle", "apply"}
    BY <1>0, <1>p, <1>f DEF AdmitOK
  <1>a. CASE /\ UNCHANGED admission
             /\ \/ Ready \/ pc \notin {"idle", "apply"} \/ (pc = "apply" /\ act.kind # "admit")
    BY <1>0, <1>p, <1>a DEF AdmitOK, ActOK, Ready
  <1>1. CASE UNCHANGED vars
    BY <1>f, <1>a, <1>1 DEF vars, records, process
  <1>2. CASE Replay \/ Crash \/ RequestCancel \/ OperatorPublish \/ OperatorRetryWrite
    BY <1>f, <1>a, <1>2 DEF Replay, Crash, RequestCancel, OperatorPublish, OperatorRetryWrite,
                            Start, records, process
  <1>3. CASE ApplyAdmit
    BY <1>f, <1>p, <1>3 DEF ApplyAdmit, process, Present
  <1>4. CASE \/ ApplyLaunch \/ ApplyObserve \/ ApplyCancel \/ CompleteDone \/ FinishAttempt
             \/ ContinueCancellation \/ NotCancelled \/ SealDone \/ MaybePublish \/ MarkAdvanced
             \/ HandleCancel
    BY <1>f, <1>a, <1>4 DEF ApplyLaunch, ApplyObserve, ApplyCancel, CompleteDone, FinishAttempt,
                            ContinueCancellation, NotCancelled, SealDone, MaybePublish,
                            MarkAdvanced, HandleCancel, records
  <1>5. CASE HandleAdmit
    BY <1>5 DEF HandleAdmit, Received, Start, Act, AdmitOK
  <1>6. ASSUME NEW u \in Tasks,
               \/ CompleteTask(u) \/ SealAttempt(u) \/ SealSelect(u) \/ OperatorRetryCheck(u)
        PROVE  AdmitOK'
    BY <1>f, <1>a, <1>6 DEF CompleteTask, SealAttempt, SealSelect, OperatorRetryCheck, process,
                            records
  <1>7. ASSUME NEW k \in LaunchIds,
               \/ JobStarts(k) \/ JobEnds(k) \/ DispatchLaunch(k)
        PROVE  AdmitOK'
    BY <1>f, <1>a, <1>7 DEF JobStarts, JobEnds, DispatchLaunch, records, process
  <1>8. ASSUME NEW k \in LaunchIds,
               \/ ResolveLaunch(k) \/ HandleObserve(k) \/ HandleJobCancel(k)
        PROVE  AdmitOK'
    BY <1>f, <1>a, <1>8 DEF ResolveLaunch, HandleObserve, HandleJobCancel
  <1>9. ASSUME NEW k \in LaunchIds, NEW u \in Tasks, NEW o \in {"final", "infrastructure"},
               WorkerAttempt(k, u, o)
        PROVE  AdmitOK'
    BY <1>f, <1>a, <1>9 DEF WorkerAttempt, process
  <1>10. QED
    BY <1>1, <1>2, <1>3, <1>4, <1>5, <1>6, <1>7, <1>8, <1>9
       DEF Next, Transition

(* A campaign with a pending action keeps one until a handler's receipt.   *)
LEMMA PendingSteps ==
    ASSUME TasksInv, [Next]_vars, ~ NoPendingAction
    PROVE  ~ NoPendingAction' \/ pc' = "apply"
  <1>0. /\ UNCHANGED admission \/ pc' = "apply"
        /\ cancel' = cancel \/ cancel = "no" \/ pc' = "apply"
        /\ jobCancel \subseteq jobCancel' \/ pc' = "apply"
    BY DEF Next, Transition, vars, records, process, Replay, ApplyAdmit, ApplyLaunch,
           ApplyObserve, ApplyCancel, CompleteDone, FinishAttempt, ContinueCancellation,
           NotCancelled, SealDone, MaybePublish, MarkAdvanced, HandleAdmit, HandleCancel,
           Crash, RequestCancel, OperatorPublish, OperatorRetryWrite, CompleteTask,
           SealAttempt, SealSelect, OperatorRetryCheck, DispatchLaunch, ResolveLaunch,
           HandleObserve, HandleJobCancel, JobStarts, JobEnds, WorkerAttempt, Received, Start
  <1>1. ASSUME NEW l \in LaunchIds, ResolveLaunch(l) \/ HandleObserve(l) PROVE pc' = "apply"
    BY <1>1 DEF ResolveLaunch, HandleObserve, Received, Start
  <1>2. ASSUME NEW l \in LaunchIds, launch[l] \in {"pending", "dispatched"}
        PROVE  launch'[l] \in {"pending", "dispatched"} \/ pc' = "apply"
    BY <1>1, <1>2, LaunchSteps DEF LaunchStep, Present
  <1>3. ASSUME NEW l \in LaunchIds, obs[l] # "none" PROVE obs'[l] # "none" \/ pc' = "apply"
    BY <1>1, <1>3, ObsSteps DEF ObsStep
  <1>4. QED
    BY <1>0, <1>2, <1>3 DEF NoPendingAction

(* A publication that is not due becomes due only inside a transition.     *)
LEMMA MayPublishSteps ==
    ASSUME TasksInv, [Next]_vars, ~ MayPublish
    PROVE  ~ MayPublish' \/ pc' \in {"apply", "complete", "seal"}
  <1>1. CASE published
    BY <1>1, LaunchesStay DEF Stays, MayPublish
  <1>2. CASE ~ NoPendingAction
    BY <1>2, PendingSteps DEF MayPublish
  <1>3. CASE \E t \in Tasks : ~ Terminal(t)
    BY <1>3, SelectionsMove DEF MayPublish, Terminal
  <1>4. QED
    BY <1>1, <1>2, <1>3 DEF MayPublish

(* Every step leaves a cancellation with something to drive it.            *)
LEMMA CancelOKNext ==
    ASSUME TasksInv, [Next]_vars
    PROVE  CancelOK'
  <1> DEFINE Settled == Ready \/ pc \in {"publish", "mark"}
             Driven == ~ NoPendingAction \/ \A t \in Tasks : Terminal(t)
             Sealing == \A t \in Tasks : Terminal(t) \/ t \in todo
  <1>0. CancelOK /\ ActOK /\ LaunchTypes /\ TaskTypes
    BY DEF TasksInv, TaskTyped
  <1>d. Driven => Driven' \/ pc' = "apply"
    BY PendingSteps, TerminalStays
  <1>f. CASE /\ pc' # "seal"
             /\ Settled' => cancel' # "received" \/ (Settled /\ UNCHANGED cancel)
    BY <1>0, <1>d, <1>f DEF CancelOK, Ready
  <1>s. CASE pc' = "seal" /\ Sealing'
    BY <1>s DEF CancelOK, Ready
  <1>u. CASE UNCHANGED <<pc, todo, unadvanced, cancel>>
    <2>1. CASE pc = "seal"
      BY <1>0, <1>s, <1>u, <2>1, TerminalStays DEF CancelOK
    <2>2. QED
      BY <1>f, <1>u, <2>1 DEF Ready
  <1>n. CASE pc' \in {"apply", "after", "complete", "finish"}
    BY <1>n DEF CancelOK, Ready
  <1>1. CASE UNCHANGED vars
    BY <1>f, <1>u, <1>1 DEF vars, records, process
  <1>2. CASE \/ Replay \/ ApplyLaunch \/ ApplyObserve \/ ApplyCancel \/ CompleteDone
             \/ FinishAttempt \/ HandleAdmit \/ HandleCancel
    BY <1>f, <1>u, <1>2 DEF Replay, ApplyLaunch, ApplyObserve, ApplyCancel, CompleteDone,
                            FinishAttempt, HandleAdmit, HandleCancel, Start, records, Goto,
                            Complete, Received, Ready
  <1>3. CASE ApplyAdmit
    BY <1>n, <1>3 DEF ApplyAdmit, Goto, process
  <1>4. CASE NotCancelled \/ MaybePublish
    BY <1>f, <1>u, <1>4 DEF NotCancelled, MaybePublish, Goto, records
  <1>5. CASE MarkAdvanced
    BY <1>f, <1>u, <1>5 DEF MarkAdvanced
  <1>6. CASE Crash
    <2>1. Settled' => Settled
      BY <1>0, <1>6 DEF Crash, records, Ready, ActOK
    <2>2. QED
      BY <1>f, <1>6, <2>1 DEF Crash, records
  <1>7. CASE RequestCancel
    <2>1. cancel' = "requested" /\ UNCHANGED <<pc, todo, selections>>
      BY <1>7 DEF RequestCancel, process
    <2>2. QED
      BY <1>0, <2>1 DEF CancelOK, Terminal
  <1>8. CASE OperatorPublish \/ OperatorRetryWrite
    BY <1>f, <1>u, <1>8 DEF OperatorPublish, OperatorRetryWrite, process
  <1>9. CASE ContinueCancellation
    <2>1. UNCHANGED <<cancel, launch, selections>> /\ pc' \in {"publish", "seal"}
      BY <1>9 DEF ContinueCancellation, Goto
    <2>2. CASE pc' = "seal"
      <3>1. todo' = {t \in Tasks : ~ Terminal(t)}
        BY <1>9, <2>2 DEF ContinueCancellation, Goto
      <3>2. QED
        BY <1>s, <2>1, <2>2, <3>1 DEF Terminal
    <2>3. CASE pc' = "publish"
      <3>1. \/ \E l \in LaunchIds : launch[l] = "dispatched"
            \/ jobCancel' # {}
            \/ cancel # "received"
        BY <1>9, <2>3 DEF ContinueCancellation, Goto
      <3>2. QED
        BY <2>1, <2>3, <3>1 DEF CancelOK, NoPendingAction
    <2>4. QED
      BY <2>1, <2>2, <2>3
  <1>10. CASE SealDone
    <2>1. \A t \in Tasks : Terminal(t)'
      BY <1>0, <1>10 DEF SealDone, CancelOK, records, Terminal
    <2>2. pc' = "publish"
      BY <1>10 DEF SealDone, Goto
    <2>3. QED
      BY <2>1, <2>2 DEF CancelOK
  <1>11. ASSUME NEW u \in Tasks, CompleteTask(u) PROVE CancelOK'
    BY <1>n, <1>11 DEF CompleteTask
  <1>12. ASSUME NEW u \in Tasks,
                \/ SealAttempt(u) \/ OperatorRetryCheck(u)
        PROVE  CancelOK'
    BY <1>f, <1>u, <1>12 DEF SealAttempt, OperatorRetryCheck, process, records
  <1>13. ASSUME NEW u \in Tasks, SealSelect(u) PROVE CancelOK'
    <2>1. Terminal(u)' /\ pc' = "seal" /\ \A t \in Tasks : Terminal(t) => Terminal(t)'
      BY <1>0, <1>13, TerminalStays DEF SealSelect, Select, Terminal, TaskTypes
    <2>2. QED
      BY <1>0, <1>s, <1>13, <2>1 DEF SealSelect, CancelOK
  <1>14. ASSUME NEW k \in LaunchIds,
                \/ JobStarts(k) \/ JobEnds(k) \/ DispatchLaunch(k)
        PROVE  CancelOK'
    BY <1>f, <1>u, <1>14 DEF JobStarts, JobEnds, DispatchLaunch, records, process, Ready
  <1>15. ASSUME NEW k \in LaunchIds,
                \/ ResolveLaunch(k) \/ HandleObserve(k) \/ HandleJobCancel(k)
        PROVE  CancelOK'
    BY <1>f, <1>u, <1>15 DEF ResolveLaunch, HandleObserve, HandleJobCancel, Received, Ready,
                             Start
  <1>16. ASSUME NEW k \in LaunchIds, NEW u \in Tasks, NEW o \in {"final", "infrastructure"},
                WorkerAttempt(k, u, o)
        PROVE  CancelOK'
    BY <1>f, <1>u, <1>16 DEF WorkerAttempt, process
  <1>17. QED
    BY <1>1, <1>2, <1>3, <1>4, <1>5, <1>6, <1>7, <1>8, <1>9, <1>10, <1>11, <1>12, <1>13,
       <1>14, <1>15, <1>16
       DEF Next, Transition

(* A transition leaves no publication due.                                 *)
LEMMA NotOverdue ==
    ASSUME TasksInv, [Next]_vars
    PROVE  (Ready \/ pc = "mark")' => ~ MayPublish'
  <1> DEFINE Settled == Ready \/ pc = "mark"
             Done == Settled' => ~ MayPublish'
  <1> SUFFICES Done
    OBVIOUS
  <1>0. ActOK /\ (Settled => ~ MayPublish)
    BY DEF TasksInv, PublishOK
  <1>f. CASE Settled' => Settled
    BY <1>0, <1>f, MayPublishSteps DEF Ready
  <1>u. CASE UNCHANGED <<pc, unadvanced>>
    BY <1>f, <1>u DEF Ready
  <1>n. CASE pc' \in {"apply", "after", "complete", "finish"}
    BY <1>n DEF Ready
  <1>1. CASE UNCHANGED vars
    BY <1>f, <1>u, <1>1 DEF vars, records, process
  <1>2. CASE \/ Replay \/ ApplyLaunch \/ ApplyObserve \/ ApplyCancel \/ CompleteDone
             \/ FinishAttempt \/ HandleAdmit \/ HandleCancel \/ NotCancelled \/ SealDone
             \/ ContinueCancellation \/ MarkAdvanced
    BY <1>f, <1>u, <1>2 DEF Replay, ApplyLaunch, ApplyObserve, ApplyCancel, CompleteDone,
                            FinishAttempt, HandleAdmit, HandleCancel, NotCancelled, SealDone,
                            ContinueCancellation, MarkAdvanced, Start, records, Goto, Complete,
                            Received, Ready
  <1>3. CASE ApplyAdmit
    BY <1>n, <1>3 DEF ApplyAdmit, Goto, process
  <1>4. CASE MaybePublish
    <2>1. published' = (published \/ MayPublish) /\ UNCHANGED NoPendingAction
      BY <1>4 DEF MaybePublish, NoPendingAction
    <2>2. \A t \in Tasks : Terminal(t)' = Terminal(t)
      BY <1>4 DEF MaybePublish, Terminal
    <2>3. QED
      BY <2>1, <2>2 DEF MayPublish
  <1>5. CASE Crash
    <2>1. Settled' => Settled
      BY <1>0, <1>5 DEF Crash, records, Ready, ActOK
    <2>2. QED
      BY <1>f, <2>1
  <1>6. CASE RequestCancel \/ OperatorPublish \/ OperatorRetryWrite
    BY <1>f, <1>u, <1>6 DEF RequestCancel, OperatorPublish, OperatorRetryWrite, process
  <1>7. ASSUME NEW u \in Tasks, CompleteTask(u) PROVE Done
    BY <1>n, <1>7 DEF CompleteTask
  <1>8. ASSUME NEW u \in Tasks,
               \/ SealAttempt(u) \/ OperatorRetryCheck(u) \/ SealSelect(u)
        PROVE  Done
    BY <1>f, <1>u, <1>8 DEF SealAttempt, OperatorRetryCheck, SealSelect, process, records
  <1>9. ASSUME NEW k \in LaunchIds,
               \/ JobStarts(k) \/ JobEnds(k) \/ DispatchLaunch(k)
        PROVE  Done
    BY <1>f, <1>u, <1>9 DEF JobStarts, JobEnds, DispatchLaunch, records, process, Ready
  <1>10. ASSUME NEW k \in LaunchIds,
                \/ ResolveLaunch(k) \/ HandleObserve(k) \/ HandleJobCancel(k)
        PROVE  Done
    BY <1>f, <1>u, <1>10 DEF ResolveLaunch, HandleObserve, HandleJobCancel, Received, Ready,
                             Start
  <1>11. ASSUME NEW k \in LaunchIds, NEW u \in Tasks, NEW o \in {"final", "infrastructure"},
                WorkerAttempt(k, u, o)
        PROVE  Done
    BY <1>f, <1>u, <1>11 DEF WorkerAttempt, process
  <1>12. QED
    BY <1>1, <1>2, <1>3, <1>4, <1>5, <1>6, <1>7, <1>8, <1>9, <1>10, <1>11
       DEF Next, Transition

(* Every step leaves a published campaign with every task sealed and no    *)
(* launch dispatched.                                                      *)
LEMMA PublishOKNext ==
    ASSUME TasksInv, [Next]_vars
    PROVE  PublishOK'
  <1>1. published' => published \/ (MayPublish /\ UNCHANGED <<launch, selections>>)
    BY DEF Next, Transition, vars, records, process, Replay, ApplyAdmit, ApplyLaunch,
           ApplyObserve, ApplyCancel, CompleteDone, FinishAttempt, ContinueCancellation,
           NotCancelled, SealDone, MaybePublish, MarkAdvanced, HandleAdmit, HandleCancel,
           Crash, RequestCancel, OperatorPublish, OperatorRetryWrite, CompleteTask,
           SealAttempt, SealSelect, OperatorRetryCheck, DispatchLaunch, ResolveLaunch,
           HandleObserve, HandleJobCancel, JobStarts, JobEnds, WorkerAttempt
  <1>2. CASE published
    <2>1. /\ \A t \in Tasks : Terminal(t)
          /\ \A l \in LaunchIds : launch[l] # "dispatched"
      BY <1>2 DEF TasksInv, PublishOK
    <2>2. ASSUME NEW l \in LaunchIds PROVE launch'[l] # "dispatched"
      <3>1. LaunchStep(l) /\ Suppressed(l)
        BY <2>1, LaunchSteps, Launches DEF Suppressed
      <3>2. QED
        BY <2>1, <3>1, Resolutions DEF LaunchStep
    <2>3. QED
      BY <2>1, <2>2, TerminalStays, NotOverdue DEF PublishOK
  <1>3. CASE MayPublish /\ UNCHANGED <<launch, selections>>
    <2>1. /\ \A t \in Tasks : Terminal(t)'
          /\ \A l \in LaunchIds : launch'[l] # "dispatched"
      BY <1>3 DEF MayPublish, NoPendingAction, Terminal
    <2>2. QED
      BY <2>1, NotOverdue DEF PublishOK
  <1>4. QED
    BY <1>1, <1>2, <1>3, NotOverdue DEF PublishOK

(* The records of a new campaign satisfy the invariant.                    *)
LEMMA TasksInvInit == Init => TasksInv
  <1> SUFFICES ASSUME Init PROVE TasksInv
    OBVIOUS
  <1>1. LaunchTypes
    BY DEF Init, LaunchTypes, JobStates
  <1>2. TaskTypes
    <2>1. \A t \in Tasks : attempts[t] = <<>> /\ selections[t] = {}
      BY DEF Init
    <2>2. attempts \in [Tasks -> Seq(AttemptType)] /\ selections \in [Tasks -> SUBSET Nat]
      BY DEF Init
    <2>3. QED
      BY <2>1, <2>2 DEF TaskTypes
  <1>3. ProcessTypes
    BY NoActs DEF Init, ProcessTypes, PriorType
  <1>4. \A l \in LaunchIds : ~ Present(l) /\ LaunchOK(l) /\ \A t \in Tasks : CarryOK(l, t)
    BY DEF Init, Present, LaunchOK, CarryOK
  <1>5. \A t \in Tasks : AttemptOK(t) /\ RetryOK(t)
    BY <1>4 DEF Init, AttemptOK, RetryOK
  <1>6. HoldOK /\ ActOK /\ AdmitOK
    BY Priors DEF Init, HoldOK, ActOK, AdmitOK
  <1>7. CancelOK /\ PublishOK
    BY DEF Init, CancelOK, PublishOK, MayPublish, NoPendingAction
  <1>8. QED
    BY <1>1, <1>2, <1>3, <1>4, <1>5, <1>6, <1>7 DEF TasksInv, TaskTyped

(* Every step of the reconciler, a worker, the operator or a restart keeps *)
(* it.                                                                     *)
LEMMA TasksInvNext == TasksInv /\ [Next]_vars => TasksInv'
  BY LaunchTypesNext, TaskTypesNext, ProcessTypesNext, AttemptOKNext, RetryOKNext, HoldOKNext,
     ActOKNext, LaunchOKNext, CarryOKNext, AdmitOKNext, CancelOKNext, PublishOKNext
     DEF TasksInv, TaskTyped

(* Hence it holds throughout.                                              *)
LEMMA TasksInvHolds == Spec => []TasksInv
  BY TasksInvInit, TasksInvNext, PTL DEF Spec

(* Every variable of the campaign keeps its type.                          *)
THEOREM TasksAreTyped == Spec => []TypeOK
  <1>1. TasksInv => TypeOK
    <2> SUFFICES ASSUME TasksInv PROVE TypeOK
      OBVIOUS
    <2>1. \A t \in Tasks : \A n \in DOMAIN attempts[t] : attempts[t][n] \in AttemptType
      <3> SUFFICES ASSUME NEW t \in Tasks, NEW n \in DOMAIN attempts[t]
                   PROVE  attempts[t][n] \in AttemptType
        OBVIOUS
      <3>1. attempts[t] \in Seq(AttemptType)
        BY DEF TasksInv, TaskTyped, TaskTypes
      <3>2. QED
        BY <3>1
    <2>2. \A t \in Tasks : \A n \in DOMAIN attempts[t] :
            /\ attempts[t][n].launch \in LaunchIds \cup {CancelAction}
            /\ attempts[t][n].outcome \in Outcomes
      BY <2>1 DEF AttemptType
    <2>3. QED
      BY <2>2 DEF TypeOK, TasksInv, TaskTyped, LaunchTypes, TaskTypes, ProcessTypes
  <1>2. QED
    BY <1>1, TasksInvHolds, PTL

(* A set of equal elements has at most one.                                *)
LEMMA AtMostOne ==
    ASSUME NEW S, \A x, y \in S : x = y
    PROVE  Cardinality(S) <= 1
  <1>1. CASE S = {}
    BY <1>1, FS_EmptySet
  <1>2. CASE S # {}
    <2>1. PICK x : S = {x}
      BY <1>2
    <2>2. QED
      BY <2>1, FS_Singleton
  <1>3. QED
    BY <1>1, <1>2

(* A retry is of one task, and it is told by the attempt it replaces.      *)
LEMMA RetryOf ==
    ASSUME NEW l \in LaunchIds, NEW t \in Tasks, t \in l.tasks, l.prior # NoPrior
    PROVE  \E n \in 1..(MaxAttempts - 1) : l.prior = <<t, n>> /\ l.prior[2] = n
  <1>1. PICK u \in Tasks, n \in 1..(MaxAttempts - 1), who \in {"auto", "operator"} :
           l = RetryLaunch(u, n, who)
    BY Launches, InitialLaunches
  <1>2. l.tasks = {u} /\ l.prior = <<u, n>>
    BY <1>1, RetryLaunches
  <1>3. QED
    BY <1>2

(* A launch that replaces nothing is initial; one that does is of that     *)
(* task.                                                                   *)
LEMMA Kinds ==
    ASSUME NEW l \in LaunchIds
    PROVE  /\ l.prior = NoPrior => \E b \in Batches : l = InitialLaunch(b)
           /\ \A t \in Tasks : \A n : l.prior = <<t, n>> => t \in l.tasks
  <1>1. CASE \E b \in Batches : l = InitialLaunch(b)
    BY <1>1, InitialLaunches, Priors
  <1>2. ASSUME NEW u \in Tasks, NEW m \in 1..(MaxAttempts - 1), NEW who \in {"auto", "operator"},
               l = RetryLaunch(u, m, who)
        PROVE  l.prior # NoPrior /\ \A t \in Tasks : \A n : l.prior = <<t, n>> => t \in l.tasks
    <2>1. l.tasks = {u} /\ l.prior = <<u, m>>
      BY <1>2, RetryLaunches
    <2>2. QED
      BY <2>1, Priors
  <1>3. QED
    BY <1>1, <1>2, Launches

(* A task has one initial launch and at most one launch per attempt below  *)
(* the limit.                                                              *)
LEMMA LaunchesBounded ==
    ASSUME TasksInv, NEW t \in Tasks
    PROVE  Cardinality({l \in LaunchIds : t \in l.tasks /\ launch[l] # "absent"}) <= MaxAttempts
  <1> DEFINE S == {l \in LaunchIds : t \in l.tasks /\ launch[l] # "absent"}
             f == [l \in S |-> IF l.prior = NoPrior THEN 0 ELSE l.prior[2]]
  <1>1. ASSUME NEW l \in S
        PROVE  IF l.prior = NoPrior THEN f[l] = 0
               ELSE f[l] \in 1..(MaxAttempts - 1) /\ l.prior = <<t, f[l]>>
    BY RetryOf
  <1>n. \A n \in 1..(MaxAttempts - 1) : n \in Nat \ {0}
    BY TasksAssumption
  <1>2. f \in [S -> 0..(MaxAttempts - 1)]
    <2>1. 0 \in 0..(MaxAttempts - 1) /\ 1..(MaxAttempts - 1) \subseteq 0..(MaxAttempts - 1)
      BY TasksAssumption
    <2>2. \A l \in S : f[l] \in 0..(MaxAttempts - 1)
      BY <1>1, <2>1
    <2>3. QED
      BY <2>2
  <1>3. ASSUME NEW k \in S, NEW l \in S, f[k] = f[l] PROVE k = l
    <2>0. /\ IF k.prior = NoPrior THEN f[k] = 0 ELSE f[k] \in Nat \ {0} /\ k.prior = <<t, f[k]>>
          /\ IF l.prior = NoPrior THEN f[l] = 0 ELSE f[l] \in Nat \ {0} /\ l.prior = <<t, f[l]>>
      <3> HIDE DEF f
      <3>1. QED
        BY <1>1, <1>n
    <2> HIDE DEF f
    <2>1. CASE f[k] = 0
      <3>1. k.prior = NoPrior /\ l.prior = NoPrior
        BY <1>3, <2>0, <2>1
      <3>2. PICK a \in Batches : k = InitialLaunch(a)
        BY <3>1, Kinds
      <3>3. PICK b \in Batches : l = InitialLaunch(b)
        BY <3>1, Kinds
      <3>4. t \in a /\ t \in b
        BY <3>2, <3>3, InitialLaunches
      <3>5. QED
        BY <3>2, <3>3, <3>4, BatchesAssumption
    <2>2. CASE f[k] # 0
      <3>1. f[k] \in Nat /\ k.prior = <<t, f[k]>> /\ l.prior = <<t, f[k]>>
        BY <1>3, <2>0, <2>2
      <3>2. QED
        BY <3>1 DEF TasksInv, RetryOK, Present
    <2>3. QED
      BY <2>1, <2>2
  <1> HIDE DEF f, S
  <1>4. f \in Injection(S, 0..(MaxAttempts - 1))
    <2>1. \A k, l \in S : f[k] = f[l] => k = l
      BY <1>3
    <2>2. QED
      BY <1>2, <2>1 DEF Injection, IsInjective
  <1>5. IsFiniteSet(0..(MaxAttempts - 1)) /\ Cardinality(0..(MaxAttempts - 1)) = MaxAttempts
    <2>1. 0 \in Int /\ MaxAttempts - 1 \in Int /\ ~ (0 > MaxAttempts - 1)
      BY TasksAssumption
    <2>2. QED
      BY <2>1, FS_Interval, TasksAssumption
  <1>6. Cardinality(S) <= Cardinality(0..(MaxAttempts - 1))
    BY <1>4, <1>5, FS_Injection
  <1>7. QED
    BY <1>5, <1>6 DEF S

(* Whichever of the reconciler, a worker and the operator acts first: a    *)
(* launch has one attempt of a task (attemptSerialized), a failure one     *)
(* replacement within the retry budget (finishAttempt and                  *)
(* retry_infrastructure under one admission queue), and a task one         *)
(* selection, of an attempt that nobody replaces.                          *)
THEOREM TaskRecordsAreUnique == Spec => []RecordsAreUnique
  <1>1. TasksInv => RecordsAreUnique
    <2> SUFFICES ASSUME TasksInv PROVE RecordsAreUnique
      OBVIOUS
    <2>1. OneAttemptPerLaunch
      BY DEF TasksInv, AttemptOK, OneAttemptPerLaunch
    <2>2. OneReplacement
      <3>1. ASSUME NEW t \in Tasks, NEW n \in DOMAIN attempts[t]
            PROVE  Cardinality(Retries(t, n)) <= 1
        <4>1. attempts[t] \in Seq(AttemptType)
          BY DEF TasksInv, TaskTyped, TaskTypes
        <4>2. n \in Nat
          BY <4>1
        <4>3. \A k, l \in Retries(t, n) : k = l
          BY <4>2 DEF TasksInv, RetryOK, Retries, Present
        <4>4. QED
          BY <4>3, AtMostOne
      <3>2. QED
        BY <3>1, LaunchesBounded DEF OneReplacement
    <2>3. SealedOnce
      <3>1. ASSUME NEW t \in Tasks PROVE Cardinality(selections[t]) <= 1
        BY AtMostOne DEF TasksInv, RetryOK
      <3>2. ASSUME NEW t \in Tasks, NEW n \in selections[t] PROVE Retries(t, n) = {}
        BY DEF TasksInv, TaskTyped, TaskTypes, RetryOK, Retries, Present
      <3>3. QED
        BY <3>1, <3>2 DEF SealedOnce
    <2>4. QED
      BY <2>1, <2>2, <2>3 DEF RecordsAreUnique
  <1>2. QED
    BY <1>1, TasksInvHolds, PTL

(* A nonempty set of naturals up to a bound has a largest element.         *)
LEMMA Largest ==
    ASSUME NEW N \in Nat, NEW S, S # {}, \A n \in S : n \in Nat /\ n <= N
    PROVE  \E n \in S : \A m \in S : ~ (n < m)
  <1> DEFINE R == OpToRel(<, Nat)
             T == {N - n : n \in S}
  <1>1. IsWellFoundedOn(R, Nat)
    BY NatLessThanWellFounded
  <1>2. \A x, y \in Nat : x < y => <<x, y>> \in R
    BY DEF OpToRel
  <1>3. T \subseteq Nat /\ T # {}
    OBVIOUS
  <1> HIDE DEF R
  <1>4. PICK x \in T : \A y \in T : ~ (<<y, x>> \in R)
    BY <1>1, <1>3, WFMin
  <1>5. PICK n \in S : x = N - n
    OBVIOUS
  <1>6. ASSUME NEW m \in S, n < m PROVE FALSE
    <2>1. N - m \in T /\ N - m \in Nat /\ N - n \in Nat /\ N - m < N - n
      BY <1>6
    <2>2. QED
      BY <1>2, <1>4, <1>5, <2>1
  <1>7. QED
    BY <1>6

(* Between transitions an open task of a running campaign has a launch     *)
(* that is pending or observed: the last replaced attempt of the task has  *)
(* a replacement that nothing replaced.                                    *)
LEMMA OpenTaskHasLaunch ==
    ASSUME TasksInv, Ready, admission # "pending", cancel = "no", NEW t \in Tasks, ~ Terminal(t)
    PROVE  \E l \in LaunchIds : t \in l.tasks /\ Pending(l)
  <1> DEFINE Some == \E l \in LaunchIds : t \in l.tasks /\ Pending(l)
             S == {n \in DOMAIN attempts[t] :
                     \E k \in LaunchIds : Present(k) /\ k.prior = <<t, n>>}
  <1> SUFFICES ASSUME ~ Some PROVE FALSE
    OBVIOUS
  <1>0. attempts[t] \in Seq(AttemptType)
    BY DEF TasksInv, TaskTyped, TaskTypes
  <1>1. \A l \in LaunchIds : Present(l) /\ t \in l.tasks => Replaced(l, t)
    BY DEF TasksInv, CarryOK, Owed, Unapplied, Ready
  <1>2. S # {}
    <2>1. PICK b \in Batches : t \in b
      BY BatchesAssumption
    <2>2. Present(InitialLaunch(b))
      BY DEF TasksInv, AdmitOK, Ready, TaskTyped, LaunchTypes
    <2>3. Replaced(InitialLaunch(b), t)
      BY <1>1, <2>1, <2>2, InitialLaunches
    <2>4. QED
      BY <2>3 DEF Replaced
  <1>3. Len(attempts[t]) \in Nat /\ \A n \in S : n \in Nat /\ n <= Len(attempts[t])
    BY <1>0
  <1>4. PICK n \in S : \A m \in S : ~ (n < m)
    BY <1>2, <1>3, Largest
  <1>5. PICK k \in LaunchIds : Present(k) /\ k.prior = <<t, n>>
    BY <1>4
  <1>6. t \in k.tasks
    BY <1>5, Kinds
  <1>7. PICK m \in S : attempts[t][m].launch = k
    BY <1>1, <1>5, <1>6 DEF Replaced
  <1>8. n < m
    BY <1>3, <1>5, <1>7 DEF TasksInv, RetryOK
  <1>9. QED
    BY <1>4, <1>7, <1>8

(* A process exit strands no task: whenever the reconciler is idle with    *)
(* nothing to replay, an open task is on a launch that is pending or       *)
(* observed, or the cancellation of its campaign has an action left that   *)
(* drives it; and no publication is overdue.                               *)
THEOREM TasksAreNotStranded == Spec => []NoStrandedTask
  <1>1. TasksInv => NoStrandedTask
    <2> SUFFICES ASSUME TasksInv PROVE NoStrandedTask
      OBVIOUS
    <2>1. Ready => ~ MayPublish
      BY DEF TasksInv, PublishOK
    <2>2. ASSUME Ready, admission # "pending", NEW t \in Tasks, ~ Terminal(t), cancel = "no"
          PROVE  \E l \in LaunchIds :
                   /\ t \in l.tasks
                   /\ launch[l] \in {"pending", "dispatched"} \/ obs[l] # "none"
      BY <2>2, OpenTaskHasLaunch DEF Pending
    <2>3. ASSUME Ready, NEW t \in Tasks, ~ Terminal(t), cancel # "no" PROVE ~ NoPendingAction
      BY <2>3 DEF TasksInv, CancelOK, NoPendingAction, TaskTyped, LaunchTypes
    <2>4. QED
      BY <2>1, <2>2, <2>3 DEF NoStrandedTask
  <1>2. QED
    BY <1>1, TasksInvHolds, PTL

(* Results are published only when every task is sealed (maybePublish,     *)
(* service.publish), and a Job that still runs then is observed, or its    *)
(* receipt is still to be applied.                                         *)
THEOREM PublicationIsAccounted == Spec => []PublishedIsAccounted
  <1>1. TasksInv => PublishedIsAccounted
    BY DEF TasksInv, PublishOK, LaunchOK, Unapplied, PublishedIsAccounted
  <1>2. QED
    BY <1>1, TasksInvHolds, PTL

(* After publication no launch is dispatched and no Job starts, whatever   *)
(* retry an operator still writes: every launch is suppressed.             *)
THEOREM PublicationIsQuiet == Spec => QuietAfterPublication
  <1> DEFINE Quiet == published => \A l \in LaunchIds :
                        /\ job[l] = "none" => job'[l] = "none"
                        /\ launch[l] = "pending" => launch'[l] # "dispatched"
  <1>1. TasksInv /\ [Next]_vars => Quiet
    <2> SUFFICES ASSUME TasksInv, [Next]_vars, published, NEW l \in LaunchIds
                 PROVE  /\ job[l] = "none" => job'[l] = "none"
                        /\ launch[l] = "pending" => launch'[l] # "dispatched"
      OBVIOUS
    <2>1. launch[l] # "dispatched" /\ launch'[l] # "dispatched"
      BY PublishOKNext, LaunchesStay DEF Stays, TasksInv, PublishOK
    <2>2. QED
      BY <2>1, JobSteps DEF JobStep
  <1>2. TasksInv /\ [Next]_vars => [Quiet]_vars
    BY <1>1
  <1>3. QED
    BY <1>2, TasksInvHolds, PTL DEF Spec, QuietAfterPublication
=============================================================================
