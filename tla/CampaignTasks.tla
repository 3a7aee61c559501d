--------------------------- MODULE CampaignTasks ---------------------------
(***************************************************************************)
(* How a campaign's logical tasks get physical attempts, replacements and  *)
(* one terminal outcome (packages/control-core/src/reconciler.ts: advance, *)
(* handleJobObservation, completeTasksFromJob, finishAttempt,              *)
(* continueCancellation, cancelOpenTasks, maybePublish; service.ts:        *)
(* attempt, selectTerminal, retry_infrastructure, publish).                *)
(*                                                                         *)
(* Three writers interleave: the reconciler, whose transition is a series  *)
(* of record writes that a restart may cut anywhere and that is then       *)
(* replayed from its receipt; workers, which post attempts while or after  *)
(* their Job runs; the operator, who retries, cancels and publishes.       *)
(*                                                                         *)
(* Abstractions: a launch is resolved in two steps (JobLifecycle has the   *)
(* fence and the adoption protocol); a budget that refuses a replacement   *)
(* is a free choice (BudgetLedger has the sums); "final" is every worker   *)
(* outcome that is not a replaceable infrastructure failure.               *)
(***************************************************************************)
EXTENDS Naturals, Sequences, FiniteSets

CONSTANTS
    Tasks,                 \* lock.tasks
    Batches,               \* the initial launches' task_ids: a partition of Tasks
    MaxAttempts,           \* max_infrastructure_attempts
    SuccessWithoutReceipt, \* success_without_worker_receipt
    MaxCrashes,            \* bound: restarts in one behaviour
    MaxOperatorRetries     \* bound: retries recorded by the operator

ASSUME TasksAssumption == IsFiniteSet(Tasks) /\ MaxAttempts \in Nat \ {0}
ASSUME BatchesAssumption ==
    /\ UNION Batches = Tasks
    /\ \A a, b \in Batches : a = b \/ a \cap b = {}

(* A launch is named by its tasks, by the attempt it replaces (the n-th of *)
(* task t), if any, and by who recorded it: two retries of one attempt     *)
(* would be two launches.                                                  *)
NoPrior == <<>>
InitialLaunch(b) == [tasks |-> b, prior |-> NoPrior, by |-> "admit"]
RetryLaunch(t, n, who) == [tasks |-> {t}, prior |-> <<t, n>>, by |-> who]
LaunchIds == {InitialLaunch(b) : b \in Batches} \cup
             {RetryLaunch(t, n, who) : t \in Tasks, n \in 1..(MaxAttempts - 1),
                                       who \in {"auto", "operator"}}
CancelAction == [tasks |-> Tasks, prior |-> NoPrior, by |-> "cancel"]

Outcomes == {"final", "infrastructure", "cancelled"}
JobStates == {"none", "running", "completed", "error"}

VARIABLES
    \* Bucket records
    admission,  \* campaign.admit: "pending" until it has a receipt
    launch,     \* per launch id: its records
    deadline,   \* launches whose payload holds a worker_receipt_deadline
    obs,        \* pending job.observe, without or with a deadline
    jobCancel,  \* launches with a pending job.cancel
    seenEnd,    \* launches with a terminal observed_state on record
    attempts,   \* per task: attempt receipts in the order they were appended
    selections, \* per task: the attempts named by terminal.selection records
    cancel,     \* campaign.cancel
    published,  \* a publication.publish intent exists
    unadvanced, \* receipts without a marker
    retrying,   \* API: the attempt an operator's retry has been admitted for
    \* the Hub
    job,
    \* the process
    pc, act, todo, held, crashes

records == <<admission, launch, deadline, obs, jobCancel, seenEnd, attempts,
             selections, cancel, published, unadvanced>>
process == <<pc, act, todo, held>>
vars == <<records, job, process, retrying, crashes>>

Act(kind, l, seen, late) == [kind |-> kind, of |-> l, seen |-> seen, late |-> late]
NoAct == Act("none", CancelAction, "none", FALSE)

Terminal(t) == selections[t] # {}
AttemptIndex(seq, l, t) == {n \in DOMAIN seq[t] : seq[t][n].launch = l}
Retries(t, n) == {l \in LaunchIds : l.prior = <<t, n>> /\ launch[l] # "absent"}

TypeOK ==
    /\ admission \in {"pending", "received"}
    /\ launch \in [LaunchIds -> {"absent", "pending", "dispatched", "running",
                                 "failed", "suppressed"}]
    /\ deadline \subseteq LaunchIds /\ jobCancel \subseteq LaunchIds
    /\ seenEnd \subseteq LaunchIds
    /\ obs \in [LaunchIds -> {"none", "plain", "grace"}]
    /\ \A t \in Tasks : \A n \in DOMAIN attempts[t] :
          /\ attempts[t][n].launch \in LaunchIds \cup {CancelAction}
          /\ attempts[t][n].outcome \in Outcomes
    /\ \A t \in Tasks : selections[t] \subseteq DOMAIN attempts[t]
    /\ cancel \in {"no", "requested", "received"}
    /\ published \in BOOLEAN
    /\ job \in [LaunchIds -> JobStates]
    /\ pc \in {"idle", "apply", "admit", "complete", "finish", "after", "seal",
               "publish", "mark"}
    /\ todo \subseteq Tasks

Init ==
    /\ admission = "pending"
    /\ launch = [l \in LaunchIds |-> "absent"]
    /\ deadline = {}
    /\ obs = [l \in LaunchIds |-> "none"]
    /\ jobCancel = {}
    /\ seenEnd = {}
    /\ attempts = [t \in Tasks |-> <<>>]
    /\ selections = [t \in Tasks |-> {}]
    /\ cancel = "no"
    /\ published = FALSE
    /\ unadvanced = {}
    /\ job = [l \in LaunchIds |-> "none"]
    /\ pc = "idle" /\ act = NoAct /\ todo = {} /\ held = NoPrior
    /\ retrying = NoPrior /\ crashes = 0

-----------------------------------------------------------------------------
(* The Hub: a dispatched launch may start a Job, and a Job ends.           *)

JobStarts(l) ==
    /\ launch[l] = "dispatched" /\ job[l] = "none"
    /\ job' = [job EXCEPT ![l] = "running"]
    /\ UNCHANGED <<records, process, retrying, crashes>>

JobEnds(l) ==
    /\ job[l] = "running"
    /\ \E s \in {"completed", "error"} : job' = [job EXCEPT ![l] = s]
    /\ UNCHANGED <<records, process, retrying, crashes>>

-----------------------------------------------------------------------------
(* Workers and operators, through the API.                                 *)

Append1(t, l, o) == [attempts EXCEPT ![t] = Append(@, [launch |-> l, outcome |-> o])]

(* attemptSerialized for a worker: one attempt per launch and task, none   *)
(* for a terminal task.  The request may arrive long after the Job ended.  *)
WorkerAttempt(l, t, o) ==
    /\ job[l] # "none" /\ t \in l.tasks
    /\ AttemptIndex(attempts, l, t) = {}
    /\ ~Terminal(t)
    /\ attempts' = Append1(t, l, o)
    /\ UNCHANGED <<admission, launch, deadline, obs, jobCancel, seenEnd, selections,
                   cancel, published, unadvanced, job, process, retrying, crashes>>

(* retry_infrastructure.  The check of the task's last attempt (attempts   *)
(* sort by the workers' clocks) and the write of the launch are separated  *)
(* by a budget write; retryAdmissionQueue keeps finishAttempt out in       *)
(* between, but not a cancellation.                                        *)
OperatorRetryCheck(t) ==
    /\ retrying = NoPrior
    /\ Cardinality({l \in LaunchIds : l.by = "operator" /\ launch[l] # "absent"})
           < MaxOperatorRetries
    /\ ~Terminal(t)
    /\ Len(attempts[t]) < MaxAttempts
    /\ \E n \in DOMAIN attempts[t] :
          /\ attempts[t][n].outcome = "infrastructure"
          /\ Retries(t, n) = {}
          /\ retrying' = <<t, n>>
    /\ UNCHANGED <<records, job, process, crashes>>

OperatorRetryWrite ==
    /\ retrying # NoPrior
    /\ retrying' = NoPrior
    /\ \/ launch' = [launch EXCEPT ![RetryLaunch(retrying[1], retrying[2], "operator")] = "pending"]
       \/ UNCHANGED launch  \* reserveReplacement refuses
    /\ UNCHANGED <<admission, deadline, obs, jobCancel, seenEnd, attempts, selections,
                   cancel, published, unadvanced, job, process, crashes>>

RequestCancel ==
    /\ cancel = "no"
    /\ cancel' = "requested"
    /\ UNCHANGED <<admission, launch, deadline, obs, jobCancel, seenEnd, attempts,
                   selections, published, unadvanced, job, process, retrying, crashes>>

NoPendingAction ==
    /\ admission # "pending" /\ cancel # "requested" /\ jobCancel = {}
    /\ \A l \in LaunchIds : launch[l] \notin {"pending", "dispatched"} /\ obs[l] = "none"

(* Mutant: open tasks do not keep a campaign from publishing.              *)
MayPublishEarly == NoPendingAction /\ ~published

MayPublish == (\A t \in Tasks : Terminal(t)) /\ NoPendingAction /\ ~published

OperatorPublish ==
    /\ MayPublish
    /\ published' = TRUE
    /\ UNCHANGED <<admission, launch, deadline, obs, jobCancel, seenEnd, attempts,
                   selections, cancel, unadvanced, job, process, retrying, crashes>>

-----------------------------------------------------------------------------
(* Reconciler.tick: first the receipts without a marker, then the pending  *)
(* actions.  A handler ends in a receipt, and its transition starts.       *)

Start(a) ==
    /\ pc' = "apply" /\ act' = a
    /\ UNCHANGED <<todo, held>>

(* Mutant: a receipt is taken as advanced at once.                         *)
ReceivedUnmarked(a) == Start(a) /\ UNCHANGED unadvanced

Received(a) == Start(a) /\ unadvanced' = unadvanced \cup {a}

Ready == pc = "idle" /\ unadvanced = {}

Replay ==
    /\ pc = "idle"
    /\ \E a \in unadvanced : Start(a)
    /\ UNCHANGED <<records, job, retrying, crashes>>

HandleAdmit ==
    /\ Ready /\ admission = "pending"
    /\ admission' = "received"
    /\ Received(Act("admit", CancelAction, "none", FALSE))
    /\ UNCHANGED <<launch, deadline, obs, jobCancel, seenEnd, attempts, selections,
                   cancel, published, job, retrying, crashes>>

(* Mutant: nothing is suppressed.                                          *)
SuppressedNever(l) == FALSE

(* A cancelled campaign, or one whose tasks are sealed, launches no Job.   *)
Suppressed(l) == cancel # "no" \/ \A t \in l.tasks : Terminal(t)

DispatchLaunch(l) ==
    /\ Ready /\ launch[l] = "pending" /\ ~Suppressed(l)
    /\ launch' = [launch EXCEPT ![l] = "dispatched"]
    /\ UNCHANGED <<admission, deadline, obs, jobCancel, seenEnd, attempts, selections,
                   cancel, published, unadvanced, job, process, retrying, crashes>>

(* The receipt of a launch: its Job was created or adopted, it failed      *)
(* before anything was created, or it was suppressed by a cancellation.    *)
ResolveLaunch(l) ==
    /\ Ready
    /\ \E r \in {"running", "failed", "suppressed"} :
          /\ r = "running" => launch[l] = "dispatched" /\ job[l] # "none"
          /\ r = "failed" => launch[l] = "dispatched" /\ job[l] = "none"
          /\ r = "suppressed" => /\ Suppressed(l) /\ job[l] = "none"
                                 /\ launch[l] \in {"pending", "dispatched"}
          /\ launch' = [launch EXCEPT ![l] = r]
          /\ Received(Act("launch", l, r, l \in deadline))
    /\ seenEnd' = IF job[l] \in {"completed", "error"} THEN seenEnd \cup {l} ELSE seenEnd
    /\ UNCHANGED <<admission, deadline, obs, jobCancel, attempts, selections, cancel,
                   published, job, retrying, crashes>>

HandleObserve(l) ==
    /\ Ready /\ obs[l] # "none"
    /\ obs' = [obs EXCEPT ![l] = "none"]
    /\ seenEnd' = IF job[l] = "running" THEN seenEnd ELSE seenEnd \cup {l}
    /\ Received(Act("observe", l, job[l], obs[l] = "grace"))
    /\ UNCHANGED <<admission, launch, deadline, jobCancel, attempts, selections, cancel,
                   published, job, retrying, crashes>>

HandleJobCancel(l) ==
    /\ Ready /\ l \in jobCancel
    /\ jobCancel' = jobCancel \ {l}
    /\ \E s \in {job[l]} \cup (IF job[l] = "running" THEN {"error"} ELSE {}) :
          /\ job' = [job EXCEPT ![l] = s]
          /\ seenEnd' = IF s = "running" THEN seenEnd ELSE seenEnd \cup {l}
          /\ Received(Act("jobCancel", l, s, FALSE))
    /\ UNCHANGED <<admission, launch, deadline, obs, attempts, selections, cancel,
                   published, retrying, crashes>>

HandleCancel ==
    /\ Ready /\ cancel = "requested"
    /\ cancel' = "received"
    /\ Received(Act("cancel", CancelAction, "none", FALSE))
    /\ UNCHANGED <<admission, launch, deadline, obs, jobCancel, seenEnd, attempts,
                   selections, published, job, retrying, crashes>>

-----------------------------------------------------------------------------
(* Reconciler.advance, one step per record it writes.  A restart anywhere  *)
(* replays it from the start.                                              *)

Goto(label) == pc' = label /\ UNCHANGED <<act, todo, held>>

Complete ==
    /\ pc' = "complete" /\ todo' = act.of.tasks
    /\ UNCHANGED <<act, held>>

(* The outcome of a task whose worker never reported.                      *)
Fallback == IF act.kind = "observe" /\ act.seen = "completed" /\ SuccessWithoutReceipt
            THEN "final" ELSE "infrastructure"

AllWorkerAttemptsPresent(l) == \A t \in l.tasks : AttemptIndex(attempts, l, t) # {}

(* handleJobObservation gives a completed Job without receipts one delayed *)
(* observation, unless the payload already holds a deadline or the         *)
(* campaign is being cancelled.                                            *)
NeedsGrace(l) == /\ act.seen = "completed" /\ ~SuccessWithoutReceipt
                 /\ ~AllWorkerAttemptsPresent(l)
                 /\ cancel = "no" /\ ~act.late

ApplyAdmit ==
    /\ pc = "apply" /\ act.kind = "admit"
    /\ \/ \E b \in Batches :
             /\ launch[InitialLaunch(b)] = "absent"
             /\ launch' = [launch EXCEPT ![InitialLaunch(b)] = "pending"]
             /\ UNCHANGED process
       \/ /\ \A b \in Batches : launch[InitialLaunch(b)] # "absent"
          /\ UNCHANGED launch
          /\ Goto("after")
    /\ UNCHANGED <<admission, deadline, obs, jobCancel, seenEnd, attempts, selections,
                   cancel, published, unadvanced, job, retrying, crashes>>

ApplyLaunch ==
    /\ pc = "apply" /\ act.kind = "launch"
    /\ IF act.seen = "failed" THEN Complete ELSE Goto("after")
    /\ obs' = IF act.seen = "running"
              THEN [obs EXCEPT ![act.of] = IF act.late THEN "grace" ELSE "plain"]
              ELSE obs
    /\ UNCHANGED <<admission, launch, deadline, jobCancel, seenEnd, attempts, selections,
                   cancel, published, unadvanced, job, retrying, crashes>>

ApplyObserve ==
    /\ pc = "apply" /\ act.kind = "observe"
    /\ LET l == act.of IN
       \/ /\ act.seen = "running"
          /\ obs' = [obs EXCEPT ![l] = IF act.late THEN "grace" ELSE "plain"]
          /\ Goto("after")
       \/ /\ NeedsGrace(l)
          /\ obs' = [obs EXCEPT ![l] = "grace"]
          /\ Goto("after")
       \/ /\ act.seen # "running" /\ ~NeedsGrace(l)
          /\ UNCHANGED <<obs>>
          /\ Complete
    /\ UNCHANGED <<admission, launch, deadline, jobCancel, seenEnd, attempts, selections,
                   cancel, published, unadvanced, job, retrying, crashes>>

ApplyCancel ==
    /\ pc = "apply" /\ act.kind \in {"cancel", "jobCancel"}
    /\ Goto("after")
    /\ UNCHANGED <<records, job, retrying, crashes>>

(* One task of completeTasksFromJob: take the attempt recorded for this    *)
(* launch, else append the fallback.  The code looks in a snapshot of the  *)
(* attempts first; service.attempt adopts what a worker posted since.      *)
CompleteTask(t) ==
    /\ pc = "complete" /\ t \in todo
    /\ todo' = todo \ {t}
    /\ IF Terminal(t)
       THEN UNCHANGED <<attempts, pc, held>>
       ELSE LET now == AttemptIndex(attempts, act.of, t) IN
            /\ attempts' = IF now = {} THEN Append1(t, act.of, Fallback) ELSE attempts
            /\ pc' = "finish"
            /\ held' = <<t, IF now = {} THEN Len(attempts'[t]) ELSE CHOOSE n \in now : TRUE>>
    /\ UNCHANGED <<admission, launch, deadline, obs, jobCancel, seenEnd, selections, cancel,
                   published, unadvanced, job, act, retrying, crashes>>

CompleteDone ==
    /\ pc = "complete" /\ todo = {}
    /\ Goto("after")
    /\ UNCHANGED <<records, job, retrying, crashes>>

Select(t, n) == selections' = [selections EXCEPT ![t] = @ \cup {n}]

(* Mutant: finishAttempt does not wait for an operator's retry in flight,  *)
(* and refuses a replacement.                                              *)
FinishAttemptUnserialized ==
    /\ pc = "finish"
    /\ LET t == held[1]
           n == held[2]
       IN IF Retries(t, n) = {} THEN Select(t, n) ELSE UNCHANGED selections
    /\ Goto("complete")
    /\ UNCHANGED <<admission, launch, deadline, obs, jobCancel, seenEnd, attempts, cancel,
                   published, unadvanced, job, retrying, crashes>>

(* finishAttempt, inside retryAdmissionQueue for replaceable failures.     *)
(* The replacement's payload is a copy of the source action's payload, the *)
(* worker_receipt_deadline included.                                       *)
FinishAttempt ==
    /\ pc = "finish" /\ retrying = NoPrior
    /\ LET t == held[1]
           n == held[2]
           r == RetryLaunch(t, n, "auto")
       IN \/ /\ attempts[t][n].outcome # "infrastructure"
             /\ Select(t, n) /\ UNCHANGED <<launch, deadline>>
          \/ /\ attempts[t][n].outcome = "infrastructure" /\ Retries(t, n) # {}
             /\ UNCHANGED <<selections, launch, deadline>>
          \/ /\ attempts[t][n].outcome = "infrastructure" /\ Retries(t, n) = {}
             /\ \/ /\ Len(attempts[t]) < MaxAttempts
                   /\ launch' = [launch EXCEPT ![r] = "pending"]
                   /\ deadline' = IF act.late THEN deadline \cup {r} ELSE deadline
                   /\ UNCHANGED selections
                \/ /\ Select(t, n)  \* attempts exhausted, or the budget refuses
                   /\ UNCHANGED <<launch, deadline>>
    /\ Goto("complete")
    /\ UNCHANGED <<admission, obs, jobCancel, seenEnd, attempts, cancel, published,
                   unadvanced, job, retrying, crashes>>

ActiveJobs == {l \in LaunchIds : launch[l] = "running" /\ l \notin seenEnd}

(* continueCancellation, which every transition of a cancelled campaign    *)
(* ends with.                                                              *)
ContinueCancellation ==
    /\ pc = "after" /\ cancel # "no"
    /\ IF \E l \in LaunchIds : launch[l] = "dispatched"
       THEN Goto("publish") /\ UNCHANGED jobCancel
       ELSE IF ActiveJobs # {}
       THEN Goto("publish") /\ jobCancel' = jobCancel \cup ActiveJobs
       ELSE /\ UNCHANGED <<jobCancel, act, held>>
            /\ IF cancel = "received"
               THEN pc' = "seal" /\ todo' = {t \in Tasks : ~Terminal(t)}
               ELSE pc' = "publish" /\ UNCHANGED todo
    /\ UNCHANGED <<admission, launch, deadline, obs, seenEnd, attempts, selections, cancel,
                   published, unadvanced, job, retrying, crashes>>

NotCancelled ==
    /\ pc = "after" /\ cancel = "no"
    /\ Goto("publish")
    /\ UNCHANGED <<records, job, retrying, crashes>>

(* cancelOpenTasks: an attempt bound to the campaign.cancel action, then   *)
(* its selection.                                                          *)
SealAttempt(t) ==
    /\ pc = "seal" /\ t \in todo
    /\ AttemptIndex(attempts, CancelAction, t) = {}
    /\ attempts' = Append1(t, CancelAction, "cancelled")
    /\ UNCHANGED <<admission, launch, deadline, obs, jobCancel, seenEnd, selections, cancel,
                   published, unadvanced, job, process, retrying, crashes>>

SealSelect(t) ==
    /\ pc = "seal" /\ t \in todo
    /\ \E n \in AttemptIndex(attempts, CancelAction, t) : Select(t, n)
    /\ todo' = todo \ {t}
    /\ UNCHANGED <<admission, launch, deadline, obs, jobCancel, seenEnd, attempts, cancel,
                   published, unadvanced, job, pc, act, held, retrying, crashes>>

SealDone ==
    /\ pc = "seal" /\ todo = {}
    /\ Goto("publish")
    /\ UNCHANGED <<records, job, retrying, crashes>>

(* maybePublish at the end of each transition.  Its other call, the last   *)
(* loop of tick, finds nothing to do: see NoStrandedTask.            *)
MaybePublish ==
    /\ pc = "publish"
    /\ published' = (published \/ MayPublish)
    /\ Goto("mark")
    /\ UNCHANGED <<admission, launch, deadline, obs, jobCancel, seenEnd, attempts,
                   selections, cancel, unadvanced, job, retrying, crashes>>

MarkAdvanced ==
    /\ pc = "mark"
    /\ unadvanced' = unadvanced \ {act}
    /\ pc' = "idle" /\ act' = NoAct /\ todo' = {} /\ held' = NoPrior
    /\ UNCHANGED <<admission, launch, deadline, obs, jobCancel, seenEnd, attempts,
                   selections, cancel, published, job, retrying, crashes>>

Crash ==
    /\ crashes < MaxCrashes /\ (pc # "idle" \/ retrying # NoPrior)
    /\ crashes' = crashes + 1
    /\ pc' = "idle" /\ act' = NoAct /\ todo' = {} /\ held' = NoPrior
    /\ retrying' = NoPrior
    /\ UNCHANGED <<records, job>>

-----------------------------------------------------------------------------
Transition ==
    \/ Replay \/ ApplyAdmit \/ ApplyLaunch \/ ApplyObserve \/ ApplyCancel
    \/ CompleteDone \/ FinishAttempt \/ ContinueCancellation \/ NotCancelled
    \/ SealDone \/ MaybePublish \/ MarkAdvanced
    \/ \E t \in Tasks : CompleteTask(t) \/ SealAttempt(t) \/ SealSelect(t)

Next ==
    \/ Transition \/ HandleAdmit \/ HandleCancel \/ Crash
    \/ RequestCancel \/ OperatorPublish
    \/ \E l \in LaunchIds :
          \/ DispatchLaunch(l) \/ ResolveLaunch(l) \/ HandleObserve(l)
          \/ HandleJobCancel(l) \/ JobStarts(l) \/ JobEnds(l)
          \/ \E t \in Tasks, o \in {"final", "infrastructure"} : WorkerAttempt(l, t, o)
    \/ OperatorRetryWrite \/ \E t \in Tasks : OperatorRetryCheck(t)

Spec == Init /\ [][Next]_vars

-----------------------------------------------------------------------------
(* One physical launch produces at most one attempt for a task, although   *)
(* its worker may report while the reconciler writes the fallback, and an  *)
(* interrupted transition is replayed.                                     *)
OneAttemptPerLaunch ==
    \A t \in Tasks : \A m, n \in DOMAIN attempts[t] :
        attempts[t][m].launch = attempts[t][n].launch => m = n

(* An infrastructure failure is replaced at most once, by the operator or  *)
(* by the reconciler, and no task runs more often than its retry budget.   *)
OneReplacement ==
    \A t \in Tasks :
        /\ \A n \in DOMAIN attempts[t] : Cardinality(Retries(t, n)) <= 1
        /\ Cardinality({l \in LaunchIds : t \in l.tasks /\ launch[l] # "absent"})
               <= MaxAttempts

(* A task is sealed once, by one attempt, and never by an attempt that has *)
(* a replacement; a cancellation that overtakes the replacement seals with *)
(* an attempt of its own.                                                  *)
SealedOnce ==
    \A t \in Tasks :
        /\ Cardinality(selections[t]) <= 1
        /\ \A n \in selections[t] : Retries(t, n) = {}

(* The three, whichever of the reconciler, a worker and the operator acts  *)
(* first: a launch has one attempt, an attempt one replacement, and a task *)
(* one selection, of an attempt that nobody replaces (finishAttempt and    *)
(* retry_infrastructure decide under one admission queue).                 *)
RecordsAreUnique == OneAttemptPerLaunch /\ OneReplacement /\ SealedOnce

(* A process exit cannot strand work: whenever the reconciler is idle with *)
(* nothing to replay, an open task of a running campaign is on a launch    *)
(* that is still pending or observed, a campaign being cancelled has some  *)
(* pending action left that will drive the cancellation on, and no         *)
(* campaign waits for its publication: the transition of its last action   *)
(* has published it, and the last loop of tick finds nothing.              *)
NoStrandedTask ==
    /\ Ready /\ admission # "pending" =>
        \A t \in Tasks : ~Terminal(t) =>
            IF cancel = "no"
            THEN \E l \in LaunchIds :
                    /\ t \in l.tasks
                    /\ launch[l] \in {"pending", "dispatched"} \/ obs[l] # "none"
            ELSE ~NoPendingAction
    /\ Ready => ~MayPublish

(* Results are published only when every task is sealed, and a Job that    *)
(* still runs then is not forgotten: it will be observed to its end.       *)
PublishedIsAccounted ==
    published =>
        /\ \A t \in Tasks : Terminal(t)
        /\ \A l \in LaunchIds : launch[l] = "running" /\ job[l] = "running" =>
               obs[l] # "none" \/ \E a \in unadvanced : a.of = l

(* After publication no launch is dispatched and no Job starts, although   *)
(* an operator's retry may still be written then.                          *)
QuietAfterPublication ==
    [][published => \A l \in LaunchIds :
           /\ job[l] = "none" => job'[l] = "none"
           /\ launch[l] = "pending" => launch'[l] # "dispatched"]_vars
=============================================================================
