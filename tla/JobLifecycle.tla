--------------------------- MODULE JobLifecycle ---------------------------
(***************************************************************************)
(* The control service drives remote Hugging Face Jobs from immutable      *)
(* action records (packages/control-core/src/reconciler.ts, service.ts)    *)
(* through the Hub adapter (packages/hf-adapters/src/actions.ts).  One     *)
(* Node process runs one single-flight reconciler; it may stop at any      *)
(* step, and everything it holds in memory is then lost.  Records in the   *)
(* Bucket survive, and so do Jobs and create requests already on the wire. *)
(*                                                                         *)
(* A launch is handled in separate steps: look for a Job that already      *)
(* carries the action's label, write the dispatch fence, send the create   *)
(* request, wait for the answer, write the receipt, apply the transition,  *)
(* write the advanced marker.  Operator requests and remote Jobs move      *)
(* between any two of them.                                                *)
(*                                                                         *)
(* Abstractions: the records' contents are reduced to the states the       *)
(* handlers branch on; an observation chain job.observe/0, /1, ... is one  *)
(* pending entry that each non-terminal observation renews; what           *)
(* completeTasksFromJob decides about tasks is reduced to "launches a      *)
(* replacement or not" (CampaignTasks has the detail).  A pending launch   *)
(* whose tasks are all terminal exists only in a cancelled campaign, where *)
(* the code reports it as cancelled, so suppression is cancellation here.  *)
(***************************************************************************)
EXTENDS Naturals, FiniteSets

CONSTANTS
    Launches,   \* the job.launch actions a campaign may record
    MaxFaults   \* bound: how many failures one behaviour contains

FaultKinds == {"crash", "lostReply", "lostRequest", "listError", "cancelError",
               "lateDelivery"}

(* The failures the protocol does not mask: a cancel call that fails is    *)
(* recorded as the end of the Job, and a create request that is delivered  *)
(* after the adoption delay comes when its launch is already written off.  *)
Unmasked == {"cancelError", "lateDelivery"}

ASSUME LaunchesAssumption == IsFiniteSet(Launches)
ASSUME FaultsAssumption == MaxFaults \in Nat

NoLaunch == "no launch"
Launch(l) == [kind |-> "job.launch", of |-> l]
Observe(l) == [kind |-> "job.observe", of |-> l]
Cancel(l) == [kind |-> "job.cancel", of |-> l]
CampaignCancel == [kind |-> "campaign.cancel", of |-> NoLaunch]

Actions == {Launch(l) : l \in Launches} \cup {Observe(l) : l \in Launches}
           \cup {Cancel(l) : l \in Launches} \cup {CampaignCancel}

(* What a receipt records: outcome and observed_state, as far as a handler *)
(* looks at them.  "running" and "ended" stand for a Job created, adopted  *)
(* or observed in a non-terminal or a terminal state.                      *)
Results == {"running", "ended", "failed", "suppressed", "cancelled"}
NoResult == "no result"

VARIABLES
    \* Bucket records
    recorded,    \* launches with an action.intent
    pending,     \* actions with an intent and no receipt
    dispatch,    \* per launch: no fence, fenced, past adoption_not_before
    receipt,     \* per launch: its action.receipt, if any
    unadvanced,  \* receipts without an action.advanced marker
    cancelled,   \* a campaign.cancel intent, and its receipt, exist
    seenEnd,     \* launches with a terminal observed_state on record
    sealed,      \* cancelOpenTasks has closed every open task
    \* the Hub
    requests,    \* per launch: create requests sent so far
    wire,        \* launches whose create request is still in flight
    jobs,        \* per launch: Jobs created with its label
    running,     \* launches that have a Job in a non-terminal state
    \* the process
    pc, cur, suppression, result,
    faults       \* [count, kinds]: the number so far, and which were unmasked

durable == <<recorded, pending, dispatch, receipt, unadvanced, cancelled,
             seenEnd, sealed>>
remote == <<requests, wire, jobs, running>>
process == <<pc, cur, suppression, result>>
vars == <<durable, remote, process, faults>>

Fault(f) == /\ faults.count < MaxFaults
            /\ faults' = [count |-> faults.count + 1,
                           kinds |-> faults.kinds \cup ({f} \cap Unmasked)]

TypeOK ==
    /\ recorded \subseteq Launches
    /\ pending \subseteq Actions
    /\ dispatch \in [Launches -> {"none", "waiting", "adoptable"}]
    /\ receipt \in [Launches -> Results \cup {NoResult}]
    /\ unadvanced \in SUBSET [act : Actions, result : Results]
    /\ cancelled \in {"no", "requested", "received"}
    /\ seenEnd \subseteq Launches
    /\ sealed \in BOOLEAN
    /\ requests \in [Launches -> Nat]
    /\ wire \subseteq Launches
    /\ jobs \in [Launches -> Nat]
    /\ running \subseteq Launches
    /\ pc \in {"idle", "adopt", "probe", "fence", "create", "await", "receipt",
               "advance", "mark"}
    /\ cur \in Actions
    /\ suppression \in BOOLEAN
    /\ result \in Results \cup {NoResult}
    /\ faults \in [count : Nat, kinds : SUBSET Unmasked]

Init ==
    /\ recorded = {}
    /\ pending = {}
    /\ dispatch = [l \in Launches |-> "none"]
    /\ receipt = [l \in Launches |-> NoResult]
    /\ unadvanced = {}
    /\ cancelled = "no"
    /\ seenEnd = {}
    /\ sealed = FALSE
    /\ requests = [l \in Launches |-> 0]
    /\ wire = {}
    /\ jobs = [l \in Launches |-> 0]
    /\ running = {}
    /\ pc = "idle"
    /\ cur = CampaignCancel
    /\ suppression = FALSE
    /\ result = NoResult
    /\ faults = [count |-> 0, kinds |-> {}]

-----------------------------------------------------------------------------
(* Intents that reach the Bucket from outside the reconciler.              *)

(* admit/launchExecution, finishAttempt or an operator's                  *)
(* retry_infrastructure records a launch.  The operator's path re-reads    *)
(* nothing between its checks and its write, so it may even land after the *)
(* campaign is sealed.                                                     *)
RecordLaunch(l) ==
    /\ l \notin recorded
    /\ recorded' = recorded \cup {l}
    /\ pending' = pending \cup {Launch(l)}
    /\ UNCHANGED <<dispatch, receipt, unadvanced, cancelled, seenEnd, sealed,
                   remote, process, faults>>

RequestCancel ==
    /\ cancelled = "no"
    /\ cancelled' = "requested"
    /\ pending' = pending \cup {CampaignCancel}
    /\ UNCHANGED <<recorded, dispatch, receipt, unadvanced, seenEnd, sealed,
                   remote, process, faults>>

-----------------------------------------------------------------------------
(* Reconciler.handle and executeJobLaunch, one step per await that touches *)
(* the Bucket or the Hub.  A step works on the action in cur.              *)

Idle == /\ pc' = "idle"
        /\ UNCHANGED <<cur, suppression, result>>

Conclude(r) == /\ pc' = "receipt"
               /\ result' = r
               /\ UNCHANGED <<cur, suppression>>

(* tick replays receipts without a marker before it looks at pending       *)
(* actions, so a handler starts only when none is left.                    *)
BeginReplay ==
    /\ pc = "idle"
    /\ \E u \in unadvanced :
          /\ cur' = u.act
          /\ result' = u.result
    /\ pc' = "advance"
    /\ UNCHANGED <<durable, remote, suppression, faults>>

(* Mutant: a fenced launch is left alone for good instead of adopting.     *)
BeginLaunchNeverAdopts(l) ==
    /\ pc = "idle" /\ unadvanced = {}
    /\ Launch(l) \in pending
    /\ dispatch[l] = "none"
    /\ cur' = Launch(l)
    /\ suppression' = (cancelled # "no")
    /\ pc' = IF cancelled # "no" THEN "receipt" ELSE "probe"
    /\ result' = IF cancelled # "no" THEN "suppressed" ELSE NoResult
    /\ UNCHANGED <<durable, remote, faults>>

BeginLaunch(l) ==
    /\ pc = "idle" /\ unadvanced = {}
    /\ Launch(l) \in pending
    /\ cur' = Launch(l)
    /\ suppression' = (cancelled # "no")
    /\ \/ /\ cancelled # "no" /\ dispatch[l] = "none"
          /\ pc' = "receipt" /\ result' = "suppressed"
       \/ /\ dispatch[l] = "adoptable"
          /\ pc' = "adopt" /\ result' = NoResult
       \/ /\ cancelled = "no" /\ dispatch[l] = "none"
          /\ pc' = "probe" /\ result' = NoResult
    /\ UNCHANGED <<durable, remote, faults>>

StateOf(l) == IF l \in running THEN "running" ELSE "ended"

(* The adoption-only lookup failed: the adapter reports it as ambiguous    *)
(* and the handler gives up until the next tick.                           *)
ListFails ==
    /\ pc \in {"adopt", "probe"}
    /\ Fault("listError")
    /\ Idle
    /\ UNCHANGED <<durable, remote>>

(* Mutant: a fenced launch that finds no Job creates one again.            *)
AdoptFencedRecreates ==
    /\ pc = "adopt"
    /\ LET l == cur.of IN
       IF jobs[l] = 1 THEN Conclude(StateOf(l))
       ELSE IF jobs[l] = 0 /\ suppression THEN Conclude("suppressed")
       ELSE pc' = "create" /\ UNCHANGED <<cur, suppression, result>>
    /\ UNCHANGED <<durable, remote, faults>>

(* A fenced launch may only adopt.  A missing Job leaves it pending, unless *)
(* the campaign is cancelled: then the launch is suppressed.               *)
AdoptFenced ==
    /\ pc = "adopt"
    /\ LET l == cur.of IN
       IF jobs[l] = 1 THEN Conclude(StateOf(l))
       ELSE IF jobs[l] = 0 /\ suppression THEN Conclude("suppressed")
       ELSE Idle
    /\ UNCHANGED <<durable, remote, faults>>

Probe ==
    /\ pc = "probe"
    /\ LET l == cur.of IN
       CASE jobs[l] = 0 -> pc' = "fence" /\ UNCHANGED <<cur, suppression, result>>
         [] jobs[l] = 1 -> Conclude(StateOf(l))
         [] OTHER -> Idle
    /\ UNCHANGED <<durable, remote, faults>>

(* dispatchAction: only the handler that created the fence may go on.      *)
WriteFence ==
    /\ pc = "fence"
    /\ LET l == cur.of IN
       /\ dispatch' = [dispatch EXCEPT ![l] = IF @ = "none" THEN "waiting" ELSE @]
       /\ IF dispatch[l] = "none"
          THEN pc' = "create" /\ UNCHANGED <<cur, suppression, result>>
          ELSE Idle
    /\ UNCHANGED <<recorded, pending, receipt, unadvanced, cancelled, seenEnd,
                   sealed, remote, faults>>

(* launchJob once more looks for the label; an error before runJob is an   *)
(* ordinary failure, from runJob on every error is ambiguous.              *)
SendCreate ==
    /\ pc = "create"
    /\ LET l == cur.of IN
       IF jobs[l] = 0
       THEN /\ requests' = [requests EXCEPT ![l] = @ + 1]
            /\ wire' = wire \cup {l}
            /\ pc' = "await"
            /\ UNCHANGED <<cur, suppression, result, jobs, running>>
       ELSE /\ Conclude(IF jobs[l] = 1 THEN StateOf(l) ELSE "failed")
            /\ UNCHANGED remote
    /\ UNCHANGED <<durable, faults>>

FailBeforeCreate ==
    /\ pc = "create"
    /\ Fault("listError")
    /\ Conclude("failed")
    /\ UNCHANGED <<durable, remote>>

CreateAnswered ==
    /\ pc = "await"
    /\ cur.of \notin wire /\ jobs[cur.of] > 0
    /\ Conclude(StateOf(cur.of))
    /\ UNCHANGED <<durable, remote, faults>>

CreateAmbiguous ==
    /\ pc = "await"
    /\ \/ Fault("lostReply")
       \/ cur.of \notin wire /\ jobs[cur.of] = 0 /\ UNCHANGED faults
    /\ Idle
    /\ UNCHANGED <<durable, remote>>

(* A failed lookup of a Job leaves the observation pending: a stutter.     *)
BeginObserve(l) ==
    /\ pc = "idle" /\ unadvanced = {}
    /\ Observe(l) \in pending
    /\ cur' = Observe(l)
    /\ pc' = "receipt" /\ result' = StateOf(l)
    /\ UNCHANGED <<durable, remote, suppression, faults>>

(* cancelJob: the Hub may stop the Job at once or still report it as       *)
(* running.                                                                *)
BeginJobCancel(l) ==
    /\ pc = "idle" /\ unadvanced = {}
    /\ Cancel(l) \in pending
    /\ cur' = Cancel(l)
    /\ running' \in {running, running \ {l}}
    /\ pc' = "receipt"
    /\ result' = IF l \in running' THEN "running" ELSE "ended"
    /\ UNCHANGED <<durable, requests, wire, jobs, suppression, faults>>

(* The cancel call fails and the Job is not terminal: the adapter returns  *)
(* outcome "failed" with observed_state "ERROR".                           *)
JobCancelFails(l) ==
    /\ pc = "idle" /\ unadvanced = {}
    /\ Cancel(l) \in pending
    /\ Fault("cancelError")
    /\ cur' = Cancel(l)
    /\ pc' = "receipt" /\ result' = "failed"
    /\ UNCHANGED <<durable, remote, suppression>>

BeginCampaignCancel ==
    /\ pc = "idle" /\ unadvanced = {}
    /\ CampaignCancel \in pending
    /\ cur' = CampaignCancel
    /\ pc' = "receipt" /\ result' = "cancelled"
    /\ UNCHANGED <<durable, remote, suppression, faults>>

(* continueCancellation treats any terminal observed_state of a job.cancel *)
(* or job.observe receipt as the end of the Job, whatever its outcome; a   *)
(* failed cancel carries the terminal state "ERROR".                       *)
ShowsEnd(a, r) == \/ r = "ended"
                  \/ a.kind = "job.cancel" /\ r = "failed"

WriteReceipt ==
    /\ pc = "receipt"
    /\ pending' = pending \ {cur}
    /\ unadvanced' = unadvanced \cup {[act |-> cur, result |-> result]}
    /\ receipt' = IF cur.kind = "job.launch"
                  THEN [receipt EXCEPT ![cur.of] = result] ELSE receipt
    /\ cancelled' = IF cur = CampaignCancel THEN "received" ELSE cancelled
    /\ seenEnd' = IF ShowsEnd(cur, result) THEN seenEnd \cup {cur.of} ELSE seenEnd
    /\ pc' = "advance"
    /\ UNCHANGED <<recorded, dispatch, sealed, remote, cur, suppression, result,
                   faults>>

Unresolved == {l \in Launches : Launch(l) \in pending /\ dispatch[l] # "none"}
ActiveJobs == {l \in Launches : receipt[l] \in {"running", "ended"} /\ l \notin seenEnd}

(* Mutant: cancellation does not wait for launches whose outcome is open.  *)
ContinueCancellationHasty(next) ==
    /\ pending' = pending \cup next \cup {Cancel(l) : l \in ActiveJobs}
    /\ sealed' = (sealed \/ (ActiveJobs = {} /\ cancelled = "received"))

(* continueCancellation: wait for fenced launches, then cancel every Job   *)
(* not known to have ended, and only then close the open tasks.  next is   *)
(* the observation that the same transition may have added.                *)
ContinueCancellation(next) ==
    IF Unresolved # {}
    THEN pending' = pending \cup next /\ UNCHANGED sealed
    ELSE /\ pending' = pending \cup next \cup {Cancel(l) : l \in ActiveJobs}
         /\ sealed' = (sealed \/ (ActiveJobs = {} /\ cancelled = "received"))

(* Mutant: a non-terminal observation is not renewed.                      *)
AdvanceObservesOnce ==
    /\ pc = "advance"
    /\ LET next == IF cur.kind = "job.launch" /\ result \in {"running", "ended"}
                   THEN {Observe(cur.of)} ELSE {}
       IN IF cancelled # "no"
          THEN ContinueCancellation(next)
          ELSE pending' = pending \cup next /\ UNCHANGED sealed
    /\ pc' = "mark"
    /\ UNCHANGED <<recorded, dispatch, receipt, unadvanced, cancelled, seenEnd,
                   remote, cur, suppression, result, faults>>

(* Mutant: only the cancel actions themselves drive the cancellation on.   *)
AdvanceForgetsCancellation ==
    /\ pc = "advance"
    /\ LET next == IF \/ cur.kind = "job.launch" /\ result \in {"running", "ended"}
                      \/ cur.kind = "job.observe" /\ result = "running"
                   THEN {Observe(cur.of)} ELSE {}
       IN IF cur.kind \in {"campaign.cancel", "job.cancel"}
          THEN ContinueCancellation(next)
          ELSE pending' = pending \cup next /\ UNCHANGED sealed
    /\ pc' = "mark"
    /\ UNCHANGED <<recorded, dispatch, receipt, unadvanced, cancelled, seenEnd,
                   remote, cur, suppression, result, faults>>

Advance ==
    /\ pc = "advance"
    /\ LET next == IF \/ cur.kind = "job.launch" /\ result \in {"running", "ended"}
                      \/ cur.kind = "job.observe" /\ result = "running"
                   THEN {Observe(cur.of)} ELSE {}
       IN IF cancelled # "no"
          THEN ContinueCancellation(next)
          ELSE pending' = pending \cup next /\ UNCHANGED sealed
    /\ pc' = "mark"
    /\ UNCHANGED <<recorded, dispatch, receipt, unadvanced, cancelled, seenEnd,
                   remote, cur, suppression, result, faults>>

MarkAdvanced ==
    /\ pc = "mark"
    /\ unadvanced' = unadvanced \ {[act |-> cur, result |-> result]}
    /\ Idle
    /\ UNCHANGED <<recorded, pending, dispatch, receipt, cancelled, seenEnd, sealed,
                   remote, faults>>

(* The process stops and a new one starts from the Bucket.                 *)
Crash ==
    /\ Fault("crash")
    /\ pc' = "idle" /\ suppression' = FALSE /\ result' = NoResult
    /\ UNCHANGED <<durable, remote, cur>>

-----------------------------------------------------------------------------
(* The Hub and the clock.                                                  *)

DeliverCreate(l) ==
    /\ l \in wire
    /\ wire' = wire \ {l}
    /\ jobs' = [jobs EXCEPT ![l] = @ + 1]
    /\ running' = running \cup {l}
    /\ UNCHANGED <<durable, requests, process, faults>>

LoseCreate(l) ==
    /\ l \in wire
    /\ Fault("lostRequest")
    /\ wire' = wire \ {l}
    /\ UNCHANGED <<durable, requests, jobs, running, process>>

(* adoption_not_before passes.  The delay of 60 s is meant to outlast the  *)
(* create request that follows the fence.                                  *)
Sending(l) == l \in wire \/ (pc = "create" /\ cur = Launch(l))

Adoptable(l) ==
    /\ dispatch[l] = "waiting"
    /\ dispatch' = [dispatch EXCEPT ![l] = "adoptable"]
    /\ UNCHANGED <<recorded, pending, receipt, unadvanced, cancelled, seenEnd, sealed,
                   remote, process>>

AdoptionDelayPasses(l) == ~Sending(l) /\ Adoptable(l) /\ UNCHANGED faults
AdoptionDelayTooShort(l) == Sending(l) /\ Adoptable(l) /\ Fault("lateDelivery")

JobEnds(l) ==
    /\ l \in running
    /\ running' = running \ {l}
    /\ UNCHANGED <<durable, requests, wire, jobs, process, faults>>

-----------------------------------------------------------------------------
Begin(l) == BeginLaunch(l) \/ BeginObserve(l) \/ BeginJobCancel(l)

Proceed ==
    \/ AdoptFenced \/ Probe \/ WriteFence \/ SendCreate \/ CreateAnswered
    \/ CreateAmbiguous \/ WriteReceipt \/ Advance \/ MarkAdvanced \/ BeginReplay

Next ==
    \/ RequestCancel
    \/ \E l \in Launches :
          \/ RecordLaunch(l) \/ Begin(l) \/ JobCancelFails(l)
          \/ DeliverCreate(l) \/ LoseCreate(l) \/ JobEnds(l)
          \/ AdoptionDelayPasses(l) \/ AdoptionDelayTooShort(l)
    \/ BeginCampaignCancel
    \/ Proceed
    \/ ListFails \/ FailBeforeCreate \/ Crash

(* A started handler runs on; every tick comes to some pending action of   *)
(* every launch; the Hub delivers or loses what was sent, every Job ends   *)
(* by its timeout_seconds, and time passes.  Operators promise nothing.    *)
Fairness ==
    /\ WF_vars(Proceed)
    /\ SF_vars(BeginCampaignCancel)
    /\ \A l \in Launches :
          /\ SF_vars(Begin(l)) /\ WF_vars(DeliverCreate(l))
          /\ WF_vars(AdoptionDelayPasses(l)) /\ WF_vars(JobEnds(l))

Spec == Init /\ [][Next]_vars
FairSpec == Spec /\ Fairness

-----------------------------------------------------------------------------
(* A launch action sends at most one create request and owns at most one   *)
(* Job, however often the process stops, replies are lost or the label     *)
(* lookup fails: the dispatch fence is created once and only its creator   *)
(* calls runJob.                                                           *)
AtMostOneJob == \A l \in Launches : requests[l] <= 1 /\ jobs[l] <= 1

(* A Job whose launch has a receipt is never forgotten while it runs: it   *)
(* is under observation, or the receipt that will put it under observation *)
(* still waits for its marker.  Only a create request delivered after the  *)
(* adoption delay can leave such a Job.                                    *)
NoStrandedJob ==
    "lateDelivery" \notin faults.kinds =>
        \A l \in running : receipt[l] # NoResult =>
            \/ Observe(l) \in pending
            \/ \E u \in unadvanced : u.act.of = l /\ u.act.kind # "job.cancel"

(* Cancelling stops active remote Jobs before the campaign is sealed: once *)
(* cancelOpenTasks has run, no Job of the campaign runs or will start,     *)
(* unless a cancel call failed or a create request came too late.          *)
SealedHasNoJob == sealed /\ faults.kinds = {} => running = {} /\ wire = {}

(* A requested cancellation is eventually sealed, whatever launches were   *)
(* half done when it arrived.                                              *)
CancellationSeals == (cancelled # "no") ~> sealed

(* A Job that was created is eventually adopted: its launch gets a receipt *)
(* even if every reply to the create request was lost.                     *)
CreatedJobIsRecorded == \A l \in Launches : (jobs[l] > 0) ~> (receipt[l] # NoResult)
=============================================================================
