------------------------- MODULE ControlServiceProofs -------------------------
(***************************************************************************)
(* Proofs about the control service: JobLifecycle for any set of launches, *)
(* any choice of failures and any number of them, and BudgetLedger for     *)
(* every ceiling, every set of attempts and Sandboxes and any number of    *)
(* restarts.  The two share no state; the ledger's specification has names *)
(* of its own (BudgetInit, BudgetNext, BudgetSpec).                        *)
(***************************************************************************)
EXTENDS JobLifecycle, BudgetLedger, FiniteSetTheorems, TLAPS

-----------------------------------------------------------------------------
(* Jobs.                                                                   *)

(* Type correctness needs to know what the process holds: which kind of    *)
(* action it is working on in each step, and that it holds a result when   *)
(* it is about to write one.                                               *)
HeldOK ==
    /\ pc \in {"adopt", "probe", "fence", "create", "await"} =>
          \E l \in Launches : cur = Launch(l)
    /\ pc \in {"receipt", "advance", "mark"} => result \in Results
    /\ pc = "receipt" /\ cur = CampaignCancel => result = "cancelled"

TypeInv == TypeOK /\ HeldOK

(* The dispatch fence and the create request: a launch without a fence has *)
(* sent nothing, the process that is about to send is the first to do so,  *)
(* and every Job and every request in flight answers for a sent request.   *)
FenceOK ==
    /\ \A l \in Launches :
          /\ dispatch[l] = "none" => requests[l] = 0
          /\ requests[l] <= 1
          /\ jobs[l] <= requests[l]
          /\ l \in wire => jobs[l] < requests[l]
    /\ pc = "create" => requests[cur.of] = 0 /\ dispatch[cur.of] # "none"

(* What an action is about.                                                *)
LEMMA ActionKinds ==
    ASSUME NEW a \in Actions
    PROVE  /\ a.kind \in {"job.launch", "job.observe", "job.cancel"} => a.of \in Launches
           /\ a.kind \in {"job.launch", "job.observe", "job.cancel", "campaign.cancel"}
           /\ a.kind = "campaign.cancel" <=> a = CampaignCancel
  BY DEF Actions, Launch, Observe, Cancel, CampaignCancel

(* The three actions of a launch are told apart.                           *)
LEMMA LaunchKind ==
    ASSUME NEW l \in Launches
    PROVE  /\ Launch(l) \in Actions /\ Observe(l) \in Actions /\ Cancel(l) \in Actions
           /\ CampaignCancel \in Actions
           /\ Launch(l).of = l /\ Launch(l).kind = "job.launch"
           /\ Observe(l).of = l /\ Observe(l).kind = "job.observe"
           /\ Cancel(l).of = l /\ Cancel(l).kind = "job.cancel"
           /\ Launch(l) # CampaignCancel /\ Observe(l) # CampaignCancel
           /\ Cancel(l) # CampaignCancel
  BY DEF Actions, Launch, Observe, Cancel, CampaignCancel

(* The types hold of a new campaign.                                       *)
LEMMA TypeInit == Init => TypeInv
  <1> SUFFICES ASSUME Init PROVE TypeInv
    OBVIOUS
  <1>1. cur \in Actions
    BY DEF Init, Actions
  <1>2. sealed \in BOOLEAN /\ suppression \in BOOLEAN
    BY DEF Init
  <1>3. QED
    BY <1>1, <1>2 DEF Init, TypeInv, TypeOK, HeldOK

(* Every step of the process, the Hub or an operator keeps the types.      *)
LEMMA TypeNext == TypeInv /\ [Next]_vars => TypeInv'
  <1> SUFFICES ASSUME TypeInv, [Next]_vars PROVE TypeInv'
    OBVIOUS
  <1> USE DEF TypeInv, TypeOK, HeldOK
  <1>1. CASE UNCHANGED vars
    BY <1>1 DEF vars, durable, remote, process
  <1>2. CASE RequestCancel
    BY <1>2 DEF RequestCancel, remote, process, Actions
  <1>3. ASSUME NEW l \in Launches, RecordLaunch(l) PROVE TypeInv'
    BY <1>3, LaunchKind DEF RecordLaunch, remote, process
  <1>4. ASSUME NEW l \in Launches, BeginLaunch(l) PROVE TypeInv'
    BY <1>4, LaunchKind DEF BeginLaunch, durable, remote, Results
  <1>5. ASSUME NEW l \in Launches, BeginObserve(l) PROVE TypeInv'
    BY <1>5, LaunchKind DEF BeginObserve, durable, remote, Results, StateOf
  <1>6. ASSUME NEW l \in Launches, BeginJobCancel(l) PROVE TypeInv'
    BY <1>6, LaunchKind DEF BeginJobCancel, durable, Results
  <1>7. ASSUME NEW l \in Launches, JobCancelFails(l) PROVE TypeInv'
    BY <1>7, LaunchKind DEF JobCancelFails, Fault, durable, remote, Results
  <1>8. CASE BeginCampaignCancel
    BY <1>8 DEF BeginCampaignCancel, durable, remote, Results, Actions
  <1>9. CASE BeginReplay
    BY <1>9 DEF BeginReplay, durable, remote
  <1>10. CASE AdoptFenced
    BY <1>10, LaunchKind DEF AdoptFenced, Conclude, Idle, StateOf, durable, remote, Results
  <1>11. CASE Probe
    BY <1>11, LaunchKind DEF Probe, Conclude, Idle, StateOf, durable, remote, Results
  <1>12. CASE WriteFence
    BY <1>12, LaunchKind DEF WriteFence, Idle, remote
  <1>13. CASE SendCreate
    BY <1>13, LaunchKind DEF SendCreate, Conclude, StateOf, durable, remote, Results
  <1>14. CASE FailBeforeCreate
    BY <1>14, LaunchKind DEF FailBeforeCreate, Fault, Conclude, durable, remote, Results
  <1>15. CASE CreateAnswered
    BY <1>15, LaunchKind DEF CreateAnswered, Conclude, StateOf, durable, remote, Results
  <1>16. CASE CreateAmbiguous
    BY <1>16 DEF CreateAmbiguous, Fault, Idle, durable, remote
  <1>17. CASE ListFails
    BY <1>17 DEF ListFails, Fault, Idle, durable, remote
  <1>18. CASE WriteReceipt
    <2>1. receipt' \in [Launches -> Results \cup {NoResult}]
      BY <1>18, ActionKinds DEF WriteReceipt
    <2>2. seenEnd' \subseteq Launches
      BY <1>18, ActionKinds DEF WriteReceipt, ShowsEnd
    <2>3. QED
      BY <1>18, <2>1, <2>2 DEF WriteReceipt, remote
  <1>19. CASE Advance
    <2>1. pending' \subseteq Actions
      BY <1>19, ActionKinds, LaunchKind DEF Advance, ContinueCancellation, ActiveJobs
    <2>2. sealed' \in BOOLEAN
      BY <1>19 DEF Advance, ContinueCancellation
    <2>3. UNCHANGED <<recorded, dispatch, receipt, unadvanced, cancelled, seenEnd,
                      remote, cur, suppression, result, faults>> /\ pc' = "mark"
      BY <1>19 DEF Advance
    <2>4. pc = "advance"
      BY <1>19 DEF Advance
    <2>5. QED
      BY <2>1, <2>2, <2>3, <2>4 DEF remote
  <1>20. CASE MarkAdvanced
    BY <1>20 DEF MarkAdvanced, Idle, remote
  <1>21. CASE Crash
    <2>1. suppression' \in BOOLEAN
      BY <1>21 DEF Crash
    <2>2. /\ UNCHANGED <<durable, remote, cur>> /\ pc' = "idle" /\ result' = NoResult
          /\ faults' = [count |-> faults.count + 1,
                         kinds |-> faults.kinds \cup ({"crash"} \cap Unmasked)]
      BY <1>21 DEF Crash, Fault
    <2>3. QED
      BY <2>1, <2>2 DEF durable, remote
  <1>22. ASSUME NEW l \in Launches, DeliverCreate(l) PROVE TypeInv'
    BY <1>22 DEF DeliverCreate, durable, process
  <1>23. ASSUME NEW l \in Launches, LoseCreate(l) PROVE TypeInv'
    BY <1>23 DEF LoseCreate, Fault, durable, process
  <1>24. ASSUME NEW l \in Launches, AdoptionDelayPasses(l) PROVE TypeInv'
    BY <1>24 DEF AdoptionDelayPasses, Adoptable, remote, process
  <1>25. ASSUME NEW l \in Launches, AdoptionDelayTooShort(l) PROVE TypeInv'
    BY <1>25 DEF AdoptionDelayTooShort, Adoptable, Fault, remote, process
  <1>26. ASSUME NEW l \in Launches, JobEnds(l) PROVE TypeInv'
    BY <1>26 DEF JobEnds, durable, process
  <1>27. QED
    BY <1>1, <1>2, <1>3, <1>4, <1>5, <1>6, <1>7, <1>8, <1>9, <1>10, <1>11, <1>12,
       <1>13, <1>14, <1>15, <1>16, <1>17, <1>18, <1>19, <1>20, <1>21, <1>22, <1>23,
       <1>24, <1>25, <1>26
       DEF Next, Begin, Proceed

(* Every reachable state of the Job lifecycle is well typed.               *)
THEOREM TypeCorrect == Spec => []TypeOK
  <1>1. TypeInv => TypeOK
    BY DEF TypeInv
  <1>2. QED
    BY <1>1, TypeInit, TypeNext, PTL DEF Spec

(* Nothing is fenced or sent at first.                                     *)
LEMMA FenceInit == Init => FenceOK
  BY DEF Init, FenceOK

(* A fence is created before its one request, by every step.               *)
LEMMA FenceNext == TypeInv /\ FenceOK /\ [Next]_vars => FenceOK'
  <1> SUFFICES ASSUME TypeInv, FenceOK, [Next]_vars PROVE FenceOK'
    OBVIOUS
  <1> USE DEF FenceOK
  <1>1. CASE UNCHANGED <<dispatch, requests, jobs, wire>> /\ pc' # "create"
    BY <1>1
  <1>2. CASE UNCHANGED <<dispatch, remote, process>>
    BY <1>2 DEF remote, process
  <1>3. CASE WriteFence
    <2>1. PICK l \in Launches : cur = Launch(l)
      BY <1>3 DEF WriteFence, TypeInv, HeldOK
    <2>2. cur.of = l
      BY <2>1, LaunchKind
    <2>3. QED
      BY <1>3, <2>2 DEF WriteFence, Idle, remote, TypeInv, TypeOK
  <1>4. CASE SendCreate
    <2>1. PICK l \in Launches : cur = Launch(l)
      BY <1>4 DEF SendCreate, TypeInv, HeldOK
    <2>2. cur.of = l
      BY <2>1, LaunchKind
    <2>3. QED
      BY <1>4, <2>2 DEF SendCreate, Conclude, remote, durable, TypeInv, TypeOK
  <1>5. ASSUME NEW l \in Launches, DeliverCreate(l) PROVE FenceOK'
    BY <1>5 DEF DeliverCreate, durable, process, TypeInv, TypeOK
  <1>6. ASSUME NEW l \in Launches, LoseCreate(l) PROVE FenceOK'
    BY <1>6 DEF LoseCreate, durable, process
  <1>7. ASSUME NEW l \in Launches, AdoptionDelayPasses(l) \/ AdoptionDelayTooShort(l)
        PROVE  FenceOK'
    <2>1. Adoptable(l)
      BY <1>7 DEF AdoptionDelayPasses, AdoptionDelayTooShort
    <2>2. QED
      BY <2>1 DEF Adoptable, remote, process, TypeInv, TypeOK
  <1>8. CASE UNCHANGED vars
    BY <1>2, <1>8 DEF vars, durable, remote, process
  <1>9. ASSUME NEW l \in Launches, RecordLaunch(l) \/ Begin(l) \/ JobCancelFails(l)
                                   \/ JobEnds(l)
        PROVE  FenceOK'
    BY <1>9 DEF RecordLaunch, Begin, BeginLaunch, BeginObserve, BeginJobCancel,
               JobCancelFails, JobEnds, durable, remote, process
  <1>10. CASE \/ RequestCancel \/ BeginCampaignCancel \/ BeginReplay \/ AdoptFenced
              \/ CreateAnswered \/ CreateAmbiguous \/ WriteReceipt \/ Advance
              \/ MarkAdvanced \/ ListFails \/ FailBeforeCreate \/ Crash
    BY <1>1, <1>2, <1>10
       DEF RequestCancel, BeginCampaignCancel, BeginReplay, AdoptFenced, CreateAnswered,
           CreateAmbiguous, WriteReceipt, Advance, MarkAdvanced, ListFails,
           FailBeforeCreate, Crash, Conclude, Idle, durable, remote, process
  <1>11. CASE Probe
    BY <1>1, <1>11 DEF Probe, Conclude, Idle, durable, remote
  <1>12. QED
    BY <1>3, <1>4, <1>5, <1>6, <1>7, <1>8, <1>9, <1>10, <1>11 DEF Next, Proceed

(* A launch action creates at most one Job, for any number of launches and *)
(* any sequence of restarts, lost messages, failed lookups and late        *)
(* deliveries.                                                             *)
THEOREM LaunchesOnce == Spec => []AtMostOneJob
  <1>1. TypeInv /\ FenceOK => AtMostOneJob
    <2> SUFFICES ASSUME TypeInv, FenceOK, NEW l \in Launches
                 PROVE  requests[l] <= 1 /\ jobs[l] <= 1
      BY DEF AtMostOneJob
    <2>1. requests[l] \in Nat /\ jobs[l] \in Nat
      BY DEF TypeInv, TypeOK
    <2>2. QED
      BY <2>1 DEF FenceOK
  <1>2. QED
    BY <1>1, TypeInit, TypeNext, FenceInit, FenceNext, PTL DEF Spec

(* The results after which a transition records an observation.            *)
Renews(a, r) == \/ a.kind = "job.launch" /\ r \in {"running", "ended"}
                \/ a.kind = "job.observe" /\ r = "running"

(* What the records say of a launch's Job: a pending intent has no receipt *)
(* yet, a fenced launch is pending or has one, and a receipt that names a  *)
(* Job, an observation and a recorded end are about a Job that was created.*)
RecordOK(l) ==
    /\ Launch(l) \in pending => l \in recorded /\ receipt[l] = NoResult
    /\ l \notin recorded => dispatch[l] = "none" /\ receipt[l] = NoResult
    /\ dispatch[l] # "none" => Launch(l) \in pending \/ receipt[l] # NoResult
    /\ receipt[l] \in {"running", "ended"} => jobs[l] > 0
    /\ l \in running => jobs[l] > 0
    /\ Observe(l) \in pending \/ Cancel(l) \in pending =>
          receipt[l] \in {"running", "ended"}
    /\ l \in seenEnd => jobs[l] > 0
    /\ l \in seenEnd /\ l \in running => "cancelError" \in faults.kinds

RecordsOK == \A l \in Launches : RecordOK(l)

(* What a result says of the Job of its action, from the step that found   *)
(* it until its marker is written.                                         *)
ResultFits(a, r) ==
    /\ a.kind # "campaign.cancel" /\ r = "ended" => a.of \notin running
    /\ a.kind = "job.launch" /\ r \in {"running", "ended"} => jobs[a.of] > 0
    /\ a.kind \in {"job.observe", "job.cancel"} => receipt[a.of] \in {"running", "ended"}
    /\ a.kind = "job.observe" => r \in {"running", "ended"}
    /\ a.kind = "job.cancel" /\ r = "failed" => "cancelError" \in faults.kinds

ReplayOK ==
    \A u \in unadvanced :
       /\ ResultFits(u.act, u.result)
       /\ u.act.kind = "job.launch" => receipt[u.act.of] = u.result

(* What the process holds in each step of its handler.                     *)
HandlerOK ==
    /\ pc \in {"adopt", "probe", "fence", "create", "await", "receipt"} => cur \in pending
    /\ pc \in {"probe", "fence"} => dispatch[cur.of] = "none"
    /\ pc = "adopt" => dispatch[cur.of] = "adoptable"
    /\ pc = "receipt" => ResultFits(cur, result)
    /\ pc \in {"advance", "mark"} => [act |-> cur, result |-> result] \in unadvanced
    /\ pc = "mark" /\ Renews(cur, result) => Observe(cur.of) \in pending

(* While every create request meets the adoption delay, a request in       *)
(* flight belongs to a pending launch whose fence still waits, and no Job  *)
(* comes after a receipt that names none.                                  *)
InFlightOK ==
    /\ \A l \in wire : Launch(l) \in pending /\ dispatch[l] = "waiting"
    /\ pc = "create" => dispatch[cur.of] = "waiting"
    /\ \A l \in Launches : receipt[l] \notin {NoResult, "running", "ended"} =>
                              jobs[l] = 0 /\ l \notin wire
    /\ pc = "receipt" /\ cur.kind = "job.launch" =>
          /\ cur.of \notin wire
          /\ result \notin {"running", "ended"} => jobs[cur.of] = 0

WireOK == "lateDelivery" \notin faults.kinds => InFlightOK

(* A running Job that a receipt names is under observation or about to be. *)
WatchOK ==
    \A l \in running : receipt[l] \in {"running", "ended"} =>
        \/ Observe(l) \in pending
        \/ \E u \in unadvanced : /\ u.act.of = l
                                /\ u.act.kind \in {"job.launch", "job.observe"}

(* A sealed campaign stays quiet: nothing fenced is open, every Job on     *)
(* record has ended, and the one thing that can still happen to a launch   *)
(* is to be suppressed.                                                    *)
Quiet ==
    /\ cancelled = "received"
    /\ \A l \in Launches :
          /\ Launch(l) \in pending => dispatch[l] = "none"
          /\ receipt[l] \in {"running", "ended"} => l \in seenEnd
    /\ pc \notin {"adopt", "probe", "fence", "create", "await"}
    /\ pc = "receipt" /\ cur.kind = "job.launch" => result = "suppressed"

SealOK == sealed => Quiet

(* An action is determined by its kind and its launch.                     *)
LEMMA ActionNames ==
    ASSUME NEW a \in Actions
    PROVE  /\ a.kind = "job.launch" => a = Launch(a.of)
           /\ a.kind = "job.observe" => a = Observe(a.of)
           /\ a.kind = "job.cancel" => a = Cancel(a.of)
  BY DEF Actions, Launch, Observe, Cancel, CampaignCancel

(* A failure is remembered only when it is one the protocol does not mask. *)
LEMMA FaultKindsGrow ==
    ASSUME NEW f, Fault(f)
    PROVE  faults'.kinds = faults.kinds \cup ({f} \cap Unmasked)
  BY DEF Fault

(* Every step keeps the records of each launch consistent.                 *)
LEMMA RecordsNext ==
    ASSUME TypeInv, TypeInv', FenceOK, RecordsOK, ReplayOK, HandlerOK, [Next]_vars
    PROVE  RecordsOK'
  <1> USE DEF TypeInv, TypeOK, RecordsOK, RecordOK
  <1>0. CASE UNCHANGED <<recorded, pending, dispatch, receipt, seenEnd, jobs, running>>
              /\ faults.kinds \subseteq faults'.kinds
    BY <1>0 DEF RecordsOK
  <1>1. CASE UNCHANGED vars
    BY <1>0, <1>1 DEF vars, durable, remote
  <1>2. CASE RequestCancel
    BY <1>2, LaunchKind DEF RequestCancel, remote, process
  <1>3. ASSUME NEW l \in Launches, RecordLaunch(l) PROVE RecordsOK'
    BY <1>3, LaunchKind DEF RecordLaunch, remote, process
  <1>4. ASSUME NEW l \in Launches, BeginLaunch(l) \/ BeginObserve(l) PROVE RecordsOK'
    BY <1>0, <1>4 DEF BeginLaunch, BeginObserve, durable, remote
  <1>5. ASSUME NEW l \in Launches, BeginJobCancel(l) PROVE RecordsOK'
    BY <1>5 DEF BeginJobCancel, durable
  <1>6. ASSUME NEW l \in Launches, JobCancelFails(l) PROVE RecordsOK'
    BY <1>0, <1>6, FaultKindsGrow DEF JobCancelFails, durable, remote
  <1>7. CASE \/ BeginCampaignCancel \/ BeginReplay \/ AdoptFenced \/ SendCreate
             \/ CreateAnswered
    BY <1>0, <1>7 DEF BeginCampaignCancel, BeginReplay, AdoptFenced, SendCreate,
                      CreateAnswered, durable, remote
  <1>8. CASE Probe
    BY <1>0, <1>8 DEF Probe, durable, remote
  <1>9. CASE CreateAmbiguous \/ ListFails \/ FailBeforeCreate \/ Crash
    BY <1>0, <1>9, FaultKindsGrow
       DEF CreateAmbiguous, ListFails, FailBeforeCreate, Crash, durable, remote
  <1>10. CASE MarkAdvanced
    BY <1>0, <1>10 DEF MarkAdvanced, remote
  <1>11. CASE WriteFence
    <2>1. PICK l \in Launches : cur = Launch(l)
      BY <1>11 DEF WriteFence, HeldOK
    <2>2. cur.of = l /\ Launch(l) \in pending
      BY <1>11, <2>1, LaunchKind DEF WriteFence, HandlerOK
    <2>3. QED
      BY <1>11, <2>2 DEF WriteFence, RecordsOK, remote
  <1>12. CASE WriteReceipt
    <2>1. cur \in pending /\ ResultFits(cur, result)
      BY <1>12 DEF WriteReceipt, HandlerOK
    <2>2. CASE cur.kind = "job.launch"
      <3>1. PICK l \in Launches : cur = Launch(l)
        BY <2>2, ActionKinds, ActionNames
      <3>2. /\ receipt' = [receipt EXCEPT ![l] = result] /\ pending' = pending \ {Launch(l)}
            /\ seenEnd' = IF result = "ended" THEN seenEnd \cup {l} ELSE seenEnd
        BY <1>12, <2>2, <3>1, LaunchKind DEF WriteReceipt, ShowsEnd
      <3>3. UNCHANGED <<recorded, dispatch, jobs, running, faults>>
        BY <1>12 DEF WriteReceipt, remote
      <3>4. result # NoResult
        BY <1>12 DEF WriteReceipt, HeldOK, NoResult, Results
      <3>5. /\ Launch(l) \in pending
            /\ result \in {"running", "ended"} => jobs[l] > 0
            /\ result = "ended" => l \notin running
        BY <2>1, <2>2, <3>1, LaunchKind DEF ResultFits
      <3>6. \A m \in Launches : /\ receipt'[m] = IF m = l THEN result ELSE receipt[m]
                                /\ Launch(m) \in pending' <=> m # l /\ Launch(m) \in pending
                                /\ Observe(m) \in pending' <=> Observe(m) \in pending
                                /\ Cancel(m) \in pending' <=> Cancel(m) \in pending
        BY <3>2, LaunchKind
      <3>7. ASSUME NEW m \in Launches, m # l PROVE RecordOK(m)'
        <4>1. RecordOK(m)
          BY DEF RecordsOK
        <4>2. QED
          BY <3>2, <3>3, <3>6, <3>7, <4>1 DEF RecordOK
      <3>8. RecordOK(l)'
        <4>1. RecordOK(l)
          BY DEF RecordsOK
        <4>2. QED
          BY <3>2, <3>3, <3>4, <3>5, <3>6, <4>1 DEF RecordOK, NoResult
      <3>9. QED
        BY <3>7, <3>8 DEF RecordsOK
    <2>3. CASE cur.kind # "job.launch"
      <3>1. UNCHANGED receipt /\ pending' \subseteq pending
        BY <1>12, <2>3 DEF WriteReceipt
      <3>2. \A l \in Launches : Launch(l) \in pending => Launch(l) \in pending'
        BY <1>12, <2>3, LaunchKind DEF WriteReceipt
      <3>3. \A l \in seenEnd' : \/ l \in seenEnd
                                 \/ /\ jobs[l] > 0
                                    /\ l \in running => "cancelError" \in faults.kinds
        <4>1. cur.kind = "campaign.cancel" => ~ShowsEnd(cur, result)
          BY <1>12, ActionKinds DEF WriteReceipt, ShowsEnd, HeldOK
        <4>2. ShowsEnd(cur, result) =>
                 /\ cur.of \in Launches /\ receipt[cur.of] \in {"running", "ended"}
                 /\ cur.of \in running => "cancelError" \in faults.kinds
          BY <2>1, <2>3, <4>1, ActionKinds DEF ShowsEnd, ResultFits
        <4>3. QED
          BY <1>12, <4>2 DEF WriteReceipt
      <3>4. UNCHANGED <<recorded, dispatch, remote, faults>>
        BY <1>12 DEF WriteReceipt
      <3>5. QED
        BY <3>1, <3>2, <3>3, <3>4 DEF RecordsOK, remote
    <2>4. QED
      BY <2>2, <2>3
  <1>13. CASE Advance
    <2>1. [act |-> cur, result |-> result] \in unadvanced
      BY <1>13 DEF Advance, HandlerOK
    <2>2. ResultFits(cur, result)
          /\ (cur.kind = "job.launch" => receipt[cur.of] = result)
      BY <2>1 DEF ReplayOK
    <2>3. pending' \subseteq pending \cup (IF Renews(cur, result) THEN {Observe(cur.of)} ELSE {})
                             \cup {Cancel(l) : l \in ActiveJobs}
          /\ pending \subseteq pending'
      BY <1>13 DEF Advance, ContinueCancellation, Renews
    <2>4. Renews(cur, result) => cur.of \in Launches /\ receipt[cur.of] \in {"running", "ended"}
      BY <2>2, ActionKinds DEF Renews, ResultFits
    <2>5. \A l \in Launches : Observe(l) \in pending' \/ Cancel(l) \in pending' =>
                              receipt[l] \in {"running", "ended"}
      BY <2>3, <2>4, LaunchKind DEF ActiveJobs
    <2>6. \A l \in Launches : Launch(l) \in pending' <=> Launch(l) \in pending
      BY <2>3, <2>4, LaunchKind DEF ActiveJobs
    <2>7. UNCHANGED <<recorded, dispatch, receipt, seenEnd, remote, faults>>
      BY <1>13 DEF Advance
    <2>8. QED
      BY <2>5, <2>6, <2>7 DEF RecordsOK, remote
  <1>14. ASSUME NEW l \in Launches, DeliverCreate(l) PROVE RecordsOK'
    BY <1>14 DEF DeliverCreate, RecordsOK, FenceOK, durable, process
  <1>15. ASSUME NEW l \in Launches, LoseCreate(l) PROVE RecordsOK'
    BY <1>0, <1>15, FaultKindsGrow DEF LoseCreate, durable
  <1>16. ASSUME NEW l \in Launches, AdoptionDelayPasses(l) \/ AdoptionDelayTooShort(l)
         PROVE  RecordsOK'
    <2>1. Adoptable(l) /\ faults.kinds \subseteq faults'.kinds
      BY <1>16, FaultKindsGrow DEF AdoptionDelayPasses, AdoptionDelayTooShort
    <2>2. QED
      BY <2>1 DEF Adoptable, RecordsOK, remote
  <1>17. ASSUME NEW l \in Launches, JobEnds(l) PROVE RecordsOK'
    BY <1>17 DEF JobEnds, RecordsOK, durable
  <1>18. QED
    BY <1>1, <1>2, <1>3, <1>4, <1>5, <1>6, <1>7, <1>8, <1>9, <1>10, <1>11, <1>12,
       <1>13, <1>14, <1>15, <1>16, <1>17 DEF Next, Begin, Proceed

(* What no step takes back: a Job that exists never runs again once it has *)
(* ended, a receipt is never rewritten, a remembered failure stays.        *)
Keeps ==
    /\ \A l \in Launches :
          /\ jobs[l] > 0 => jobs'[l] > 0 /\ (l \in running' => l \in running)
          /\ receipt[l] # NoResult => receipt'[l] = receipt[l]
    /\ faults.kinds \subseteq faults'.kinds

(* What every step leaves as it is or moves forward.                       *)
LEMMA StepKeeps ==
    ASSUME TypeInv, FenceOK, RecordsOK, HandlerOK, [Next]_vars
    PROVE  Keeps
  <1> USE DEF TypeInv, TypeOK, Keeps
  <1>0. CASE /\ UNCHANGED <<receipt, jobs>> /\ running' \subseteq running
             /\ faults.kinds \subseteq faults'.kinds
    BY <1>0
  <1>1. CASE UNCHANGED vars
    BY <1>0, <1>1 DEF vars, durable, remote
  <1>2. CASE RequestCancel \/ (\E l \in Launches : RecordLaunch(l))
    BY <1>0, <1>2 DEF RequestCancel, RecordLaunch, remote
  <1>3. ASSUME NEW l \in Launches, Begin(l) \/ JobEnds(l) PROVE Keeps
    BY <1>0, <1>3 DEF Begin, BeginLaunch, BeginObserve, BeginJobCancel, JobEnds, durable,
                      remote
  <1>4. ASSUME NEW l \in Launches, JobCancelFails(l) \/ LoseCreate(l) PROVE Keeps
    BY <1>0, <1>4, FaultKindsGrow DEF JobCancelFails, LoseCreate, durable, remote
  <1>5. CASE \/ BeginCampaignCancel \/ BeginReplay \/ AdoptFenced \/ SendCreate
             \/ CreateAnswered \/ Probe \/ Advance \/ MarkAdvanced \/ WriteFence
    BY <1>0, <1>5 DEF BeginCampaignCancel, BeginReplay, AdoptFenced, SendCreate, Probe,
                      CreateAnswered, Advance, MarkAdvanced, WriteFence, durable, remote
  <1>6. CASE CreateAmbiguous \/ ListFails \/ FailBeforeCreate \/ Crash
    BY <1>0, <1>6, FaultKindsGrow
       DEF CreateAmbiguous, ListFails, FailBeforeCreate, Crash, durable, remote
  <1>7. CASE WriteReceipt
    <2>1. cur \in pending /\ UNCHANGED <<jobs, running, faults>>
      BY <1>7 DEF WriteReceipt, HandlerOK, remote
    <2>2. cur.kind = "job.launch" =>
             /\ cur.of \in Launches /\ receipt[cur.of] = NoResult
             /\ receipt' = [receipt EXCEPT ![cur.of] = result]
      BY <1>7, <2>1, ActionKinds, ActionNames DEF WriteReceipt, RecordsOK, RecordOK
    <2>3. cur.kind # "job.launch" => UNCHANGED receipt
      BY <1>7 DEF WriteReceipt
    <2>4. QED
      BY <2>1, <2>2, <2>3
  <1>8. ASSUME NEW l \in Launches, DeliverCreate(l) PROVE Keeps
    BY <1>8 DEF DeliverCreate, FenceOK, durable, process
  <1>9. ASSUME NEW l \in Launches, AdoptionDelayPasses(l) \/ AdoptionDelayTooShort(l)
        PROVE  Keeps
    BY <1>0, <1>9, FaultKindsGrow
       DEF AdoptionDelayPasses, AdoptionDelayTooShort, Adoptable, remote
  <1>10. QED
    BY <1>1, <1>2, <1>3, <1>4, <1>5, <1>6, <1>7, <1>8, <1>9 DEF Next, Proceed

(* So what a result says of its Job stays true.                            *)
LEMMA ResultKeepsFitting ==
    ASSUME TypeInv, RecordsOK, Keeps, NEW a \in Actions, NEW r, ResultFits(a, r)
    PROVE  ResultFits(a, r)'
  <1>1. a.kind # "campaign.cancel" => a.of \in Launches
    BY ActionKinds
  <1>2. a.kind \in {"job.observe", "job.cancel"} => jobs[a.of] > 0
    BY <1>1 DEF RecordsOK, RecordOK, ResultFits
  <1>3. a.kind # "campaign.cancel" /\ r = "ended" => a.of \notin running'
    BY <1>1, <1>2, ActionKinds DEF ResultFits, Keeps
  <1>4. QED
    BY <1>1, <1>3, ActionKinds DEF ResultFits, Keeps, NoResult

(* Receipts that wait for their marker can be replayed at any later time.  *)
LEMMA ReplayNext ==
    ASSUME TypeInv, TypeInv', FenceOK, RecordsOK, ReplayOK, HandlerOK, [Next]_vars
    PROVE  ReplayOK'
  <1>1. Keeps
    BY StepKeeps
  <1>2. ASSUME NEW u \in unadvanced
        PROVE  ResultFits(u.act, u.result)'
               /\ (u.act.kind = "job.launch" => receipt'[u.act.of] = u.result)
    <2>1. /\ u.act \in Actions /\ u.result \in Results /\ ResultFits(u.act, u.result)
          /\ u.act.kind = "job.launch" => receipt[u.act.of] = u.result
      BY DEF TypeInv, TypeOK, ReplayOK
    <2>2. ResultFits(u.act, u.result)'
      BY <1>1, <2>1, ResultKeepsFitting
    <2>3. u.act.kind = "job.launch" => receipt'[u.act.of] = u.result
      BY <1>1, <2>1, ActionKinds DEF Keeps, Results, NoResult
    <2>4. QED
      BY <2>2, <2>3
  <1>3. CASE WriteReceipt
    <2>1. ResultFits(cur, result)' /\ cur \in Actions
      BY <1>1, <1>3, ResultKeepsFitting DEF WriteReceipt, HandlerOK, TypeInv, TypeOK
    <2>2. cur.kind = "job.launch" => receipt'[cur.of] = result
      BY <1>3, ActionKinds DEF WriteReceipt, TypeInv, TypeOK
    <2>3. unadvanced' = unadvanced \cup {[act |-> cur, result |-> result]}
      BY <1>3 DEF WriteReceipt
    <2>4. ASSUME NEW u \in unadvanced', u \notin unadvanced
          PROVE  ResultFits(u.act, u.result)'
                 /\ (u.act.kind = "job.launch" => receipt'[u.act.of] = u.result)
      <3>1. u = [act |-> cur, result |-> result]
        BY <2>3, <2>4
      <3>2. u.act = cur /\ u.result = result /\ UNCHANGED <<cur, result>>
        BY <1>3, <3>1 DEF WriteReceipt
      <3>3. QED
        BY <2>1, <2>2, <3>2
    <2>5. QED
      BY <1>2, <2>4 DEF ReplayOK
  <1>4. CASE ~WriteReceipt
    <2>1. unadvanced' \subseteq unadvanced
      BY <1>4
         DEF Next, Begin, Proceed, RequestCancel, RecordLaunch, BeginLaunch, BeginObserve,
             BeginJobCancel, JobCancelFails, DeliverCreate, LoseCreate, JobEnds,
             AdoptionDelayPasses, AdoptionDelayTooShort, Adoptable, BeginCampaignCancel,
             AdoptFenced, Probe, WriteFence, SendCreate, CreateAnswered, CreateAmbiguous,
             Advance, MarkAdvanced, BeginReplay, ListFails, FailBeforeCreate, Crash, vars,
             durable
    <2>2. QED
      BY <1>2, <2>1 DEF ReplayOK
  <1>5. QED
    BY <1>3, <1>4

(* A handler finds what it left behind at its last await, whatever the Hub *)
(* and the operators did meanwhile.                                        *)
LEMMA HandlerNext ==
    ASSUME TypeInv, TypeInv', FenceOK, RecordsOK, ReplayOK, HandlerOK, [Next]_vars
    PROVE  HandlerOK'
  <1> USE DEF HandlerOK
  <1>k. Keeps
    BY StepKeeps
  <1>t. cur \in Actions /\ running \subseteq Launches /\ jobs \in [Launches -> Nat]
        /\ dispatch \in [Launches -> {"none", "waiting", "adoptable"}]
    BY DEF TypeInv, TypeOK
  <1>f. ASSUME pc \in {"adopt", "probe", "fence", "create", "await"}
        PROVE  cur.of \in Launches /\ cur.kind = "job.launch"
    BY <1>f, LaunchKind DEF TypeInv, HeldOK
  <1>1. CASE pc' = "idle"
    BY <1>1
  <1>2. CASE UNCHANGED <<process, unadvanced, dispatch>> /\ pending \subseteq pending'
    <2>1. pc' = "receipt" => ResultFits(cur, result)'
      BY <1>2, <1>k, <1>t, ResultKeepsFitting DEF process
    <2>2. UNCHANGED Renews(cur, result)
      BY <1>2 DEF process, Renews
    <2>3. QED
      BY <1>2, <2>1, <2>2 DEF process
  <1>3. CASE UNCHANGED vars
    BY <1>2, <1>3 DEF vars, durable
  <1>4. CASE RequestCancel \/ (\E l \in Launches : RecordLaunch(l))
    BY <1>2, <1>4 DEF RequestCancel, RecordLaunch
  <1>5. ASSUME NEW l \in Launches, DeliverCreate(l) \/ LoseCreate(l) \/ JobEnds(l)
        PROVE  HandlerOK'
    BY <1>2, <1>5 DEF DeliverCreate, LoseCreate, JobEnds, durable
  <1>6. ASSUME NEW l \in Launches, AdoptionDelayPasses(l) \/ AdoptionDelayTooShort(l)
        PROVE  HandlerOK'
    <2>1. Adoptable(l)
      BY <1>6 DEF AdoptionDelayPasses, AdoptionDelayTooShort
    <2>2. pc' = "receipt" => ResultFits(cur, result)'
      BY <2>1, <1>k, <1>t, ResultKeepsFitting DEF Adoptable, process
    <2>3. UNCHANGED <<pending, unadvanced, process>>
          /\ dispatch[l] = "waiting" /\ dispatch' = [dispatch EXCEPT ![l] = "adoptable"]
      BY <2>1 DEF Adoptable
    <2>4. UNCHANGED Renews(cur, result)
      BY <2>3 DEF process, Renews
    <2>5. QED
      BY <2>2, <2>3, <2>4, <1>t, <1>f DEF process
  <1>7. ASSUME NEW l \in Launches, BeginLaunch(l) PROVE HandlerOK'
    <2>1. Launch(l) \in pending' /\ cur' = Launch(l) /\ UNCHANGED <<dispatch, receipt, jobs>>
      BY <1>7 DEF BeginLaunch, durable, remote
    <2>2. pc' = "receipt" => result' = "suppressed"
      BY <1>7 DEF BeginLaunch
    <2>3. pc' = "receipt" => ResultFits(cur, result)'
      BY <2>1, <2>2, LaunchKind DEF ResultFits
    <2>4. QED
      BY <1>7, <2>1, <2>3, LaunchKind DEF BeginLaunch
  <1>8. ASSUME NEW l \in Launches, BeginObserve(l) PROVE HandlerOK'
    <2>1. receipt[l] \in {"running", "ended"}
      BY <1>8 DEF BeginObserve, RecordsOK, RecordOK
    <2>2. ResultFits(cur, result)'
      BY <1>8, <2>1, LaunchKind DEF BeginObserve, ResultFits, StateOf, durable, remote
    <2>3. QED
      BY <1>8, <2>2 DEF BeginObserve, durable
  <1>9. ASSUME NEW l \in Launches, BeginJobCancel(l) PROVE HandlerOK'
    <2>1. receipt[l] \in {"running", "ended"}
      BY <1>9 DEF BeginJobCancel, RecordsOK, RecordOK
    <2>2. ResultFits(cur, result)'
      BY <1>9, <2>1, LaunchKind DEF BeginJobCancel, ResultFits, durable
    <2>3. QED
      BY <1>9, <2>2 DEF BeginJobCancel, durable
  <1>10. ASSUME NEW l \in Launches, JobCancelFails(l) PROVE HandlerOK'
    <2>1. receipt[l] \in {"running", "ended"} /\ "cancelError" \in faults'.kinds
      BY <1>10, FaultKindsGrow DEF JobCancelFails, RecordsOK, RecordOK, Unmasked
    <2>2. ResultFits(cur, result)'
      BY <1>10, <2>1, LaunchKind DEF JobCancelFails, ResultFits, durable, remote
    <2>3. QED
      BY <1>10, <2>2 DEF JobCancelFails, durable
  <1>11. CASE BeginCampaignCancel
    <2>1. ResultFits(cur, result)'
      BY <1>11 DEF BeginCampaignCancel, CampaignCancel, ResultFits
    <2>2. QED
      BY <1>11, <2>1 DEF BeginCampaignCancel, durable
  <1>12. CASE BeginReplay
    <2>1. PICK u \in unadvanced : cur' = u.act /\ result' = u.result
      BY <1>12 DEF BeginReplay
    <2>2. u = [act |-> u.act, result |-> u.result]
      BY DEF TypeInv, TypeOK
    <2>3. QED
      BY <1>12, <2>1, <2>2 DEF BeginReplay, durable
  <1>13. ASSUME NEW r, Conclude(r), UNCHANGED <<pending, receipt, jobs, running>>,
                pc \in {"adopt", "probe", "create", "await"},
                r \in {"running", "ended"} => jobs[cur.of] > 0,
                r = "ended" => cur.of \notin running
         PROVE  HandlerOK'
    <2>1. ResultFits(cur, result)'
      BY <1>13, <1>f DEF Conclude, ResultFits
    <2>2. QED
      BY <1>13, <2>1 DEF Conclude
  <1>14. CASE AdoptFenced
    BY <1>1, <1>13, <1>14, <1>f, <1>t DEF AdoptFenced, StateOf, Idle, durable, remote
  <1>15. CASE Probe
    <2>1. CASE jobs[cur.of] = 0
      BY <1>15, <2>1 DEF Probe, durable
    <2>2. CASE jobs[cur.of] = 1
      <3>1. Conclude(StateOf(cur.of)) /\ UNCHANGED <<durable, remote>>
        BY <1>15, <2>2 DEF Probe
      <3>2. QED
        BY <1>13, <1>15, <2>2, <3>1 DEF Probe, StateOf, durable, remote
    <2>3. CASE jobs[cur.of] \notin {0, 1}
      BY <1>1, <1>15, <2>3 DEF Probe, Idle
    <2>4. QED
      BY <2>1, <2>2, <2>3
  <1>16. CASE WriteFence
    BY <1>1, <1>16 DEF WriteFence, Idle, remote
  <1>17. CASE SendCreate
    <2>1. CASE jobs[cur.of] = 0
      BY <1>17, <2>1 DEF SendCreate, durable
    <2>2. CASE jobs[cur.of] # 0
      <3>1. jobs[cur.of] > 0
        BY <1>17, <2>2, <1>t, <1>f DEF SendCreate
      <3>2. Conclude(IF jobs[cur.of] = 1 THEN StateOf(cur.of) ELSE "failed")
            /\ UNCHANGED <<durable, remote>>
        BY <1>17, <2>2 DEF SendCreate
      <3>3. QED
        BY <1>13, <1>17, <3>1, <3>2 DEF SendCreate, StateOf, durable, remote
    <2>3. QED
      BY <2>1, <2>2
  <1>18. CASE FailBeforeCreate
    BY <1>13, <1>18 DEF FailBeforeCreate, durable, remote
  <1>19. CASE CreateAnswered
    BY <1>13, <1>19 DEF CreateAnswered, StateOf, durable, remote
  <1>20. CASE CreateAmbiguous \/ ListFails \/ MarkAdvanced \/ Crash
    BY <1>1, <1>20 DEF CreateAmbiguous, ListFails, MarkAdvanced, Crash, Idle
  <1>21. CASE WriteReceipt
    BY <1>21 DEF WriteReceipt
  <1>22. CASE Advance
    <2>1. /\ pc' = "mark" /\ pc = "advance" /\ UNCHANGED <<cur, result, unadvanced>>
          /\ Renews(cur, result) => Observe(cur.of) \in pending'
      BY <1>22 DEF Advance, ContinueCancellation, Renews
    <2>2. UNCHANGED Renews(cur, result)
      BY <2>1 DEF Renews
    <2>3. QED
      BY <2>1, <2>2
  <1>23. QED
    BY <1>3, <1>4, <1>5, <1>6, <1>7, <1>8, <1>9, <1>10, <1>11, <1>12, <1>14, <1>15,
       <1>16, <1>17, <1>18, <1>19, <1>20, <1>21, <1>22 DEF Next, Begin, Proceed

(* A create request is answered for by its pending launch until it lands.  *)
LEMMA WireNext ==
    ASSUME TypeInv, TypeInv', FenceOK, RecordsOK, HandlerOK, WireOK, [Next]_vars
    PROVE  WireOK'
  <1>k. Keeps
    BY StepKeeps
  <1> SUFFICES ASSUME "lateDelivery" \notin faults'.kinds PROVE InFlightOK'
    BY DEF WireOK
  <1>i. InFlightOK
    BY <1>k DEF WireOK, Keeps
  <1>t. cur \in Actions /\ wire \subseteq Launches /\ jobs \in [Launches -> Nat]
        /\ requests \in [Launches -> Nat]
        /\ dispatch \in [Launches -> {"none", "waiting", "adoptable"}]
        /\ receipt \in [Launches -> Results \cup {NoResult}]
    BY DEF TypeInv, TypeOK
  <1>f. ASSUME pc \in {"adopt", "probe", "fence", "create", "await"}
        PROVE  /\ cur.of \in Launches /\ cur.kind = "job.launch"
               /\ cur = Launch(cur.of) /\ cur \in pending /\ receipt[cur.of] = NoResult
    BY <1>f, LaunchKind DEF TypeInv, HeldOK, HandlerOK, RecordsOK, RecordOK
  <1>1. CASE /\ UNCHANGED <<dispatch, receipt, jobs>> /\ wire' \subseteq wire
             /\ pending \subseteq pending' /\ pc' \notin {"create", "receipt"}
    BY <1>1, <1>i DEF InFlightOK
  <1>2. CASE /\ UNCHANGED <<dispatch, receipt, jobs, pc, cur, result>>
             /\ wire' \subseteq wire /\ pending \subseteq pending'
    BY <1>2, <1>i DEF InFlightOK
  <1>3. CASE /\ UNCHANGED <<dispatch, receipt, jobs, wire, pending>>
             /\ pc' = "receipt" /\ cur'.kind # "job.launch"
    BY <1>3, <1>i DEF InFlightOK
  <1>4. CASE UNCHANGED vars
    BY <1>2, <1>4 DEF vars, durable, remote, process
  <1>5. CASE RequestCancel \/ (\E l \in Launches : RecordLaunch(l))
    BY <1>2, <1>5 DEF RequestCancel, RecordLaunch, remote, process
  <1>6. ASSUME NEW l \in Launches, DeliverCreate(l) PROVE InFlightOK'
    <2>1. receipt[l] = NoResult /\ dispatch[l] = "waiting"
      BY <1>6, <1>i DEF DeliverCreate, InFlightOK, RecordsOK, RecordOK
    <2>2. QED
      BY <1>6, <1>i, <1>t, <2>1 DEF DeliverCreate, InFlightOK, durable, process
  <1>7. ASSUME NEW l \in Launches, LoseCreate(l) \/ JobEnds(l) PROVE InFlightOK'
    BY <1>2, <1>7 DEF LoseCreate, JobEnds, durable, process
  <1>8. ASSUME NEW l \in Launches, AdoptionDelayPasses(l) PROVE InFlightOK'
    <2>1. /\ UNCHANGED <<receipt, jobs, wire, pending, pc, cur, result>>
          /\ dispatch' = [dispatch EXCEPT ![l] = "adoptable"]
          /\ l \notin wire /\ ~(pc = "create" /\ cur = Launch(l))
      BY <1>8 DEF AdoptionDelayPasses, Adoptable, Sending, remote, process
    <2>2. QED
      BY <2>1, <1>i, <1>t, <1>f DEF InFlightOK
  <1>9. ASSUME NEW l \in Launches, AdoptionDelayTooShort(l) PROVE InFlightOK'
    BY <1>9, FaultKindsGrow DEF AdoptionDelayTooShort, Unmasked
  <1>10. ASSUME NEW l \in Launches, BeginLaunch(l) PROVE InFlightOK'
    <2>1. CASE pc' = "receipt"
      <3>1. /\ UNCHANGED <<dispatch, receipt, jobs, wire, pending>>
            /\ cur' = Launch(l) /\ result' = "suppressed" /\ dispatch[l] = "none"
        BY <1>10, <2>1 DEF BeginLaunch, durable, remote
      <3>2. jobs[l] = 0 /\ l \notin wire
        BY <3>1, <1>t DEF FenceOK
      <3>3. QED
        BY <2>1, <3>1, <3>2, <1>i, LaunchKind DEF InFlightOK
    <2>2. CASE pc' # "receipt"
      BY <1>1, <1>10, <2>2 DEF BeginLaunch, durable, remote
    <2>3. QED
      BY <2>1, <2>2
  <1>11. ASSUME NEW l \in Launches, BeginObserve(l) PROVE InFlightOK'
    BY <1>3, <1>11, LaunchKind DEF BeginObserve, durable, remote
  <1>12. ASSUME NEW l \in Launches, BeginJobCancel(l) PROVE InFlightOK'
    BY <1>3, <1>12, LaunchKind DEF BeginJobCancel, durable
  <1>13. ASSUME NEW l \in Launches, JobCancelFails(l) PROVE InFlightOK'
    BY <1>3, <1>13, LaunchKind DEF JobCancelFails, durable, remote
  <1>14. CASE BeginCampaignCancel
    BY <1>3, <1>14 DEF BeginCampaignCancel, CampaignCancel, durable, remote
  <1>15. CASE BeginReplay
    BY <1>1, <1>15 DEF BeginReplay, durable, remote
  <1>16. ASSUME NEW r, Conclude(r), UNCHANGED <<durable, remote>>,
                pc \in {"adopt", "probe", "create", "await"}, cur.of \notin wire,
                r \notin {"running", "ended"} => jobs[cur.of] = 0
         PROVE  InFlightOK'
    BY <1>16, <1>i DEF Conclude, InFlightOK, durable, remote
  <1>17. CASE AdoptFenced
    <2>1. cur.of \notin wire
      BY <1>17, <1>i DEF AdoptFenced, HandlerOK, InFlightOK
    <2>2. QED
      BY <1>1, <1>16, <1>17, <2>1 DEF AdoptFenced, StateOf, Idle, durable, remote
  <1>18. CASE Probe
    <2>1. cur.of \notin wire /\ jobs[cur.of] = 0
      BY <1>18, <1>f, <1>t DEF Probe, HandlerOK, FenceOK
    <2>2. QED
      BY <1>1, <1>18, <2>1 DEF Probe, durable, remote
  <1>19. CASE WriteFence
    <2>1. /\ UNCHANGED <<receipt, jobs, wire, pending, cur, result>>
          /\ dispatch[cur.of] = "none" /\ pc' = "create"
          /\ dispatch' = [dispatch EXCEPT ![cur.of] = "waiting"]
      BY <1>19 DEF WriteFence, HandlerOK, remote
    <2>2. QED
      BY <1>19, <2>1, <1>i, <1>f, <1>t DEF WriteFence, InFlightOK
  <1>20. CASE SendCreate
    <2>1. jobs[cur.of] = 0 /\ cur.of \notin wire
      BY <1>20, <1>f, <1>t DEF SendCreate, FenceOK
    <2>2. /\ wire' = wire \cup {cur.of} /\ pc' = "await"
          /\ UNCHANGED <<receipt, jobs, pending, dispatch, cur, result>>
      BY <1>20, <2>1 DEF SendCreate, durable
    <2>3. QED
      BY <1>20, <2>1, <2>2, <1>i, <1>f, <1>t DEF SendCreate, InFlightOK
  <1>21. CASE FailBeforeCreate
    <2>1. jobs[cur.of] = 0 /\ cur.of \notin wire
      BY <1>21, <1>f, <1>t DEF FailBeforeCreate, FenceOK
    <2>2. QED
      BY <1>16, <1>21, <2>1 DEF FailBeforeCreate
  <1>22. CASE CreateAnswered
    BY <1>16, <1>22 DEF CreateAnswered, StateOf
  <1>23. CASE CreateAmbiguous \/ ListFails \/ MarkAdvanced \/ Crash
    BY <1>1, <1>23 DEF CreateAmbiguous, ListFails, MarkAdvanced, Crash, Idle, durable, remote
  <1>24. CASE WriteReceipt
    <2>1. /\ pending' = pending \ {cur} /\ UNCHANGED <<dispatch, jobs, wire>>
          /\ pc = "receipt" /\ pc' = "advance"
      BY <1>24 DEF WriteReceipt, remote
    <2>2. CASE cur.kind = "job.launch"
      <3>1. /\ cur = Launch(cur.of) /\ cur.of \in Launches /\ cur.of \notin wire
            /\ result \notin {"running", "ended"} => jobs[cur.of] = 0
            /\ receipt' = [receipt EXCEPT ![cur.of] = result]
        BY <1>24, <2>1, <2>2, <1>i, <1>t, ActionKinds, ActionNames
           DEF WriteReceipt, InFlightOK
      <3>2. QED
        BY <2>1, <3>1, <1>i, <1>t, LaunchKind DEF InFlightOK
    <2>3. CASE cur.kind # "job.launch"
      BY <1>24, <2>1, <2>3, <1>i, <1>t, LaunchKind DEF WriteReceipt, InFlightOK
    <2>4. QED
      BY <2>2, <2>3
  <1>25. CASE Advance
    BY <1>1, <1>25 DEF Advance, ContinueCancellation, remote
  <1>26. QED
    BY <1>4, <1>5, <1>6, <1>7, <1>8, <1>9, <1>10, <1>11, <1>12, <1>13, <1>14, <1>15,
       <1>17, <1>18, <1>19, <1>20, <1>21, <1>22, <1>23, <1>24, <1>25
       DEF Next, Begin, Proceed

(* Observation is renewed before the receipt that asked for it is marked.  *)
LEMMA WatchNext ==
    ASSUME TypeInv, TypeInv', FenceOK, RecordsOK, ReplayOK, HandlerOK, WatchOK, [Next]_vars
    PROVE  WatchOK'
  <1> USE DEF WatchOK
  <1>t. /\ cur \in Actions /\ receipt \in [Launches -> Results \cup {NoResult}]
        /\ running \subseteq Launches /\ pending \subseteq Actions
    BY DEF TypeInv, TypeOK
  <1>1. CASE /\ running' \subseteq running /\ pending \subseteq pending'
             /\ UNCHANGED <<receipt, unadvanced>>
    BY <1>1
  <1>2. CASE UNCHANGED vars
    BY <1>1, <1>2 DEF vars, durable, remote
  <1>3. CASE RequestCancel \/ (\E l \in Launches : RecordLaunch(l))
    BY <1>1, <1>3 DEF RequestCancel, RecordLaunch, remote
  <1>4. ASSUME NEW l \in Launches, \/ Begin(l) \/ JobCancelFails(l) \/ LoseCreate(l)
                                   \/ JobEnds(l) \/ AdoptionDelayPasses(l)
                                   \/ AdoptionDelayTooShort(l)
        PROVE  WatchOK'
    BY <1>1, <1>4 DEF Begin, BeginLaunch, BeginObserve, BeginJobCancel, JobCancelFails,
                      LoseCreate, JobEnds, AdoptionDelayPasses, AdoptionDelayTooShort,
                      Adoptable, durable, remote
  <1>5. CASE \/ BeginCampaignCancel \/ BeginReplay \/ AdoptFenced \/ Probe \/ WriteFence
             \/ SendCreate \/ CreateAnswered \/ CreateAmbiguous \/ ListFails
             \/ FailBeforeCreate \/ Crash
    BY <1>1, <1>5 DEF BeginCampaignCancel, BeginReplay, AdoptFenced, Probe, WriteFence,
                      SendCreate, CreateAnswered, CreateAmbiguous, ListFails,
                      FailBeforeCreate, Crash, durable, remote
  <1>6. CASE Advance
    BY <1>1, <1>6 DEF Advance, ContinueCancellation, remote
  <1>7. ASSUME NEW l \in Launches, DeliverCreate(l) PROVE WatchOK'
    <2>1. receipt[l] \notin {"running", "ended"}
      BY <1>7 DEF DeliverCreate, FenceOK, RecordsOK, RecordOK, TypeInv, TypeOK
    <2>2. QED
      BY <1>7, <2>1 DEF DeliverCreate, durable
  <1>8. CASE WriteReceipt
    <2>1. /\ pending' = pending \ {cur} /\ UNCHANGED running
          /\ unadvanced' = unadvanced \cup {[act |-> cur, result |-> result]}
          /\ ResultFits(cur, result)
      BY <1>8 DEF WriteReceipt, HandlerOK, remote
    <2>2. ASSUME NEW l \in running, receipt'[l] \in {"running", "ended"}
          PROVE  \/ Observe(l) \in pending'
                 \/ \E u \in unadvanced' : /\ u.act.of = l
                                           /\ u.act.kind \in {"job.launch", "job.observe"}
      <3>1. CASE cur \in {Launch(l), Observe(l)}
        <4> DEFINE u == [act |-> cur, result |-> result]
        <4>1. u \in unadvanced' /\ u.act = cur
          BY <2>1
        <4>2. cur.of = l /\ cur.kind \in {"job.launch", "job.observe"}
          BY <3>1, <1>t, LaunchKind
        <4>3. QED
          BY <4>1, <4>2
      <3>2. CASE cur \notin {Launch(l), Observe(l)}
        <4>1. receipt'[l] = receipt[l]
          BY <1>8, <3>2, <1>t, ActionKinds, ActionNames DEF WriteReceipt
        <4>2. QED
          BY <2>1, <2>2, <3>2, <4>1
      <3>3. QED
        BY <3>1, <3>2
    <2>3. QED
      BY <2>1, <2>2
  <1>9. CASE MarkAdvanced
    <2>1. /\ unadvanced' = unadvanced \ {[act |-> cur, result |-> result]}
          /\ UNCHANGED <<pending, receipt, running>>
          /\ [act |-> cur, result |-> result] \in unadvanced
          /\ Renews(cur, result) => Observe(cur.of) \in pending
      BY <1>9 DEF MarkAdvanced, HandlerOK, remote
    <2>2. /\ ResultFits(cur, result)
          /\ cur.kind = "job.launch" => receipt[cur.of] = result
      BY <2>1 DEF ReplayOK
    <2>3. ASSUME NEW l \in running, receipt[l] \in {"running", "ended"}, cur.of = l,
                 cur.kind \in {"job.launch", "job.observe"}
          PROVE  Observe(l) \in pending
      BY <2>1, <2>2, <2>3 DEF Renews, ResultFits
    <2>4. QED
      BY <2>1, <2>3
  <1>10. QED
    BY <1>2, <1>3, <1>4, <1>5, <1>6, <1>7, <1>8, <1>9 DEF Next, Proceed

(* Nothing that can still happen after sealing starts or revives a Job.    *)
LEMMA SealNext ==
    ASSUME TypeInv, TypeInv', RecordsOK, HandlerOK, SealOK, [Next]_vars
    PROVE  SealOK'
  <1>t. /\ cur \in Actions /\ receipt \in [Launches -> Results \cup {NoResult}]
        /\ pending \subseteq Actions
        /\ dispatch \in [Launches -> {"none", "waiting", "adoptable"}]
    BY DEF TypeInv, TypeOK
  <1>1. CASE Advance
    <2>1. /\ UNCHANGED <<dispatch, receipt, cancelled, seenEnd>> /\ pc' = "mark"
          /\ \A l \in Launches : Launch(l) \in pending' => Launch(l) \in pending
      BY <1>1, <1>t, LaunchKind, ActionKinds
         DEF Advance, ContinueCancellation, ActiveJobs
    <2>2. CASE sealed
      BY <2>1, <2>2 DEF SealOK, Quiet
    <2>3. CASE ~sealed
      <3>1. sealed' => Unresolved = {} /\ ActiveJobs = {} /\ cancelled = "received"
        BY <1>1, <2>3 DEF Advance, ContinueCancellation
      <3>2. QED
        BY <2>1, <3>1 DEF SealOK, Quiet, Unresolved, ActiveJobs
    <2>4. QED
      BY <2>2, <2>3
  <1>2. CASE ~Advance /\ ~sealed
    <2>1. sealed' = sealed
      BY <1>2
         DEF Next, Begin, Proceed, RequestCancel, RecordLaunch, BeginLaunch, BeginObserve,
             BeginJobCancel, JobCancelFails, DeliverCreate, LoseCreate, JobEnds,
             AdoptionDelayPasses, AdoptionDelayTooShort, Adoptable, BeginCampaignCancel,
             AdoptFenced, Probe, WriteFence, SendCreate, CreateAnswered, CreateAmbiguous,
             WriteReceipt, MarkAdvanced, BeginReplay, ListFails, FailBeforeCreate,
             Crash, vars, durable
    <2>2. QED
      BY <1>2, <2>1 DEF SealOK
  <1>3. CASE ~Advance /\ sealed
    <2> SUFFICES Quiet'
      BY DEF SealOK
    <2>q. Quiet
      BY <1>3 DEF SealOK
    <2>1. CASE /\ UNCHANGED <<cancelled, dispatch, receipt, seenEnd, pc, cur, result>>
               /\ pending' \subseteq pending
      BY <2>1, <2>q DEF Quiet
    <2>2. CASE /\ UNCHANGED <<cancelled, dispatch, receipt, seenEnd, pending>>
               /\ pc' \notin {"adopt", "probe", "fence", "create", "await"}
               /\ pc' = "receipt" => cur'.kind # "job.launch"
      BY <2>2, <2>q DEF Quiet
    <2>3. CASE UNCHANGED vars
      BY <2>1, <2>3 DEF vars, durable, process
    <2>4. CASE RequestCancel
      BY <2>4, <2>q DEF RequestCancel, Quiet
    <2>5. ASSUME NEW l \in Launches, RecordLaunch(l) PROVE Quiet'
      BY <2>5, <2>q, LaunchKind DEF RecordLaunch, Quiet, RecordsOK, RecordOK, process
    <2>6. ASSUME NEW l \in Launches, DeliverCreate(l) \/ LoseCreate(l) \/ JobEnds(l)
          PROVE  Quiet'
      BY <2>1, <2>6 DEF DeliverCreate, LoseCreate, JobEnds, durable, process
    <2>7. ASSUME NEW l \in Launches, AdoptionDelayPasses(l) \/ AdoptionDelayTooShort(l)
          PROVE  Quiet'
      <3>1. Adoptable(l)
        BY <2>7 DEF AdoptionDelayPasses, AdoptionDelayTooShort
      <3>2. QED
        BY <3>1, <2>q, <1>t DEF Adoptable, Quiet, process
    <2>8. ASSUME NEW l \in Launches, BeginLaunch(l) PROVE Quiet'
      <3>1. dispatch[l] = "none" /\ cancelled = "received"
        BY <2>8, <2>q DEF BeginLaunch, Quiet
      <3>2. /\ UNCHANGED <<cancelled, dispatch, receipt, seenEnd, pending>>
            /\ pc' = "receipt" /\ result' = "suppressed"
        BY <2>8, <3>1 DEF BeginLaunch, durable
      <3>3. QED
        BY <3>2, <2>q DEF Quiet
    <2>9. ASSUME NEW l \in Launches, BeginObserve(l) \/ BeginJobCancel(l) \/ JobCancelFails(l)
          PROVE  Quiet'
      BY <2>2, <2>9, LaunchKind DEF BeginObserve, BeginJobCancel, JobCancelFails, durable
    <2>10. CASE BeginCampaignCancel
      BY <2>2, <2>10 DEF BeginCampaignCancel, CampaignCancel, durable
    <2>11. CASE BeginReplay \/ MarkAdvanced \/ Crash
      BY <2>2, <2>11 DEF BeginReplay, MarkAdvanced, Crash, Idle, durable
    <2>12. CASE \/ AdoptFenced \/ Probe \/ WriteFence \/ SendCreate \/ CreateAnswered
                \/ CreateAmbiguous \/ ListFails \/ FailBeforeCreate
      BY <2>12, <2>q DEF AdoptFenced, Probe, WriteFence, SendCreate, CreateAnswered,
                         CreateAmbiguous, ListFails, FailBeforeCreate, Quiet
    <2>13. CASE WriteReceipt
      <3>1. /\ pending' \subseteq pending /\ pc = "receipt" /\ pc' = "advance"
            /\ UNCHANGED dispatch /\ cancelled' = "received"
            /\ seenEnd \subseteq seenEnd'
        BY <2>13, <2>q DEF WriteReceipt, Quiet
      <3>2. \A l \in Launches : receipt'[l] \in {receipt[l], "suppressed"}
        BY <2>13, <3>1, <2>q, <1>t DEF WriteReceipt, Quiet
      <3>3. QED
        BY <3>1, <3>2, <2>q DEF Quiet
    <2>14. QED
      BY <1>3, <2>3, <2>4, <2>5, <2>6, <2>7, <2>8, <2>9, <2>10, <2>11, <2>12, <2>13
         DEF Next, Begin, Proceed
  <1>4. QED
    BY <1>1, <1>2, <1>3

JobInv ==
    /\ TypeInv /\ FenceOK /\ RecordsOK /\ ReplayOK /\ HandlerOK
    /\ WireOK /\ WatchOK /\ SealOK

(* The inductive invariant of the Job lifecycle, established and kept.     *)
LEMMA JobInvInit == Init => JobInv
  <1> SUFFICES ASSUME Init PROVE JobInv
    OBVIOUS
  <1>1. TypeInv /\ FenceOK
    BY TypeInit, FenceInit
  <1>2. RecordsOK /\ ReplayOK /\ HandlerOK
    BY DEF Init, RecordsOK, RecordOK, ReplayOK, HandlerOK, NoResult
  <1>3. WireOK /\ WatchOK /\ SealOK
    BY DEF Init, WireOK, InFlightOK, WatchOK, SealOK
  <1>4. QED
    BY <1>1, <1>2, <1>3 DEF JobInv

(* Every step keeps all parts of the invariant.                            *)
LEMMA JobInvNext == JobInv /\ [Next]_vars => JobInv'
  <1> SUFFICES ASSUME JobInv, [Next]_vars PROVE JobInv'
    OBVIOUS
  <1>1. TypeInv' /\ FenceOK'
    BY TypeNext, FenceNext DEF JobInv
  <1>2. RecordsOK' /\ ReplayOK' /\ HandlerOK'
    BY <1>1, RecordsNext, ReplayNext, HandlerNext DEF JobInv
  <1>3. WireOK' /\ WatchOK' /\ SealOK'
    BY <1>1, WireNext, WatchNext, SealNext DEF JobInv
  <1>4. QED
    BY <1>1, <1>2, <1>3 DEF JobInv

(* A Job that a launch's receipt should answer for is never forgotten      *)
(* while it runs, for any launches and any failures but a create request   *)
(* that outlives the adoption delay.                                       *)
THEOREM JobsStayWatched == Spec => []NoStrandedJob
  <1>1. JobInv => NoStrandedJob
    <2> SUFFICES ASSUME JobInv, "lateDelivery" \notin faults.kinds, NEW l \in running,
                        receipt[l] # NoResult
                 PROVE  \/ Observe(l) \in pending
                        \/ \E u \in unadvanced : u.act.of = l /\ u.act.kind # "job.cancel"
      BY DEF NoStrandedJob
    <2>1. l \in Launches /\ jobs[l] > 0 /\ jobs[l] \in Nat
      BY DEF JobInv, TypeInv, TypeOK, RecordsOK, RecordOK
    <2>2. receipt[l] \in {"running", "ended"}
      BY <2>1 DEF JobInv, WireOK, InFlightOK
    <2>3. QED
      BY <2>2 DEF JobInv, WatchOK
  <1>2. QED
    BY <1>1, JobInvInit, JobInvNext, PTL DEF Spec

(* A sealed cancellation leaves no Job running and no create request on    *)
(* its way, whatever was half done when the operator cancelled.            *)
THEOREM SealedIsQuiet == Spec => []SealedHasNoJob
  <1>1. JobInv => SealedHasNoJob
    <2> SUFFICES ASSUME JobInv, sealed, faults.kinds = {}
                 PROVE  running = {} /\ wire = {}
      BY DEF SealedHasNoJob
    <2>q. Quiet /\ InFlightOK
      BY DEF JobInv, SealOK, WireOK
    <2>1. ASSUME NEW l \in wire PROVE FALSE
      BY <2>q DEF Quiet, InFlightOK, JobInv, TypeInv, TypeOK
    <2>2. ASSUME NEW l \in running PROVE FALSE
      <3>1. l \in Launches /\ RecordOK(l)
        BY DEF JobInv, TypeInv, TypeOK, RecordsOK
      <3>2. jobs[l] > 0 /\ jobs[l] \in Nat /\ requests[l] \in Nat /\ jobs[l] <= requests[l]
        BY <3>1 DEF RecordOK, JobInv, TypeInv, TypeOK, FenceOK
      <3>3. dispatch[l] # "none"
        BY <3>1, <3>2 DEF JobInv, FenceOK
      <3>4. receipt[l] # NoResult
        BY <3>1, <3>3, <2>q DEF RecordOK, Quiet
      <3>5. receipt[l] \in {"running", "ended"}
        BY <3>1, <3>2, <3>4, <2>q DEF InFlightOK
      <3>6. QED
        BY <3>1, <3>5, <2>q DEF Quiet, RecordOK
    <2>3. QED
      BY <2>1, <2>2
  <1>2. QED
    BY <1>1, JobInvInit, JobInvNext, PTL DEF Spec

-----------------------------------------------------------------------------
(* The budget.  What a campaign has promised stays within its ceiling.     *)
(*                                                                         *)
(* The ceiling alone is not inductive: an operation that has passed its    *)
(* check writes later, in one or two records.  The strengthening says how  *)
(* much room an admitted operation still has in front of it, and that      *)
(* nothing but initial reservations happens before the workers start.      *)
(*                                                                         *)
(* That the assertion of the projection holds needs a second one: what     *)
(* each Sandbox still has reserved is part of the sum, from its            *)
(* reservation to its release.                                             *)

(* Before the workers start, only initial reservations are on record.      *)
Untouched ==
    initial < InitialJobs =>
        /\ op = NoOp /\ reported = {} /\ secured = {}
        /\ \A s \in Sandboxes : sandbox[s] = "none"
        /\ reserved = initial * JobReservation

(* The room checked by an admission is still there when it writes.         *)
RoomLeft ==
    /\ op.step = "catchUp" => reserved + op.amount + Amount(op.id) <= Ceiling
    /\ op.step = "reserve" => reserved + Amount(op.id) <= Ceiling

LedgerInv == BudgetTypeOK /\ Untouched /\ RoomLeft /\ PromisesWithinCeiling

(* One more initial reservation still fits under the ceiling.              *)
LEMMA InitialFits ==
    ASSUME NEW n \in Nat, n < InitialJobs
    PROVE  /\ n * JobReservation + JobReservation = (n + 1) * JobReservation
           /\ n * JobReservation + JobReservation <= Ceiling
<1>1. InitialJobs \in Nat /\ JobReservation \in Nat /\ Ceiling \in Nat
  BY AmountsAssumption
<1>2. n * JobReservation + JobReservation = (n + 1) * JobReservation
  BY <1>1, SMT
<1>3. (n + 1) * JobReservation <= InitialJobs * JobReservation
  <2> DEFINE d == InitialJobs - (n + 1)
  <2>1. d \in Nat
    BY <1>1, SMT
  <2>2. d * JobReservation \in Nat
    BY <1>1, <2>1, SMT
  <2>3. InitialJobs * JobReservation = (n + 1) * JobReservation + d * JobReservation
    BY <1>1, <2>1, SMT
  <2>4. (n + 1) * JobReservation \in Nat
    BY <1>1, SMT
  <2> HIDE DEF d
  <2> QED  BY <1>1, <2>2, <2>3, <2>4, SMT
<1>4. InitialJobs * JobReservation \in Nat /\ (n + 1) * JobReservation \in Nat
  BY <1>1, SMT
<1> QED  BY <1>1, <1>2, <1>3, <1>4, InitialAssumption, SMT

(* A new campaign has an empty ledger.                                     *)
LEMMA LedgerInit == BudgetInit => LedgerInv
<1> SUFFICES ASSUME BudgetInit PROVE LedgerInv
  OBVIOUS
<1>1. BudgetTypeOK
  BY AmountsAssumption DEF BudgetInit, BudgetTypeOK, NoOp, Absent, Ids
<1>2. Untouched
  BY AmountsAssumption DEF BudgetInit, Untouched
<1>3. RoomLeft /\ PromisesWithinCeiling
  BY AmountsAssumption DEF BudgetInit, RoomLeft, NoOp, PromisesWithinCeiling
<1> QED  BY <1>1, <1>2, <1>3 DEF LedgerInv

(* Amounts are natural numbers, and so is what the records add up to.      *)
LEMMA Sums ==
    ASSUME BudgetTypeOK
    PROVE  /\ Observed \in Nat /\ Overage \in Nat /\ Committed \in Int
           /\ \A i \in Ids : Amount(i) \in Nat
           /\ reserved <= Committed /\ attemptCost <= Observed
           /\ Overage > 0 => reserved + Overage = Committed
BY AmountsAssumption DEF BudgetTypeOK, Observed, Overage, Committed, Larger, Amount, Ids

(* Each step keeps the ledger within its ceiling.                          *)
LEMMA LedgerNext == LedgerInv /\ [BudgetNext]_budgetVars => LedgerInv'
<1> SUFFICES ASSUME LedgerInv, [BudgetNext]_budgetVars PROVE LedgerInv'
  OBVIOUS
<1> USE AmountsAssumption
<1>0. BudgetTypeOK /\ Untouched /\ RoomLeft /\ PromisesWithinCeiling
  BY DEF LedgerInv
<1>s. /\ Observed \in Nat /\ Overage \in Nat /\ Committed \in Int
      /\ \A i \in Ids : Amount(i) \in Nat
      /\ reserved <= Committed /\ attemptCost <= Observed
      /\ Overage > 0 => reserved + Overage = Committed
  BY <1>0, Sums
<1>1. CASE ReserveInitial
  <2>1. /\ reserved' = initial' * JobReservation /\ reserved' <= Ceiling
    BY <1>0, <1>1, InitialFits DEF ReserveInitial, BudgetTypeOK, Untouched
  <2>2. BudgetTypeOK'
    BY <1>0, <1>1, <2>1 DEF ReserveInitial, BudgetTypeOK
  <2>3. Untouched' /\ RoomLeft'
    BY <1>0, <1>1, <2>1 DEF ReserveInitial, Untouched, RoomLeft, NoOp
  <2> QED  BY <1>0, <1>1, <2>1, <2>2, <2>3 DEF ReserveInitial, LedgerInv, PromisesWithinCeiling
<1>2. CASE CatchUp
  <2>1. op' \in {[op EXCEPT !.step = "reserve"], NoOp} /\ op # NoOp
    BY <1>2 DEF CatchUp, Continue, NoOp
  <2>2. op \in [step : Steps \ {"none"}, id : Ids, amount : Nat]
    BY <1>0, <2>1 DEF BudgetTypeOK
  <2>3. reserved' \in Int /\ reserved' + Amount(op.id) <= Ceiling /\ reserved' <= Ceiling
    BY <1>0, <1>2, <1>s, <2>2 DEF CatchUp, BudgetTypeOK, RoomLeft
  <2>4. BudgetTypeOK'
    BY <1>0, <1>2, <2>1, <2>2, <2>3 DEF CatchUp, BudgetTypeOK, NoOp, Steps
  <2>5. Untouched' /\ RoomLeft'
    BY <1>0, <1>2, <2>1, <2>2, <2>3 DEF CatchUp, Untouched, RoomLeft, NoOp, Amount
  <2> QED  BY <1>0, <1>2, <2>3, <2>4, <2>5 DEF CatchUp, LedgerInv, PromisesWithinCeiling
<1>3. CASE Conflicts
  <2>1. BudgetTypeOK'
    BY <1>0, <1>3 DEF Conflicts, ledger, BudgetTypeOK, NoOp
  <2>2. Untouched' /\ RoomLeft'
    BY <1>0, <1>3 DEF Conflicts, ledger, Untouched, RoomLeft, NoOp
  <2> QED  BY <1>0, <1>3, <2>1, <2>2 DEF Conflicts, ledger, LedgerInv, PromisesWithinCeiling
<1>4. CASE Reserve
  <2>1. op \in [step : Steps \ {"none"}, id : Ids, amount : Nat] /\ op # NoOp
    BY <1>0, <1>4 DEF Reserve, BudgetTypeOK, NoOp
  <2>2. reserved' \in Int /\ reserved' <= Ceiling
    BY <1>0, <1>4, <1>s, <2>1 DEF Reserve, BudgetTypeOK, RoomLeft
  <2>3. BudgetTypeOK'
    BY <1>0, <1>4, <2>1, <2>2 DEF Reserve, BudgetTypeOK, NoOp
  <2>4. Untouched' /\ RoomLeft'
    BY <1>0, <1>4, <2>1 DEF Reserve, Untouched, RoomLeft, NoOp
  <2> QED  BY <1>0, <1>4, <2>2, <2>3, <2>4 DEF Reserve, LedgerInv, PromisesWithinCeiling
<1>5. CASE Reconcile
  <2>1. op' \in {[op EXCEPT !.step = "release"], NoOp} /\ op # NoOp
    BY <1>5 DEF Reconcile, Continue, NoOp
  <2>2. op \in [step : Steps \ {"none"}, id : Ids, amount : Nat] /\ op.id \in Sandboxes
    BY <1>0, <1>5, <2>1 DEF Reconcile, BudgetTypeOK
  <2>3. BudgetTypeOK'
    BY <1>0, <1>5, <2>1, <2>2 DEF Reconcile, BudgetTypeOK, NoOp, Steps, Larger
  <2>4. Untouched' /\ RoomLeft'
    BY <1>0, <1>5, <2>1, <2>2 DEF Reconcile, Untouched, RoomLeft, NoOp
  <2> QED  BY <1>0, <1>5, <2>3, <2>4 DEF Reconcile, LedgerInv, PromisesWithinCeiling
<1>6. CASE Release
  <2>1. op \in [step : Steps \ {"none"}, id : Ids, amount : Nat] /\ op.id \in Sandboxes /\ op # NoOp
    BY <1>0, <1>6 DEF Release, BudgetTypeOK, NoOp
  <2>2. BudgetTypeOK'
    BY <1>0, <1>6, <2>1 DEF Release, BudgetTypeOK, NoOp
  <2>3. Untouched' /\ RoomLeft'
    BY <1>0, <1>6, <2>1 DEF Release, Untouched, RoomLeft, NoOp
  <2>4. PromisesWithinCeiling'
    BY <1>0, <1>6 DEF Release, PromisesWithinCeiling, BudgetTypeOK
  <2> QED  BY <2>2, <2>3, <2>4 DEF LedgerInv
<1>7. CASE Restart
  <2>1. BudgetTypeOK'
    BY <1>0, <1>7 DEF Restart, ledger, BudgetTypeOK, NoOp
  <2>2. Untouched' /\ RoomLeft'
    BY <1>0, <1>7 DEF Restart, ledger, Untouched, RoomLeft, NoOp
  <2> QED  BY <1>0, <1>7, <2>1, <2>2 DEF Restart, ledger, LedgerInv, PromisesWithinCeiling
<1>8. ASSUME NEW i \in Ids, op = NoOp, AdmitReservation(i), initial = InitialJobs,
             UNCHANGED <<ledger, launched, closeCost, conflicts, crashes>>,
             sandbox' \in [Sandboxes -> {"none", "intent", "open", "failed", "rejected", "closed"}]
      PROVE  LedgerInv'
  <2>1. /\ op' \in [step : {"catchUp", "reserve"}, id : {i}, amount : {Overage}]
        /\ op'.step = "reserve" => Overage = 0
    BY <1>s, <1>8 DEF AdmitReservation
  <2>2. BudgetTypeOK'
    BY <1>0, <1>8, <1>s, <2>1 DEF ledger, BudgetTypeOK, Steps
  <2>3. Untouched'
    BY <1>0, <1>8 DEF ledger, Untouched, BudgetTypeOK
  <2>4. reserved + Overage + Amount(i) <= Ceiling
    BY <1>0, <1>s, <1>8 DEF AdmitReservation, BudgetTypeOK
  <2>5. RoomLeft'
    BY <1>0, <1>8, <1>s, <2>1, <2>4 DEF ledger, RoomLeft, Amount, BudgetTypeOK
  <2> QED  BY <1>0, <1>8, <2>2, <2>3, <2>5 DEF ledger, LedgerInv, PromisesWithinCeiling
<1>9. ASSUME NEW a \in Attempts, ReserveReplacement(a) PROVE LedgerInv'
  <2>1. initial = InitialJobs
    BY <1>0, <1>9 DEF ReserveReplacement, Untouched, BudgetTypeOK
  <2> QED  BY <1>0, <1>8, <1>9, <2>1 DEF ReserveReplacement, Ids, BudgetTypeOK
<1>10. ASSUME NEW a \in Attempts, LaunchReplacement(a) PROVE LedgerInv'
  <2>1. BudgetTypeOK'
    BY <1>0, <1>10 DEF LaunchReplacement, ledger, BudgetTypeOK
  <2> QED  BY <1>0, <1>10, <2>1
           DEF LaunchReplacement, ledger, LedgerInv, Untouched, RoomLeft, PromisesWithinCeiling
<1>11. ASSUME NEW a \in Attempts, NEW c \in Costs, Attempt(a, c) PROVE LedgerInv'
  <2>1. attemptCost' \in Nat /\ attemptCost' <= Ceiling
    BY <1>0, <1>s, <1>11 DEF Attempt, BudgetTypeOK, Larger
  <2>2. BudgetTypeOK'
    BY <1>0, <1>11, <2>1 DEF Attempt, BudgetTypeOK
  <2>3. Untouched' /\ RoomLeft'
    BY <1>0, <1>11 DEF Attempt, Running, Untouched, RoomLeft, BudgetTypeOK
  <2> QED  BY <1>0, <1>11, <2>1, <2>2, <2>3 DEF Attempt, LedgerInv, PromisesWithinCeiling
<1>12. ASSUME NEW s \in Sandboxes, SandboxIntent(s) PROVE LedgerInv'
  <2>1. BudgetTypeOK'
    BY <1>0, <1>12 DEF SandboxIntent, ledger, BudgetTypeOK
  <2>2. Untouched' /\ RoomLeft'
    BY <1>0, <1>12 DEF SandboxIntent, Running, ledger, Untouched, RoomLeft, BudgetTypeOK
  <2> QED  BY <1>0, <1>12, <2>1, <2>2 DEF SandboxIntent, ledger, LedgerInv, PromisesWithinCeiling
<1>13. ASSUME NEW s \in Sandboxes, ReserveSandbox(s) PROVE LedgerInv'
  <2>1. initial = InitialJobs
    BY <1>0, <1>13 DEF ReserveSandbox, Untouched, BudgetTypeOK
  <2>2. CASE AdmitReservation(s) /\ UNCHANGED sandbox
    BY <1>0, <1>8, <1>13, <2>1, <2>2 DEF ReserveSandbox, Ids, BudgetTypeOK
  <2>3. CASE sandbox' = [sandbox EXCEPT ![s] = "rejected"] /\ UNCHANGED op
    <3>1. BudgetTypeOK'
      BY <1>0, <1>13, <2>3 DEF ReserveSandbox, ledger, BudgetTypeOK
    <3>2. Untouched' /\ RoomLeft'
      BY <1>0, <1>13, <2>1, <2>3 DEF ReserveSandbox, ledger, Untouched, RoomLeft, BudgetTypeOK
    <3> QED  BY <1>0, <1>13, <2>3, <3>1, <3>2
             DEF ReserveSandbox, ledger, LedgerInv, PromisesWithinCeiling
  <2> QED  BY <1>13, <2>2, <2>3 DEF ReserveSandbox
<1>14. ASSUME NEW s \in Sandboxes, SandboxCreated(s) PROVE LedgerInv'
  <2>1. BudgetTypeOK'
    BY <1>0, <1>14 DEF SandboxCreated, ledger, BudgetTypeOK
  <2>2. Untouched' /\ RoomLeft'
    BY <1>0, <1>14 DEF SandboxCreated, ledger, Untouched, RoomLeft, BudgetTypeOK
  <2> QED  BY <1>0, <1>14, <2>1, <2>2 DEF SandboxCreated, ledger, LedgerInv, PromisesWithinCeiling
<1>15. ASSUME NEW s \in Sandboxes, NEW c \in SandboxCosts, SandboxClosed(s, c) PROVE LedgerInv'
  <2>1. BudgetTypeOK'
    BY <1>0, <1>15 DEF SandboxClosed, ledger, BudgetTypeOK
  <2>2. Untouched' /\ RoomLeft'
    BY <1>0, <1>15 DEF SandboxClosed, ledger, Untouched, RoomLeft, BudgetTypeOK
  <2> QED  BY <1>0, <1>15, <2>1, <2>2 DEF SandboxClosed, ledger, LedgerInv, PromisesWithinCeiling
<1>16. ASSUME NEW s \in Sandboxes, FinalizeSandbox(s) PROVE LedgerInv'
  <2>1. op' = [step |-> "reconcile", id |-> s, amount |-> Observed + closeCost[s]]
    BY <1>16 DEF FinalizeSandbox
  <2>2. BudgetTypeOK'
    BY <1>0, <1>s, <1>16, <2>1 DEF FinalizeSandbox, ledger, BudgetTypeOK, Ids, Steps
  <2>3. Untouched' /\ RoomLeft'
    BY <1>0, <1>16, <2>1 DEF FinalizeSandbox, ledger, Untouched, RoomLeft, BudgetTypeOK
  <2> QED  BY <1>0, <1>16, <2>2, <2>3 DEF FinalizeSandbox, ledger, LedgerInv, PromisesWithinCeiling
<1>17. CASE UNCHANGED budgetVars
  BY <1>0, <1>17 DEF budgetVars, ledger, LedgerInv, BudgetTypeOK, Untouched, RoomLeft, PromisesWithinCeiling, Amount
<1> QED
  BY <1>1, <1>2, <1>3, <1>4, <1>5, <1>6, <1>7, <1>9, <1>10, <1>11, <1>12, <1>13, <1>14,
     <1>15, <1>16, <1>17 DEF BudgetNext

(* Every reachable ledger is well typed: the running totals, the records   *)
(* and the operation in progress.                                          *)
THEOREM LedgerTypes == BudgetSpec => []BudgetTypeOK
<1>1. LedgerInv => BudgetTypeOK
  BY DEF LedgerInv
<1> QED  BY <1>1, LedgerInit, LedgerNext, PTL DEF BudgetSpec

(* Reservations and attempt costs never pass the ceiling: the checks in    *)
(* attemptSerialized, reserveReplacement and reserveSandbox, made before   *)
(* one or two later writes, are enough, restarts included.                 *)
THEOREM PromisesHold == BudgetSpec => []PromisesWithinCeiling
<1>1. LedgerInv => PromisesWithinCeiling
  BY DEF LedgerInv
<1> QED  BY <1>1, LedgerInit, LedgerNext, PTL DEF BudgetSpec

(* No Sandbox was refused and none was closed, so none had a cost.         *)
Undisturbed == \A s \in Sandboxes : sandbox[s] \notin {"rejected", "closed"}

(* Sandboxes whose reservation still counts.                               *)
Holding == (secured \cap Sandboxes) \ released

(* What the ledger knows of its Sandboxes: one that was created has its    *)
(* reservation, only a closed one has a cost, and an operation writes      *)
(* records that nobody wrote since it started.                             *)
SandboxesOK ==
    /\ \A s \in Sandboxes :
          /\ sandbox[s] \in {"open", "failed", "closed"} => s \in secured
          /\ sandbox[s] # "closed" => closeCost[s] = 0
    /\ op.step \in {"catchUp", "reserve"} => op.id \notin secured
    /\ op.step \in {"reconcile", "release"} =>
          op.id \notin released /\ sandbox[op.id] \in {"rejected", "failed", "closed"}
    /\ op.step = "reconcile" => op.amount = Observed + closeCost[op.id]

(* The reservations cover what the Sandboxes hold, and no reconcile record *)
(* passes the ceiling, while nothing was refused or closed.                *)
Covered ==
    /\ IsFiniteSet(secured)
    /\ Undisturbed => /\ reconciled <= Ceiling
                      /\ SandboxReservation * Cardinality(Holding) <= reserved

(* One reservation more or less, in multiples of a Sandbox's.              *)
LEMMA OneMore ==
    ASSUME NEW n \in Nat
    PROVE  /\ SandboxReservation * n \in Nat
           /\ SandboxReservation * (n + 1) = SandboxReservation * n + SandboxReservation
<1>1. SandboxReservation \in Nat
  BY AmountsAssumption
<1> QED  BY <1>1, SMT

(* Each step keeps the Sandboxes' records in their order.                  *)
LEMMA SandboxesNext ==
    ASSUME LedgerInv, SandboxesOK, [BudgetNext]_budgetVars
    PROVE  SandboxesOK'
<1>0. BudgetTypeOK
  BY DEF LedgerInv
<1>p. op # NoOp => op \in [step : Steps \ {"none"}, id : Ids, amount : Nat]
  BY <1>0 DEF BudgetTypeOK
<1> USE DEF SandboxesOK
<1>1. CASE ReserveInitial
  <2>1. op = NoOp
    BY <1>1 DEF ReserveInitial, LedgerInv, Untouched
  <2> QED  BY <1>1, <2>1 DEF ReserveInitial, NoOp
<1>2. CASE CatchUp
  <2>1. op' \in {[op EXCEPT !.step = "reserve"], NoOp} /\ op # NoOp
    BY <1>2 DEF CatchUp, Continue, NoOp
  <2> QED  BY <1>2, <1>p, <2>1 DEF CatchUp, NoOp
<1>3. CASE Conflicts \/ Restart
  BY <1>3 DEF Conflicts, Restart, NoOp, ledger
<1>4. CASE Reserve
  BY <1>4 DEF Reserve, NoOp
<1>5. CASE Reconcile
  <2>1. op' \in {[op EXCEPT !.step = "release"], NoOp} /\ op # NoOp
    BY <1>5 DEF Reconcile, Continue, NoOp
  <2> QED  BY <1>5, <1>p, <2>1 DEF Reconcile, NoOp
<1>6. CASE Release
  BY <1>6 DEF Release, NoOp
<1>7. ASSUME NEW i \in Ids \ secured, AdmitReservation(i),
             UNCHANGED <<ledger, closeCost, sandbox>>
      PROVE  SandboxesOK'
  <2>1. op'.step \in {"catchUp", "reserve"} /\ op'.id = i
    BY <1>7 DEF AdmitReservation
  <2> QED  BY <1>7, <2>1 DEF ledger
<1>8. ASSUME NEW a \in Attempts, ReserveReplacement(a) PROVE SandboxesOK'
  BY <1>7, <1>8 DEF ReserveReplacement, Ids
<1>9. ASSUME NEW a \in Attempts, LaunchReplacement(a) PROVE SandboxesOK'
  BY <1>9 DEF LaunchReplacement, ledger, Observed
<1>10. ASSUME NEW a \in Attempts, NEW c \in Costs, Attempt(a, c) PROVE SandboxesOK'
  BY <1>10 DEF Attempt, NoOp
<1>11. ASSUME NEW s \in Sandboxes, SandboxIntent(s) PROVE SandboxesOK'
  BY <1>0, <1>11 DEF SandboxIntent, ledger, Observed, BudgetTypeOK
<1>12. ASSUME NEW s \in Sandboxes, ReserveSandbox(s) PROVE SandboxesOK'
  <2>1. CASE AdmitReservation(s) /\ UNCHANGED sandbox
    BY <1>7, <1>12, <2>1 DEF ReserveSandbox, Ids
  <2>2. CASE sandbox' = [sandbox EXCEPT ![s] = "rejected"] /\ UNCHANGED op
    BY <1>0, <1>12, <2>2 DEF ReserveSandbox, ledger, NoOp, BudgetTypeOK
  <2> QED  BY <1>12, <2>1, <2>2 DEF ReserveSandbox
<1>13. ASSUME NEW s \in Sandboxes, SandboxCreated(s) PROVE SandboxesOK'
  BY <1>0, <1>13 DEF SandboxCreated, ledger, Observed, BudgetTypeOK
<1>14. ASSUME NEW s \in Sandboxes, NEW c \in SandboxCosts, SandboxClosed(s, c)
       PROVE  SandboxesOK'
  BY <1>0, <1>14 DEF SandboxClosed, ledger, Observed, BudgetTypeOK
<1>15. ASSUME NEW s \in Sandboxes, FinalizeSandbox(s) PROVE SandboxesOK'
  <2>1. op' = [step |-> "reconcile", id |-> s, amount |-> Observed + closeCost[s]]
    BY <1>15 DEF FinalizeSandbox
  <2> QED  BY <1>15, <2>1 DEF FinalizeSandbox, ledger, Observed
<1>16. CASE UNCHANGED budgetVars
  BY <1>16 DEF budgetVars, ledger, Observed
<1> QED
  BY <1>1, <1>2, <1>3, <1>4, <1>5, <1>6, <1>8, <1>9, <1>10, <1>11, <1>12, <1>13, <1>14,
     <1>15, <1>16 DEF BudgetNext

(* Each step keeps the reservations above what the Sandboxes hold.         *)
LEMMA CoveredNext ==
    ASSUME LedgerInv, SandboxesOK, Covered, [BudgetNext]_budgetVars
    PROVE  Covered'
<1> USE AmountsAssumption
<1>0. BudgetTypeOK /\ IsFiniteSet(secured)
  BY DEF LedgerInv, Covered
<1>p. op # NoOp => op \in [step : Steps \ {"none"}, id : Ids, amount : Nat]
  BY <1>0 DEF BudgetTypeOK
<1>h. IsFiniteSet(Holding) /\ Cardinality(Holding) \in Nat
  BY <1>0, FS_Subset, FS_CardinalityType DEF Holding
<1>u. Undisturbed' => Undisturbed
  BY <1>0 DEF Undisturbed, BudgetTypeOK, BudgetNext, budgetVars, ReserveInitial, CatchUp, Conflicts, Reserve,
              Reconcile, Release, Restart, ReserveReplacement, LaunchReplacement, Attempt,
              SandboxIntent, ReserveSandbox, SandboxCreated, FinalizeSandbox, SandboxClosed
<1>1. CASE UNCHANGED <<secured, released, reconciled>> /\ reserved' \in Int /\ reserved <= reserved'
  <2>1. UNCHANGED Holding
    BY <1>1 DEF Holding
  <2>2. SandboxReservation * Cardinality(Holding) \in Nat /\ reserved \in Int
        /\ reconciled \in Nat
    BY <1>0, <1>h, OneMore DEF BudgetTypeOK
  <2> QED  BY <1>1, <1>u, <2>1, <2>2 DEF Covered
<1>2. CASE ReserveInitial
  BY <1>0, <1>1, <1>2 DEF ReserveInitial, BudgetTypeOK
<1>3. CASE CatchUp
  BY <1>0, <1>1, <1>3, <1>p DEF CatchUp, BudgetTypeOK, NoOp
<1>4. CASE Conflicts \/ Restart
  BY <1>0, <1>1, <1>4 DEF Conflicts, Restart, ledger, BudgetTypeOK
<1>5. CASE Reserve
  <2>1. op.id \in Ids /\ op.id \notin secured /\ secured' = secured \cup {op.id}
        /\ reserved' = reserved + Amount(op.id) /\ UNCHANGED <<released, reconciled>>
    BY <1>5, <1>p DEF Reserve, SandboxesOK, NoOp
  <2>2. IsFiniteSet(secured')
    BY <1>0, <2>1, FS_AddElement
  <2>3. CASE op.id \in Attempts
    <3>1. UNCHANGED Holding
      BY <2>1, <2>3, NamesAssumption DEF Holding
    <3>2. reserved' \in Int /\ reserved \in Int /\ reserved <= reserved'
          /\ reconciled \in Nat
      BY <1>0, <2>1, <2>3 DEF Amount, BudgetTypeOK
    <3>3. SandboxReservation * Cardinality(Holding) \in Nat
      BY <1>h, OneMore
    <3> QED  BY <1>u, <2>1, <2>2, <3>1, <3>2, <3>3 DEF Covered
  <2>4. CASE op.id \in Sandboxes
    <3>1. Holding' = Holding \/ Holding' = Holding \cup {op.id}
      BY <2>1, <2>4 DEF Holding
    <3>2. Cardinality(Holding') \in {Cardinality(Holding), Cardinality(Holding) + 1}
      BY <1>h, <3>1, FS_AddElement
    <3>3. SandboxReservation * Cardinality(Holding')
             <= SandboxReservation * Cardinality(Holding) + SandboxReservation
      BY <1>h, <3>2, OneMore
    <3>4. reserved' = reserved + SandboxReservation /\ reserved \in Int
      BY <1>0, <2>1, <2>4, NamesAssumption DEF Amount, BudgetTypeOK
    <3>5. /\ SandboxReservation * Cardinality(Holding) \in Nat
          /\ SandboxReservation * Cardinality(Holding') \in Nat
      BY <1>h, <3>2, OneMore
    <3> QED  BY <1>u, <2>1, <2>2, <3>3, <3>4, <3>5 DEF Covered
  <2> QED  BY <2>1, <2>3, <2>4 DEF Ids
<1>6. CASE Reconcile
  <2>1. /\ UNCHANGED <<secured, released, reserved, sandbox>>
        /\ reconciled' = Larger(reconciled, op.amount)
        /\ op.amount = Observed + closeCost[op.id]
        /\ op.id \in Sandboxes
    BY <1>0, <1>6 DEF Reconcile, SandboxesOK, BudgetTypeOK
  <2>2. UNCHANGED Holding
    BY <2>1 DEF Holding
  <2>3. Undisturbed => op.amount = Observed
    BY <1>0, <2>1 DEF Undisturbed, SandboxesOK, BudgetTypeOK, Observed, Larger
  <2>4. Undisturbed => reconciled' <= Ceiling
    <3>1. Undisturbed => reconciled <= Ceiling /\ attemptCost <= Ceiling
      BY DEF Covered, LedgerInv, PromisesWithinCeiling
    <3> QED  BY <1>0, <2>1, <2>3, <3>1 DEF Observed, Larger, BudgetTypeOK
  <2> QED  BY <1>0, <1>u, <2>1, <2>2, <2>4 DEF Covered
<1>7. CASE Release
  <2>1. /\ op.id \in Sandboxes /\ op.id \notin released
        /\ sandbox[op.id] \in {"rejected", "failed", "closed"}
        /\ released' = released \cup {op.id} /\ reserved' = reserved - SandboxReservation
        /\ UNCHANGED <<secured, reconciled, sandbox>>
    BY <1>0, <1>7 DEF Release, SandboxesOK, BudgetTypeOK
  <2>2. Undisturbed => op.id \in Holding
    BY <2>1 DEF Undisturbed, SandboxesOK, Holding
  <2>3. Holding' = Holding \ {op.id}
    BY <2>1 DEF Holding
  <2>4. Undisturbed => /\ Cardinality(Holding') \in Nat
                       /\ Cardinality(Holding) = Cardinality(Holding') + 1
    <3>1. IsFiniteSet(Holding') /\ Cardinality(Holding') \in Nat
      BY <1>h, <2>3, FS_RemoveElement, FS_CardinalityType
    <3>2. Undisturbed => Cardinality(Holding') = Cardinality(Holding) - 1
      BY <1>h, <2>2, <2>3, FS_RemoveElement
    <3> QED  BY <1>h, <3>1, <3>2
  <2>5. Undisturbed => /\ SandboxReservation * Cardinality(Holding') \in Nat
                       /\ SandboxReservation * Cardinality(Holding)
                             = SandboxReservation * Cardinality(Holding') + SandboxReservation
    BY <2>4, OneMore
  <2>6. reserved \in Int /\ SandboxReservation \in Nat
    BY <1>0 DEF BudgetTypeOK
  <2> QED  BY <1>0, <1>u, <2>1, <2>5, <2>6 DEF Covered
<1>8. ASSUME NEW a \in Attempts, ReserveReplacement(a) \/ LaunchReplacement(a)
      PROVE  Covered'
  BY <1>0, <1>1, <1>8 DEF ReserveReplacement, LaunchReplacement, ledger, BudgetTypeOK
<1>9. ASSUME NEW a \in Attempts, NEW c \in Costs, Attempt(a, c) PROVE Covered'
  BY <1>0, <1>1, <1>9 DEF Attempt, BudgetTypeOK
<1>10. ASSUME NEW s \in Sandboxes, \/ SandboxIntent(s) \/ ReserveSandbox(s)
                                   \/ SandboxCreated(s) \/ FinalizeSandbox(s)
       PROVE  Covered'
  BY <1>0, <1>1, <1>10 DEF SandboxIntent, ReserveSandbox, SandboxCreated, FinalizeSandbox,
                           ledger, BudgetTypeOK
<1>11. ASSUME NEW s \in Sandboxes, NEW c \in SandboxCosts, SandboxClosed(s, c) PROVE Covered'
  BY <1>0, <1>1, <1>11 DEF SandboxClosed, ledger, BudgetTypeOK
<1>12. CASE UNCHANGED budgetVars
  BY <1>0, <1>1, <1>12 DEF budgetVars, ledger, BudgetTypeOK
<1> QED
  BY <1>2, <1>3, <1>4, <1>5, <1>6, <1>7, <1>8, <1>9, <1>10, <1>11, <1>12 DEF BudgetNext

(* The projection's assertion about the ledger cannot fail on account of   *)
(* Jobs: for every ceiling, every cost and every sequence of restarts, a   *)
(* campaign whose Sandboxes were neither refused nor closed keeps a sound  *)
(* ledger, and releases no more than it reserved.                          *)
THEOREM LedgerStaysSound == BudgetSpec => []JobsKeepLedgerSound
<1>1. BudgetInit => LedgerInv /\ SandboxesOK /\ Covered
  <2> SUFFICES ASSUME BudgetInit PROVE SandboxesOK /\ Covered
    BY LedgerInit
  <2>1. SandboxesOK
    BY DEF BudgetInit, SandboxesOK, NoOp
  <2>2. Holding = {}
    BY DEF BudgetInit, Holding
  <2> QED  BY <2>1, <2>2, AmountsAssumption, FS_EmptySet DEF BudgetInit, Covered
<1>2. LedgerInv /\ SandboxesOK /\ Covered /\ [BudgetNext]_budgetVars
         => (LedgerInv /\ SandboxesOK /\ Covered)'
  BY LedgerNext, SandboxesNext, CoveredNext
<1>3. LedgerInv /\ SandboxesOK /\ Covered => JobsKeepLedgerSound
  <2> SUFFICES ASSUME LedgerInv, Covered, Undisturbed PROVE Sound
    BY DEF JobsKeepLedgerSound, Undisturbed
  <2>1. SandboxReservation * Cardinality(Holding) \in Nat
    BY FS_Subset, FS_CardinalityType, OneMore DEF Covered, Holding
  <2>2. reserved >= 0 /\ reserved <= Ceiling /\ attemptCost <= Ceiling /\ reconciled <= Ceiling
    BY <2>1 DEF LedgerInv, BudgetTypeOK, PromisesWithinCeiling, Covered
  <2> QED  BY <2>2, AmountsAssumption
           DEF Sound, Committed, Observed, Larger, LedgerInv, BudgetTypeOK
<1> QED  BY <1>1, <1>2, <1>3, PTL DEF BudgetSpec
===============================================================================
