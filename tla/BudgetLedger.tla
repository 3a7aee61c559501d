---------------------------- MODULE BudgetLedger ----------------------------
(***************************************************************************)
(* The budget of one campaign (packages/control-core/src/service.ts:       *)
(* attemptSerialized, reserveReplacement, reserveSandbox,                  *)
(* finalizeSandboxBudget, markAdvanced; reconciler.ts:                     *)
(* reserveInitialAction; projection.ts: campaignView, verifyInvariants).   *)
(*                                                                         *)
(* Budget records are immutable and have deterministic identities: writing *)
(* one again is a no-op when the amount is the same and a conflict when it *)
(* is not.  budgetQueue runs one operation at a time, but an operation     *)
(* writes several records and a restart may come between two of them; it   *)
(* is then repeated from its receipt, over whatever was recorded since.    *)
(*                                                                         *)
(* The sums that campaignView takes over the records are kept as running   *)
(* totals.  A record that breaks the ledger's invariants stays in the      *)
(* Bucket, and the operation that wrote it throws.                         *)
(***************************************************************************)
EXTENDS Integers, FiniteSets

CONSTANTS
    Ceiling,            \* ceiling_microusd
    InitialJobs,        \* preparation and execution launches reserved at submission
    JobReservation,     \* reservation_microusd of the launch policy
    Attempts,           \* attempt identities
    Costs,              \* costs a worker may report
    Sandboxes,          \* sandbox.create actions
    SandboxReservation, \* reservation_microusd of the Sandbox policy
    SandboxCosts,       \* costs a closed Sandbox may have had
    MaxCrashes          \* bound: restarts in one behaviour

(* submitSerialized refuses a campaign whose initial launches exceed its   *)
(* ceiling; amounts are never negative.                                    *)
ASSUME AmountsAssumption ==
    /\ Ceiling \in Nat /\ InitialJobs \in Nat
    /\ JobReservation \in Nat \ {0} /\ SandboxReservation \in Nat
    /\ Costs \subseteq Nat /\ SandboxCosts \subseteq Nat
    /\ MaxCrashes \in Nat
ASSUME InitialAssumption == InitialJobs * JobReservation <= Ceiling
ASSUME NamesAssumption == Attempts \cap Sandboxes = {}

Absent == -1
Ids == Attempts \cup Sandboxes

VARIABLES
    initial,     \* initial reservations on record
    reserved,    \* reserve records minus release records
    attemptCost, \* sum of the recorded attempts' costs
    reconciled,  \* largest reconcile record
    reported,    \* attempts on record
    overage,     \* per attempt or Sandbox: its catch-up reservation
    secured,     \* attempts and Sandboxes with their own reservation
    launched,    \* attempts with a replacement launch
    sandbox,     \* per Sandbox: its create and close records
    closeCost,   \* per Sandbox: the cost in its last receipt
    sandboxSeen, \* per Sandbox: its reconcile record
    released,    \* Sandboxes with a release record
    conflicts,   \* history: records rewritten with another amount
    op,          \* the operation budgetQueue is running
    crashes

ledger == <<initial, reserved, attemptCost, reconciled, reported, overage, secured,
            sandboxSeen, released>>
budgetVars == <<ledger, launched, sandbox, closeCost, conflicts, op, crashes>>

Steps == {"none", "catchUp", "reserve", "reconcile", "release"}
NoOp == [step |-> "none", id |-> "nothing", amount |-> 0]

Larger(a, b) == IF a < b THEN b ELSE a
Observed == Larger(attemptCost, reconciled)
Committed == Larger(reserved, Observed)

(* projection.verifyInvariants.                                            *)
Sound == Committed <= Ceiling /\ reserved >= 0

Amount(i) == IF i \in Attempts THEN JobReservation ELSE SandboxReservation

BudgetTypeOK ==
    /\ initial \in 0..InitialJobs
    /\ reserved \in Int /\ attemptCost \in Nat /\ reconciled \in Nat
    /\ reported \subseteq Attempts /\ launched \subseteq Attempts
    /\ overage \in [Ids -> Nat \cup {Absent}]
    /\ secured \subseteq Ids /\ released \subseteq Sandboxes
    /\ sandbox \in [Sandboxes -> {"none", "intent", "open", "failed", "rejected", "closed"}]
    /\ closeCost \in [Sandboxes -> Nat]
    /\ sandboxSeen \in [Sandboxes -> Nat \cup {Absent}]
    /\ conflicts \subseteq Ids
    /\ op = NoOp \/ op \in [step : Steps \ {"none"}, id : Ids, amount : Nat]
    /\ op.step \in {"reconcile", "release"} => op.id \in Sandboxes
    /\ crashes \in 0..MaxCrashes

BudgetInit ==
    /\ initial = 0 /\ reserved = 0 /\ attemptCost = 0 /\ reconciled = 0
    /\ reported = {} /\ launched = {}
    /\ overage = [i \in Ids |-> Absent]
    /\ secured = {} /\ released = {}
    /\ sandbox = [s \in Sandboxes |-> "none"]
    /\ closeCost = [s \in Sandboxes |-> 0]
    /\ sandboxSeen = [s \in Sandboxes |-> Absent]
    /\ conflicts = {}
    /\ op = NoOp /\ crashes = 0

-----------------------------------------------------------------------------
(* reserveInitialAction, while the admission is advanced: no worker runs   *)
(* yet, and the ceiling was checked when the campaign was submitted.       *)
ReserveInitial ==
    /\ initial < InitialJobs
    /\ initial' = initial + 1
    /\ reserved' = reserved + JobReservation
    /\ UNCHANGED <<attemptCost, reconciled, reported, overage, secured, sandboxSeen,
                   released, launched, sandbox, closeCost, conflicts, op, crashes>>

Running == initial = InitialJobs

(* Mutant: only the cost of this attempt is compared with the ceiling.     *)
AttemptUnsummed(a, c) ==
    /\ Running /\ op = NoOp /\ a \notin reported
    /\ Larger(reserved, c) <= Ceiling
    /\ reported' = reported \cup {a}
    /\ attemptCost' = attemptCost + c
    /\ UNCHANGED <<initial, reserved, reconciled, overage, secured, sandboxSeen, released,
                   launched, sandbox, closeCost, conflicts, op, crashes>>

(* attemptSerialized: the cost of an attempt must fit under the ceiling.   *)
Attempt(a, c) ==
    /\ Running /\ op = NoOp /\ a \notin reported
    /\ Larger(reserved, Observed + c) <= Ceiling
    /\ reported' = reported \cup {a}
    /\ attemptCost' = attemptCost + c
    /\ UNCHANGED <<initial, reserved, reconciled, overage, secured, sandboxSeen, released,
                   launched, sandbox, closeCost, conflicts, op, crashes>>

-----------------------------------------------------------------------------
(* What was observed beyond the reservations.                              *)
Overage == Larger(0, Observed - reserved)

(* Mutant: the room left is computed from the reservations alone.          *)
AdmitReservationUnobserved(i) ==
    /\ reserved + Amount(i) <= Ceiling
    /\ op' = [step |-> IF Overage > 0 THEN "catchUp" ELSE "reserve",
              id |-> i, amount |-> Overage]

(* The common part of reserveReplacement and reserveSandbox.               *)
AdmitReservation(i) ==
    /\ Committed + Amount(i) <= Ceiling
    /\ op' = [step |-> IF Overage > 0 THEN "catchUp" ELSE "reserve",
              id |-> i, amount |-> Overage]

ReserveReplacement(a) ==
    /\ op = NoOp /\ a \in reported \ secured
    /\ AdmitReservation(a)
    /\ UNCHANGED <<ledger, launched, sandbox, closeCost, conflicts, crashes>>

(* Appending a record either continues the operation or throws.            *)
Continue(next) == op' = IF Sound' THEN next ELSE NoOp

CatchUp ==
    /\ op.step = "catchUp" /\ overage[op.id] \in {Absent, op.amount}
    /\ overage' = [overage EXCEPT ![op.id] = op.amount]
    /\ reserved' = IF overage[op.id] = Absent THEN reserved + op.amount ELSE reserved
    /\ UNCHANGED <<initial, attemptCost, reconciled, reported, secured, sandboxSeen, released,
                   launched, sandbox, closeCost, conflicts, crashes>>
    /\ Continue([op EXCEPT !.step = "reserve"])

(* createJson finds the same key with other bytes, and throws.             *)
Conflicts ==
    /\ \/ op.step = "catchUp" /\ overage[op.id] \notin {Absent, op.amount}
       \/ op.step = "reconcile" /\ sandboxSeen[op.id] \notin {Absent, op.amount}
    /\ conflicts' = conflicts \cup {op.id}
    /\ op' = NoOp
    /\ UNCHANGED <<ledger, launched, sandbox, closeCost, crashes>>

Reserve ==
    /\ op.step = "reserve"
    /\ secured' = secured \cup {op.id}
    /\ reserved' = reserved + Amount(op.id)
    /\ op' = NoOp
    /\ UNCHANGED <<initial, attemptCost, reconciled, reported, overage, sandboxSeen, released,
                   launched, sandbox, closeCost, conflicts, crashes>>

(* finishAttempt or retry_infrastructure writes the replacement launch.    *)
LaunchReplacement(a) ==
    /\ a \in (reported \cap secured) \ launched
    /\ launched' = launched \cup {a}
    /\ UNCHANGED <<ledger, sandbox, closeCost, conflicts, op, crashes>>

-----------------------------------------------------------------------------
(* admitSandboxCreate: the intent, then its reservation.  A refusal is     *)
(* recorded as a failed receipt, whose marker finalizes the budget.        *)
SandboxIntent(s) ==
    /\ Running /\ sandbox[s] = "none"
    /\ sandbox' = [sandbox EXCEPT ![s] = "intent"]
    /\ UNCHANGED <<ledger, launched, closeCost, conflicts, op, crashes>>

ReserveSandbox(s) ==
    /\ op = NoOp /\ sandbox[s] = "intent" /\ s \notin secured
    /\ \/ /\ AdmitReservation(s)
          /\ UNCHANGED sandbox
       \/ /\ Committed + Amount(s) > Ceiling
          /\ sandbox' = [sandbox EXCEPT ![s] = "rejected"]
          /\ UNCHANGED op
    /\ UNCHANGED <<ledger, launched, closeCost, conflicts, crashes>>

SandboxCreated(s) ==
    /\ sandbox[s] = "intent" /\ s \in secured
    /\ \E r \in {"open", "failed"} : sandbox' = [sandbox EXCEPT ![s] = r]
    /\ UNCHANGED <<ledger, launched, closeCost, conflicts, op, crashes>>

SandboxClosed(s, c) ==
    /\ sandbox[s] = "open"
    /\ sandbox' = [sandbox EXCEPT ![s] = "closed"]
    /\ closeCost' = [closeCost EXCEPT ![s] = c]
    /\ UNCHANGED <<ledger, launched, conflicts, op, crashes>>

(* markAdvanced of a create without a resource, or of a completed close.   *)
FinalizeSandbox(s) ==
    /\ op = NoOp /\ sandbox[s] \in {"rejected", "failed", "closed"} /\ s \notin released
    /\ op' = [step |-> "reconcile", id |-> s, amount |-> Observed + closeCost[s]]
    /\ UNCHANGED <<ledger, launched, sandbox, closeCost, conflicts, crashes>>

Reconcile ==
    /\ op.step = "reconcile" /\ sandboxSeen[op.id] \in {Absent, op.amount}
    /\ sandboxSeen' = [sandboxSeen EXCEPT ![op.id] = op.amount]
    /\ reconciled' = Larger(reconciled, op.amount)
    /\ UNCHANGED <<initial, reserved, attemptCost, reported, overage, secured, released,
                   launched, sandbox, closeCost, conflicts, crashes>>
    /\ Continue([op EXCEPT !.step = "release"])

Release ==
    /\ op.step = "release"
    /\ released' = released \cup {op.id}
    /\ reserved' = reserved - SandboxReservation
    /\ op' = NoOp
    /\ UNCHANGED <<initial, attemptCost, reconciled, reported, overage, secured, sandboxSeen,
                   launched, sandbox, closeCost, conflicts, crashes>>

Restart ==
    /\ crashes < MaxCrashes /\ op # NoOp
    /\ op' = NoOp
    /\ crashes' = crashes + 1
    /\ UNCHANGED <<ledger, launched, sandbox, closeCost, conflicts>>

-----------------------------------------------------------------------------
BudgetNext ==
    \/ ReserveInitial \/ CatchUp \/ Conflicts \/ Reserve \/ Reconcile \/ Release \/ Restart
    \/ \E a \in Attempts : \/ ReserveReplacement(a) \/ LaunchReplacement(a)
                           \/ \E c \in Costs : Attempt(a, c)
    \/ \E s \in Sandboxes : \/ SandboxIntent(s) \/ ReserveSandbox(s) \/ SandboxCreated(s)
                            \/ FinalizeSandbox(s)
                            \/ \E c \in SandboxCosts : SandboxClosed(s, c)

BudgetSpec == BudgetInit /\ [][BudgetNext]_budgetVars

-----------------------------------------------------------------------------
(* What is promised never exceeds the ceiling, whatever restarts cut in    *)
(* half and whatever else is refused: the checks of attempts, replacements *)
(* and Sandboxes leave no way around it.                                   *)
PromisesWithinCeiling == reserved <= Ceiling /\ attemptCost <= Ceiling

(* The projection asserts that neither reservations nor observed spend     *)
(* exceed the ceiling, and that no more is released than was reserved.  As *)
(* long as no Sandbox had a cost or was refused, the assertion cannot      *)
(* fail: the checks of attempts and replacements are enough for it.        *)
JobsKeepLedgerSound ==
    (\A s \in Sandboxes : sandbox[s] \notin {"rejected", "closed"}) => Sound
=============================================================================
