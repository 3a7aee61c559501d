---------------------------- MODULE ServingProfile ----------------------------
(* The profile Job: run_profile_worker measures a ladder of concurrencies    *)
(* through Harbor, repeats the last two that pass, selects one of them and   *)
(* writes a terminal marker. The Job may be killed at any step and started   *)
(* again; a new attempt replays the points the last one left on the Bucket.  *)
EXTENDS Integers, FiniteSets, FiniteSetsExt, Functions

CONSTANTS
    Ladder,          \* plan.candidate_concurrency
    Reps,            \* workload.boundary_repetitions
    Observations,    \* trials of one point
    MaxErrors,       \* failed trials the objective tolerates
    Rates,           \* throughputs a first measurement may find
    RepeatRates,     \* throughputs a repetition may find, or one nobody compares
    SmokeTries,      \* limits.max_attempts of a provider
    ProfilePlans,    \* targets and objectives to profile
    MaxCrashes,      \* bound: attempts killed
    MaxFaults        \* bound: calls that fail

ASSUME LadderAssumption ==
    /\ IsFiniteSet(Ladder) /\ Ladder # {} /\ Ladder \subseteq Nat \ {0}
    /\ Reps \in Nat \ {0} /\ Observations \in Nat \ {0}
    /\ MaxErrors \in 0..Observations /\ Rates \cup RepeatRates \subseteq Nat
    /\ SmokeTries \in Nat \ {0} /\ MaxCrashes \in Nat /\ MaxFaults \in Nat
    /\ ProfilePlans \subseteq [target : {"provider", "endpoint"},
                               objective : {"stable", "throughput"}]

VARIABLES
    pplan,    \* the profile plan
    disk,     \* the profile's prefix on the Bucket
    job,      \* the attempt that runs
    expired,  \* the deadline of lifecycle.json has passed
    spent     \* [crashes, faults] so far

pvars == <<pplan, disk, job, expired, spent>>

NoPoints == [k \in {} |-> 0]
NoChoice == 0
Idle == [pc |-> "idle", phase |-> "ladder", at |-> <<0, 0>>, todo |-> {},
         recovered |-> NoPoints, consumed |-> {}, points |-> NoPoints,
         held |-> 0, why |-> "none"]
NoProfile == [points |-> NoPoints, choice |-> NoChoice]
Blank == [stage |-> "absent", points |-> NoPoints, archived |-> {},
          profile |-> NoProfile, failure |-> FALSE, marker |-> "none"]

PInit == /\ pplan \in ProfilePlans /\ disk = Blank /\ job = Idle
         /\ expired = FALSE /\ spent = [crashes |-> 0, faults |-> 0]

Fault == spent.faults < MaxFaults /\ spent' = [spent EXCEPT !.faults = @ + 1]
Put(points, k, p) == [x \in DOMAIN points \cup {k} |-> IF x = k THEN p ELSE points[x]]

-----------------------------------------------------------------------------
(* Points.                                                                  *)
Point(st, errors, rate) == [st |-> st, errors |-> errors, rate |-> rate]
SkippedPoint == Point("skipped", 0, 0)

\* n of the point's trials succeeded, at this rate.
SummarizePoint(n, rate) ==
    IF n = 0 THEN Point("failed", Observations, 0)
    ELSE Point("completed", Observations - n, rate)

\* Every judge call of a point belongs to one of its trials, a trial that is
\* never judged has none; otherwise the evidence is refused and every trial
\* counts as failed.
Assigned(calls) == calls # "unassigned"
EvidenceHolds(calls) == Assigned(calls) /\ calls # "twice"

\* How Harbor's run of a point may end, and what the point then measures.
StagedPoint(how, calls, n, rate) ==
    IF how = "bundle" /\ EvidenceHolds(calls) THEN SummarizePoint(n, rate)
    ELSE SummarizePoint(0, 0)

RatesAt(k) == IF k[2] = 1 /\ pplan.objective # "stable" THEN Rates ELSE RepeatRates

StagedPoints(k) ==
    {StagedPoint(how, calls, n, rate) : how \in {"bundle", "error", "exit", "no-bundle"},
        calls \in {"exact", "unassigned", "twice"}, n \in 0..Observations, rate \in RatesAt(k)}

PointPassesObjective(p) == p.st = "completed" /\ p.errors <= MaxErrors

Passing(points) == {k \in DOMAIN points : PointPassesObjective(points[k])}
At(points, c) == {k \in DOMAIN points : k[1] = c}

-----------------------------------------------------------------------------
(* Selection.                                                               *)
EligibleRepetitionGroup(points, c) ==
    LET eligible == Passing(points) \cap At(points, c)
    IN IF \/ <<c, 1>> \notin DOMAIN points
          \/ /\ pplan.objective = "stable" \/ Cardinality(At(points, c)) > 1
             /\ Cardinality(eligible) # Reps
       THEN {} ELSE eligible

EligibleGroups(points) == {c \in Ladder : EligibleRepetitionGroup(points, c) # {}}

\* Means are compared by cross-multiplication.
Total(points, c) ==
    SumFunctionOnSet([k \in DOMAIN points |-> points[k].rate], EligibleRepetitionGroup(points, c))
Beats(points, c, d) ==
    LET n(x) == Cardinality(EligibleRepetitionGroup(points, x))
    IN \/ Total(points, c) * n(d) > Total(points, d) * n(c)
       \/ Total(points, c) * n(d) = Total(points, d) * n(c) /\ c <= d

SelectProfile(points) ==
    LET grouped == EligibleGroups(points)
    IN IF grouped = {} THEN NoChoice
       ELSE IF pplan.objective = "stable" THEN Max(grouped)
       ELSE CHOOSE c \in grouped : \A d \in grouped : Beats(points, c, d)

-----------------------------------------------------------------------------
(* The ladder.                                                              *)
\* The rates of the ladder's points, one for each concurrency that passed.
LadderRate(points, c) ==
    points[CHOOSE k \in Passing(points) \cap At(points, c) : TRUE].rate
Passed(points) == {k[1] : k \in Passing(points)}
LastOf(S, n) == {c \in S : Cardinality({d \in S : d > c}) < n}

\* Three rates in a row that do not rise end a ladder that looks for rates.
Flattened(points) ==
    LET last == LastOf(Passed(points), 3)
    IN /\ pplan.objective # "stable" /\ Cardinality(last) = 3
       /\ \A c, d \in last : c < d => LadderRate(points, d) <= LadderRate(points, c)

Above(c) == {d \in Ladder : d > c}

Boundary(j) == [j EXCEPT !.pc = "boundary", !.phase = "boundary",
                         !.todo = LastOf(Passed(j.points), 2)]

\* What the attempt does once it has the point at j.at.
Continue(j) ==
    LET c == j.at[1]
        passes == PointPassesObjective(j.points[j.at])
    IN IF j.phase = "boundary" THEN
                [j EXCEPT !.pc = "boundary", !.todo = IF passes THEN @ ELSE @ \ {c}]
       ELSE IF ~passes /\ j.at[2] = 1 THEN [j EXCEPT !.pc = "smoke"]
       ELSE IF ~passes \/ Flattened(j.points) \/ Above(c) = {} THEN Boundary(j)
       ELSE [j EXCEPT !.pc = "ladder", !.at = <<Min(Above(c)), 1>>]

Raise(why) == [job EXCEPT !.pc = "closing", !.why = why]

\* A point the deadline leaves out is written as skipped.
Skip(k) == disk' = [disk EXCEPT !.points = Put(@, k, SkippedPoint)]

LadderStep ==
    /\ job.pc = "ladder"
    /\ IF expired
       THEN /\ Skip(job.at)
            /\ job' = Boundary([job EXCEPT !.points = Put(@, job.at, SkippedPoint)])
       ELSE job' = [job EXCEPT !.pc = "obtain"] /\ UNCHANGED disk
    /\ UNCHANGED <<pplan, expired, spent>>

ReuseUncounted ==
    /\ job.pc = "obtain" /\ job.at \in DOMAIN job.recovered
    /\ job' = Continue([job EXCEPT !.points = Put(@, job.at, job.recovered[job.at])])
    /\ UNCHANGED <<pplan, disk, expired, spent>>

\* _obtain_point: a recovered point is reused and counted as consumed.
Reuse ==
    /\ job.pc = "obtain" /\ job.at \in DOMAIN job.recovered
    /\ job' = Continue([job EXCEPT !.consumed = @ \cup {job.at},
                                   !.points = Put(@, job.at, job.recovered[job.at])])
    /\ UNCHANGED <<pplan, disk, expired, spent>>

\* _run_point: the staged evidence is copied to the Bucket before the point
\* is written; a copy that an earlier attempt left there is an error.
RunPoint ==
    /\ job.pc = "obtain" /\ job.at \notin DOMAIN job.recovered
    /\ \/ /\ expired
          /\ job' = Raise("time") /\ UNCHANGED <<disk, spent>>
       \/ /\ ~expired /\ job.at \notin disk.archived
          /\ \E p \in StagedPoints(job.at) : job' = [job EXCEPT !.pc = "archived", !.held = p]
          /\ disk' = [disk EXCEPT !.archived = @ \cup {job.at}] /\ UNCHANGED spent
       \/ /\ ~expired /\ job.at \in disk.archived
          /\ job' = Raise("exists") /\ UNCHANGED <<disk, spent>>
       \/ /\ ~expired /\ Fault
          /\ job' = Raise("prepare") /\ UNCHANGED disk
    /\ UNCHANGED <<pplan, expired>>

WritePoint ==
    /\ job.pc = "archived"
    /\ disk' = [disk EXCEPT !.points = Put(@, job.at, job.held)]
    /\ job' = Continue([job EXCEPT !.points = Put(@, job.at, job.held), !.held = 0])
    /\ UNCHANGED <<pplan, expired, spent>>

\* Answers to one smoke request: the last try decides, or the first that is good.
SmokeRequest(answers) ==
    LET tries == IF pplan.target = "provider" THEN SmokeTries ELSE 1
    IN \E i \in 1..tries : answers[i]

\* _verify_smoke before a point is repeated: it needs time left and good answers.
VerifySmoke ==
    /\ job.pc = "smoke"
    /\ \E answers \in [1..SmokeTries -> BOOLEAN] :
          job' = IF expired THEN Raise("time")
                 ELSE IF SmokeRequest(answers) THEN
                        [job EXCEPT !.pc = "obtain", !.at = <<@[1], 2>>]
                 ELSE Raise("smoke")
    /\ UNCHANGED <<pplan, disk, expired, spent>>

\* The repetition a boundary concurrency needs next.
NextRep(points, c) == <<c, Max({k[2] : k \in At(points, c)}) + 1>>
Enough(points, c) == Cardinality(Passing(points) \cap At(points, c)) >= Reps

BoundaryStep ==
    /\ job.pc = "boundary" /\ job.todo # {}
    /\ LET c == Min(job.todo)
           k == NextRep(job.points, c)
       IN CASE Enough(job.points, c) ->
                 job' = [job EXCEPT !.todo = @ \ {c}] /\ UNCHANGED disk
            [] ~Enough(job.points, c) /\ expired ->
                 /\ Skip(k)
                 /\ job' = [job EXCEPT !.todo = @ \ {c},
                                       !.points = Put(@, k, SkippedPoint)]
            [] OTHER -> job' = [job EXCEPT !.pc = "obtain", !.at = k] /\ UNCHANGED disk
    /\ UNCHANGED <<pplan, expired, spent>>

LadderEndsTrusting ==
    /\ job.pc = "boundary" /\ job.todo = {}
    /\ job' = [job EXCEPT !.pc = "closing", !.why = "measured"]
    /\ UNCHANGED <<pplan, disk, expired, spent>>

\* _require_all_recovered_points_consumed
LadderEnds ==
    /\ job.pc = "boundary" /\ job.todo = {}
    /\ job' = IF DOMAIN job.recovered \subseteq job.consumed
              THEN [job EXCEPT !.pc = "closing", !.why = "measured"]
              ELSE Raise("unreachable")
    /\ UNCHANGED <<pplan, disk, expired, spent>>

-----------------------------------------------------------------------------
(* An attempt.                                                              *)
\* A first attempt makes the prefix, then writes the plan and the deadline.
\* One that is killed in between leaves a prefix no attempt accepts.
CreateDestination ==
    /\ job.pc = "idle" /\ disk.stage = "absent"
    /\ \/ /\ disk' = [disk EXCEPT !.stage = "open"]
          /\ job' = [Idle EXCEPT !.pc = "begin"] /\ UNCHANGED spent
       \/ /\ spent.crashes < MaxCrashes
          /\ \E s \in {"made", "planned"} : disk' = [disk EXCEPT !.stage = s]
          /\ spent' = [spent EXCEPT !.crashes = @ + 1] /\ UNCHANGED job
    /\ UNCHANGED <<pplan, expired>>

\* A later one takes up the points, or the selection, that are there.
RecoverDestination ==
    /\ job.pc = "idle" /\ disk.stage = "open" /\ disk.marker = "none"
    /\ job' = IF disk.profile = NoProfile
              THEN [Idle EXCEPT !.pc = "begin", !.recovered = disk.points]
              ELSE [Idle EXCEPT !.pc = "recheck"]
    /\ UNCHANGED <<pplan, disk, expired, spent>>

\* The deadline, the locked source, the transport and the first smoke check.
Begin ==
    /\ job.pc = "begin"
    /\ \/ /\ expired \* before the transport is opened: nothing to close
          /\ job' = [job EXCEPT !.pc = "failing", !.why = "time"] /\ UNCHANGED spent
       \/ /\ ~expired
          /\ job' = [job EXCEPT !.pc = "ladder", !.at = <<Min(Ladder), 1>>]
          /\ UNCHANGED spent
       \/ /\ ~expired /\ Fault /\ job' = Raise("transport")
    /\ UNCHANGED <<pplan, disk, expired>>

Unverified ==
    /\ pplan.target = "endpoint" /\ Fault
    /\ disk' = [disk EXCEPT !.failure = TRUE] /\ job' = Idle

\* _profile_transport closes: an endpoint is paused and verified, or the
\* attempt ends and the profile stays nonterminal.
CloseTransport ==
    /\ job.pc = "closing"
    /\ \/ /\ job' = [job EXCEPT !.pc = IF job.why = "measured" THEN "select" ELSE "failing"]
          /\ UNCHANGED <<disk, spent>>
       \/ Unverified
    /\ UNCHANGED <<pplan, expired>>

WriteSelection ==
    /\ job.pc = "select"
    /\ LET choice == SelectProfile(job.points)
       IN IF choice = NoChoice
          THEN job' = [job EXCEPT !.pc = "failing", !.why = "ineligible"] /\ UNCHANGED disk
          ELSE /\ disk' = [disk EXCEPT !.profile = [points |-> job.points,
                                                    choice |-> choice]]
               /\ job' = [job EXCEPT !.pc = "finalize"]
    /\ UNCHANGED <<pplan, expired, spent>>

\* A selection that is already there needs time left and a paused endpoint.
RecheckSelection ==
    /\ job.pc = "recheck"
    /\ \/ /\ job' = [job EXCEPT !.pc = IF expired THEN "failing" ELSE "finalize",
                                !.why = IF expired THEN "time" ELSE @]
          /\ UNCHANGED <<disk, spent>>
       \/ ~expired /\ Unverified
    /\ UNCHANGED <<pplan, expired>>

Finalize ==
    /\ job.pc = "finalize"
    /\ \/ disk' = [disk EXCEPT !.marker = "_SELECTED"] /\ job' = Idle /\ UNCHANGED spent
       \/ /\ Fault /\ UNCHANGED disk
          /\ job' = [job EXCEPT !.pc = "failing", !.why = "scrub"]
    /\ UNCHANGED <<pplan, expired>>

\* failure.json, the checksums, then _FAILED.
MarkFailed ==
    /\ job.pc = "failing"
    /\ disk' = [disk EXCEPT !.failure = TRUE, !.marker = "_FAILED"]
    /\ job' = Idle
    /\ UNCHANGED <<pplan, expired, spent>>

Killed ==
    /\ job.pc # "idle" /\ spent.crashes < MaxCrashes
    /\ spent' = [spent EXCEPT !.crashes = @ + 1]
    /\ job' = Idle
    /\ UNCHANGED <<pplan, disk, expired>>

Expire == ~expired /\ disk.marker = "none" /\ expired' = TRUE
          /\ UNCHANGED <<pplan, disk, job, spent>>

AttemptStep ==
    \/ Begin \/ LadderStep \/ Reuse \/ RunPoint \/ WritePoint \/ VerifySmoke
    \/ BoundaryStep \/ LadderEnds \/ CloseTransport \/ WriteSelection
    \/ RecheckSelection \/ Finalize \/ MarkFailed

PNext == CreateDestination \/ RecoverDestination \/ AttemptStep \/ Killed \/ Expire

PTypeOK ==
    /\ pplan \in ProfilePlans /\ expired \in BOOLEAN
    /\ disk.marker \in {"none", "_SELECTED", "_FAILED"}
    /\ disk.stage \in {"absent", "made", "planned", "open"}
    /\ DOMAIN disk.points \subseteq Ladder \X Nat
    /\ DOMAIN job.recovered \subseteq DOMAIN disk.points

-----------------------------------------------------------------------------
(* Properties.                                                              *)
\* deployment-profiling: the selection rests on the evidence of the prefix.
\* A selected profile names every point on the Bucket and no other, and its
\* concurrency passed Reps times, or once where only throughput is asked.
SelectedFromEvidence ==
    disk.marker = "_SELECTED" /\ disk.points # NoPoints =>
        /\ disk.profile.points = disk.points
        /\ LET c == disk.profile.choice
               n == Cardinality(Passing(disk.points) \cap At(disk.points, c))
           IN n = Reps \/ (pplan.objective # "stable" /\ n = 1)

\* The worker is restart-safe: a new attempt reaches every point an earlier
\* one wrote, unless the deadline passes while it replays them.
ReplayReachesAll == job.why = "unreachable" => expired
=============================================================================
