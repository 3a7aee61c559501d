------------------------------ MODULE Publication ------------------------------
(***************************************************************************)
(* The publication of results to two Dataset repositories of the Hub: the  *)
(* result Dataset, which holds one set of files per publication, and the   *)
(* index Dataset, whose rows name a revision of the first                  *)
(* (result_publisher.py, operations.py), together with catalogue decisions *)
(* and the one-time cutover of a legacy catalogue (catalog_cutover.py).    *)
(*                                                                         *)
(* A Dataset is a chain of commits.  Every writer holds a lease on the     *)
(* Dataset, reads its head, computes the files of its commit from that     *)
(* revision, and commits them with that head as parent.  Leases expire, so *)
(* two writers may overlap and only the parent check keeps them apart; no  *)
(* transaction spans the two Datasets.                                     *)
(*                                                                         *)
(* The rows of a publication are abstracted to `content`: the control      *)
(* commit every table, projection and index row carries, or that the files *)
(* are the ones of a legacy publication or of its migration.               *)
(***************************************************************************)
EXTENDS Naturals, FiniteSets, Sequences

CONSTANTS
    Workers,        \* processes that publish, decide or cut over
    Pubs,           \* publication identities
    RunOf,          \* [Pubs -> run]: run_id
    FinalPubs,      \* the publications whose publication_role is "final"
    CompletedAt,    \* [Pubs -> Nat]: completed_at, distinct
    Decisions,      \* [decision id -> [pub, action, at]]
    Legacies,       \* the sets of publications a legacy catalogue may hold
    Window,         \* _LARGEST_INDEX_WINDOW
    MaxAttempts,    \* _MAX_COMMIT_ATTEMPTS
    MaxFaults,      \* crashes, expiries, lost and refused calls, repetitions
    MaxControl,     \* bound on the commits of the control repository
    MaxPlans,       \* bound on the cutover plans an operator writes
    Absent,         \* no file, no row
    Legacy,         \* the content of a publication of the legacy catalogue
    Migrated,       \* its content once cut over
    Nobody,         \* the holder of a free lease
    Gone            \* a process that crashed while it held the lease

ASSUME PublicationAssumption ==
    /\ IsFiniteSet(Pubs) /\ IsFiniteSet(Workers)
    /\ FinalPubs \subseteq Pubs
    /\ CompletedAt \in [Pubs -> Nat]
    /\ \A p, q \in Pubs : CompletedAt[p] = CompletedAt[q] => p = q
    /\ Window \in Nat \ {0} /\ MaxAttempts \in Nat \ {0}
    /\ MaxControl \in Nat /\ MaxFaults \in Nat

VARIABLES
    results,    \* the result Dataset: the tree of each commit, oldest first
    index,      \* the index Dataset: the tree of its head
    lease,      \* the publisher leases of the coordination repository
    proc,       \* what each worker is doing
    control,    \* the head of the control repository
    plans,      \* the cutover plans written so far
    done,       \* the publications whose publish call returned, and the
                \* decisions an operator has asked for
    faults

vars == <<results, index, lease, proc, control, plans, done, faults>>

Content == {Legacy, Migrated} \cup 0..MaxControl
Datasets == {"index", "result"}
Rows == [pub : Pubs, rev : Nat \ {0}, content : Content]
NoWindow == {Absent}    \* a window file that is not there

\* A legacy catalogue and the decisions are about known publications, and
\* neither a row nor a decision stands for its absence.
ASSUME RecordsAssumption ==
    /\ Legacies \subseteq SUBSET Pubs
    /\ \A d \in DOMAIN Decisions :
         /\ Decisions[d] \in [pub : Pubs, action : {"withdraw", "promote"}, at : Nat]
         /\ Decisions[d] # Absent
    /\ Absent \notin Rows

-----------------------------------------------------------------------------
(* Rows and windows *)

\* GlobalIndexRow and CatalogRow: the columns that identify what a row shows.
Row(p, rev, content) == [pub |-> p, rev |-> rev, content |-> content]

Newer(x, y) == CompletedAt[x.pub] > CompletedAt[y.pub]

\* A window keeps the newest rows.
Newest(rows) == {x \in rows : Cardinality({y \in rows : Newer(y, x)}) < Window}

\* One row per run, the newest, and the new row for its own run whatever the
\* rows that are already there.
ReplaceActiveRun(rows, row) ==
    {x \in rows : /\ RunOf[x.pub] # RunOf[row.pub]
                  /\ \A y \in rows : RunOf[y.pub] = RunOf[x.pub] => ~Newer(y, x)}
    \cup {row}

\* The rows of the index: the largest window, or the individual files.
IndexRows(t) ==
    IF t.window # NoWindow THEN t.window
    ELSE {t.receipts[p] : p \in {q \in Pubs : t.receipts[q] # Absent}}

Withdrawn(t, p) == t.latest[p] # Absent /\ t.latest[p].action = "withdraw"

\* A publish that ignores the latest decision about the publication.
CatalogWindowForgetful(t, row, scope) ==
    LET rows == IF t[scope] = NoWindow THEN {} ELSE t[scope]
    IN  Newest(IF scope = "audit" \/ row.pub \in FinalPubs
               THEN ReplaceActiveRun(rows, row) ELSE rows)

\* The audit or the primary window after `row` is published at tree t.
CatalogWindow(t, row, scope) ==
    LET rows == IF t[scope] = NoWindow THEN {} ELSE t[scope]
        shown == scope = "audit"
                 \/ (row.pub \in FinalPubs /\ ~Withdrawn(t, row.pub))
    IN  Newest(IF shown THEN ReplaceActiveRun(rows, row) ELSE rows)

\* No canonical catalogue can be started over rows that are already indexed.
SnapshotMissing(t) ==
    (t.audit = NoWindow \/ t.primary = NoWindow) /\ IndexRows(t) # {}

\* The files one publication commits to the index, over the tree it read.
IndexUpdate(t, row) ==
    [t EXCEPT !.window = Newest(ReplaceActiveRun(IndexRows(t), row)),
              !.audit = CatalogWindow(t, row, "audit"),
              !.primary = CatalogWindow(t, row, "primary"),
              !.lookup[row.pub] = row,
              !.active[RunOf[row.pub]] = row,
              !.receipts[row.pub] = IF @ = Absent THEN row ELSE @]

\* The files one catalogue decision commits.
DecisionUpdate(t, d) ==
    LET target == t.lookup[d.pub]
    IN  [t EXCEPT
          !.events = @ \cup {d},
          !.latest[d.pub] = d,
          !.primary = Newest(IF d.action = "withdraw"
                             THEN {x \in @ : x.pub # d.pub}
                             ELSE ReplaceActiveRun(@, target))]

\* The files the cutover commits: every classified publication, and the legacy
\* catalogue deleted.
CutoverUpdate(t, plan, rev) ==
    LET rows == {Row(p, rev, Migrated) : p \in plan.pubs}
        row(p) == Row(p, rev, Migrated)
    IN  [t EXCEPT
          !.window = Newest(rows), !.audit = Newest(rows),
          !.primary = Newest({x \in rows : x.pub \in FinalPubs}),
          !.lookup = [p \in Pubs |-> IF p \in plan.pubs THEN row(p) ELSE @[p]],
          !.receipts = [p \in Pubs |-> IF p \in plan.pubs THEN row(p) ELSE @[p]],
          !.active = [r \in DOMAIN @ |->
                        LET of == {x \in rows : RunOf[x.pub] = r}
                        IN  IF of = {} THEN @[r]
                            ELSE CHOOSE x \in of : \A y \in of : ~Newer(x, y)],
          !.legacy = {}, !.markers = @ \cup {plan.id}]

-----------------------------------------------------------------------------
(* The initial state, and the moves all workers share *)

Runs == {RunOf[p] : p \in Pubs}
NoTree == [p \in Pubs |-> Absent]

Resting == [op |-> "none", item |-> Absent, plan |-> 0, content |-> 0, at |-> "rest", on |-> "result",
            stale |-> FALSE, upd |-> Absent, rev |-> 0, tries |-> 0, ok |-> FALSE]

Init ==
    /\ \E old \in Legacies, windowed \in BOOLEAN :
         LET row(p) == Row(p, 1, Legacy)
         IN  /\ old = {} => windowed
             /\ results = IF old = {} THEN <<>>
                          ELSE << [files |-> [p \in Pubs |->
                                     IF p \in old THEN Legacy ELSE Absent],
                                   markers |-> {}] >>
             /\ index = [exists |-> old # {},
                         receipts |-> [p \in Pubs |->
                                         IF p \in old THEN row(p) ELSE Absent],
                         window |-> IF old # {} /\ windowed
                                    THEN {row(p) : p \in old} ELSE NoWindow,
                         audit |-> NoWindow, primary |-> NoWindow,
                         lookup |-> NoTree, active |-> [r \in Runs |-> Absent],
                         latest |-> NoTree, events |-> {},
                         legacy |-> old, markers |-> {}]
    /\ lease = [d \in Datasets |-> [by |-> Nobody, expired |-> FALSE]]
    /\ proc = [w \in Workers |-> Resting]
    /\ control = 0 /\ plans = <<>> /\ done = {} /\ faults = 0

Fault == faults < MaxFaults /\ faults' = faults + 1
NoFault == faults' = faults

\* The operation on the Dataset ends; the lease is released next.
Finish(w, ok) == proc' = [proc EXCEPT ![w].at = "release", ![w].ok = ok,
                                      ![w].upd = Absent, ![w].stale = FALSE]

\* A commit on Dataset d: every other worker that read its head is now stale.
Moved(w, d, new) ==
    proc' = [v \in Workers |->
               IF v = w THEN new
               ELSE [proc[v] EXCEPT !.stale = @ \/ (proc[v].on = d
                                                   /\ proc[v].at = "commit")]]
PlansMoved(d) ==
    plans' = [i \in DOMAIN plans |->
                [plans[i] EXCEPT !.moved = @ \cup {d}]]

\* Commits without a parent.
ParentConflictIgnored(w) == FALSE

\* The parent check of a commit: the head moved since it was read.
ParentConflict(w) == proc[w].stale

\* An overlapping commit refuses this one: read again, or give up.
Contended(w) ==
    /\ IF proc[w].tries + 1 < MaxAttempts
       THEN proc' = [proc EXCEPT ![w].at = "read", ![w].stale = FALSE,
                                 ![w].tries = @ + 1, ![w].upd = Absent]
       ELSE Finish(w, FALSE)
    /\ UNCHANGED <<results, index, plans>> /\ NoFault

\* A store in which an expired lease is never taken over.
AcquirableWhenFree(d) == lease[d].by = Nobody

\* HubClaimStore.acquire: a lease that is held and has not expired refuses.
Acquirable(d) == lease[d].by = Nobody \/ lease[d].expired

Acquire(w) ==
    LET d == proc[w].on
    IN  /\ proc[w].at = "lease" /\ proc[w].op # "cutover"
        /\ IF Acquirable(d)
           THEN /\ lease' = [lease EXCEPT ![d] = [by |-> w, expired |-> FALSE]]
                /\ proc' = [proc EXCEPT ![w].at = "read"]
           ELSE /\ proc' = [proc EXCEPT ![w] = Resting]
                /\ lease' = lease
        /\ UNCHANGED <<results, index, control, plans, done, faults>>

\* publish: the index Dataset follows the result Dataset once that is done and
\* its lease was given back.
NextDataset(w, released) ==
    IF proc[w].op = "publish" /\ proc[w].on = "result" /\ proc[w].ok /\ released
    THEN [proc[w] EXCEPT !.at = "lease", !.on = "index", !.tries = 0, !.ok = FALSE]
    ELSE Resting

\* The release in the finally block: it raises when the lease is another's.
Release(w) ==
    LET d == proc[w].on
        mine == lease[d].by = w
    IN  /\ proc[w].at = "release" /\ proc[w].op # "cutover"
        /\ lease' = IF mine THEN [lease EXCEPT ![d].by = Nobody, ![d].expired = FALSE]
                    ELSE lease
        /\ proc' = [proc EXCEPT ![w] = NextDataset(w, mine)]
        /\ done' = IF proc[w].op = "publish" /\ d = "index" /\ proc[w].ok /\ mine
                   THEN done \cup {proc[w].item} ELSE done
        /\ UNCHANGED <<results, index, control, plans, faults>>

-----------------------------------------------------------------------------
(* Publishing one run's results *)

\* The tables of the run, built from its evidence and the control commit of
\* the snapshot.
Prepared(p) ==
    [Resting EXCEPT !.op = "publish", !.item = p, !.content = control, !.at = "lease"]

\* AutomaticCampaignPublisher.publish: load_snapshot gives the rows the control
\* commit of this moment; Datasets without a commit are initialised.  A
\* publication is tried until it succeeds, and may be repeated later.
Publish(w, p) ==
    /\ proc[w].op = "none"
    /\ IF p \in done THEN Fault ELSE NoFault
    /\ proc' = [proc EXCEPT ![w] = Prepared(p)]
    /\ results' = IF results = <<>> THEN << [files |-> NoTree, markers |-> {}] >>
                  ELSE results
    /\ index' = [index EXCEPT !.exists = TRUE]
    /\ UNCHANGED <<lease, control, plans, done>>

\* An adoption that trusts the identity of the publication.
AdoptResultByIdentity(p, content) == TRUE

\* The receipt at the head: absent, of the same files, or of others.
AdoptResult(p, content) == results[Len(results)].files[p] = content

ReadResult(w) ==
    LET p == proc[w].item
    IN  /\ proc[w].op = "publish" /\ proc[w].at = "read" /\ proc[w].on = "result"
        /\ IF results[Len(results)].files[p] = Absent
           THEN proc' = [proc EXCEPT ![w].at = "commit"]
           ELSE proc' = [proc EXCEPT ![w].at = "release",
                            ![w].ok = AdoptResult(p, proc[w].content),
                            ![w].rev = Len(results)]
        /\ UNCHANGED <<results, index, lease, control, plans, done, faults>>

\* The tables, the projection and the receipt of one publication, whose paths
\* depend on its identity and whose bytes on its content.
WithPublication(tree, p, content) == [tree EXCEPT !.files[p] = content]

\* One commit of all files and the receipt.  It lands and answers, lands and
\* loses its answer, is refused, or meets a moved head.
CommitResult(w) ==
    LET p == proc[w].item
        tree == WithPublication(results[Len(results)], p, proc[w].content)
    IN  /\ proc[w].op = "publish" /\ proc[w].at = "commit" /\ proc[w].on = "result"
        /\ \/ /\ ParentConflict(w)
              /\ Contended(w)
           \/ /\ ~ParentConflict(w)
              /\ results' = Append(results, tree)
              /\ PlansMoved("result")
              /\ \E answered \in BOOLEAN :
                   /\ IF answered THEN NoFault ELSE Fault
                   /\ Moved(w, "result",
                            [proc[w] EXCEPT !.at = "release", !.ok = answered,
                                            !.rev = Len(results) + 1])
              /\ UNCHANGED index
           \/ /\ Fault
              /\ Finish(w, FALSE)
              /\ UNCHANGED <<results, index, plans>>
        /\ UNCHANGED <<lease, control, done>>

\* _publish_index at the head: adopt the receipt or prepare a new row, compute
\* every window, and return when there is nothing to change.
ReadIndex(w) ==
    LET p == proc[w].item
        receipt == index.receipts[p]
        rev == IF receipt = Absent THEN proc[w].rev ELSE receipt.rev
        row == Row(p, rev, proc[w].content)
        upd == IndexUpdate(index, row)
    IN  /\ proc[w].op = "publish" /\ proc[w].at = "read" /\ proc[w].on = "index"
        /\ IF (receipt # Absent /\ receipt # row) \/ SnapshotMissing(index)
           THEN Finish(w, FALSE)
           ELSE IF receipt # Absent /\ upd = index
           THEN Finish(w, TRUE)
           ELSE proc' = [proc EXCEPT ![w].at = "commit", ![w].upd = upd]
        /\ UNCHANGED <<results, index, lease, control, plans, done, faults>>

-----------------------------------------------------------------------------
(* Catalogue decisions *)

Decide(w, d) ==
    /\ proc[w].op = "none"
    /\ index.primary # NoWindow      \* the catalogue the operator looks at
    /\ IF d \in done THEN Fault ELSE NoFault
    /\ done' = done \cup {d}
    /\ proc' = [proc EXCEPT ![w] = [Resting EXCEPT !.op = "decide", !.item = d,
                                       !.on = "index", !.at = "lease"]]
    /\ UNCHANGED <<results, index, lease, control, plans>>

\* _record_catalog_decision refuses a decision that is not newer, about an
\* unknown publication, a promotion of a component, or without a snapshot.
Refused(t, d) ==
    \/ t.latest[d.pub] # Absent /\ d.at <= t.latest[d.pub].at
    \/ t.lookup[d.pub] = Absent
    \/ d.action = "promote" /\ d.pub \notin FinalPubs
    \/ t.primary = NoWindow

ReadDecision(w) ==
    LET d == Decisions[proc[w].item]
    IN  /\ proc[w].op = "decide" /\ proc[w].at = "read"
        /\ IF d \in index.events THEN Finish(w, TRUE)
           ELSE IF Refused(index, d) THEN Finish(w, FALSE)
           ELSE proc' = [proc EXCEPT ![w].at = "commit",
                                     ![w].upd = DecisionUpdate(index, d)]
        /\ UNCHANGED <<results, index, lease, control, plans, done, faults>>

\* The commit of a publication or of a decision to the index.
CommitIndex(w) ==
    /\ proc[w].op \in {"publish", "decide"}
    /\ proc[w].at = "commit" /\ proc[w].on = "index"
    /\ \/ /\ ParentConflict(w)
          /\ Contended(w)
       \/ /\ ~ParentConflict(w)
          /\ index' = proc[w].upd
          /\ PlansMoved("index")
          /\ \E answered \in BOOLEAN :
               /\ IF answered THEN NoFault ELSE Fault
               /\ Moved(w, "index", [proc[w] EXCEPT !.at = "release",
                                        !.ok = answered, !.upd = Absent])
          /\ UNCHANGED results
       \/ /\ Fault
          /\ Finish(w, FALSE)
          /\ UNCHANGED <<results, index, plans>>
    /\ UNCHANGED <<lease, control, done>>

-----------------------------------------------------------------------------
(* The cutover *)

\* An operator writes a plan against the heads of the moment: every
\* publication of the legacy catalogue is classified.
PlanCutover ==
    /\ Len(plans) < MaxPlans
    /\ index.legacy # {}
    /\ \A i \in DOMAIN plans : plans[i].moved # {}
    /\ plans' = Append(plans, [id |-> Len(plans) + 1, pubs |-> index.legacy,
                               base |-> Len(results), moved |-> {},
                               asked |-> FALSE])
    /\ UNCHANGED <<results, index, lease, proc, control, done, faults>>

Cutover(w, i) ==
    /\ proc[w].op = "none"
    /\ IF plans[i].asked THEN Fault ELSE NoFault
    /\ plans' = [plans EXCEPT ![i].asked = TRUE]
    /\ proc' = [proc EXCEPT ![w] = [Resting EXCEPT !.op = "cutover", !.plan = i,
                                       !.on = "index", !.at = "lease"]]
    /\ UNCHANGED <<results, index, lease, control, done>>

\* Both leases are taken in the order of the Datasets' names.
AcquireBoth(w) ==
    LET d == proc[w].on
    IN  /\ proc[w].op = "cutover" /\ proc[w].at = "lease"
        /\ IF Acquirable(d)
           THEN /\ lease' = [lease EXCEPT ![d] = [by |-> w, expired |-> FALSE]]
                /\ proc' = [proc EXCEPT ![w].on = "result", ![w].tries = @ + 1,
                              ![w].at = IF d = "index" THEN "lease" ELSE "read"]
           ELSE /\ lease' = lease
                /\ proc' = [proc EXCEPT ![w].at = "release"]
        /\ UNCHANGED <<results, index, control, plans, done, faults>>

\* A plan whose index head has moved is complete when its own commit is there
\* and the catalogue still shows exactly what it committed.
CompletedCutover(plan) ==
    /\ plan.id \in index.markers
    /\ {x.pub : x \in index.audit} = plan.pubs
    /\ {x.pub : x \in index.primary} = plan.pubs \cap FinalPubs
    /\ \E rev \in DOMAIN results :
         /\ {x.rev : x \in index.audit} = {rev}
         /\ plan.id \in results[rev].markers

\* _apply_locked up to its first commit.  The index must be at the expected
\* head, and the result Dataset too, or at the commit of this very plan.
ReadCutover(w) ==
    LET plan == plans[proc[w].plan]
        head == results[Len(results)]
        migrated == plan.id \in head.markers
                    /\ \A p \in plan.pubs : head.files[p] = Migrated
    IN  /\ proc[w].op = "cutover" /\ proc[w].at = "read"
        /\ IF "index" \in plan.moved THEN Finish(w, CompletedCutover(plan))
           ELSE IF Len(results) = plan.base
           THEN proc' = [proc EXCEPT ![w].at = "commit", ![w].on = "result"]
           ELSE IF migrated
           THEN proc' = [proc EXCEPT ![w].at = "commit", ![w].on = "index",
                                     ![w].rev = Len(results)]
           ELSE Finish(w, FALSE)
        /\ UNCHANGED <<results, index, lease, control, plans, done, faults>>

CutoverResults(w) ==
    LET plan == plans[proc[w].plan]
        head == results[Len(results)]
        tree == [files |-> [p \in Pubs |-> IF p \in plan.pubs THEN Migrated
                                           ELSE head.files[p]],
                 markers |-> head.markers \cup {plan.id}]
    IN  /\ proc[w].op = "cutover" /\ proc[w].at = "commit" /\ proc[w].on = "result"
        /\ \/ /\ Len(results) # plan.base
              /\ Finish(w, FALSE)
              /\ NoFault /\ UNCHANGED <<results, plans>>
           \/ /\ Len(results) = plan.base
              /\ results' = Append(results, tree)
              /\ PlansMoved("result")
              /\ \E answered \in BOOLEAN :
                   /\ IF answered THEN NoFault ELSE Fault
                   /\ Moved(w, "result",
                        IF answered
                        THEN [proc[w] EXCEPT !.on = "index", !.rev = Len(results) + 1]
                        ELSE [proc[w] EXCEPT !.at = "release"])
        /\ UNCHANGED <<index, lease, control, done>>

CutoverIndex(w) ==
    LET plan == plans[proc[w].plan]
    IN  /\ proc[w].op = "cutover" /\ proc[w].at = "commit" /\ proc[w].on = "index"
        /\ \/ /\ "index" \in plan.moved
              /\ Finish(w, FALSE)
              /\ NoFault /\ UNCHANGED <<index, plans>>
           \/ /\ "index" \notin plan.moved
              /\ index' = CutoverUpdate(index, plan, proc[w].rev)
              /\ PlansMoved("index")
              /\ \E answered \in BOOLEAN :
                   /\ IF answered THEN NoFault ELSE Fault
                   /\ Moved(w, "index", [proc[w] EXCEPT !.at = "release",
                                                        !.ok = answered])
        /\ UNCHANGED <<results, lease, control, done>>

\* The finally block releases what was acquired, the last one first; a release
\* that raises leaves the earlier lease behind.
ReleaseBoth(w) ==
    LET lost == proc[w].tries = 2 /\ lease["result"].by # w
    IN  /\ proc[w].op = "cutover" /\ proc[w].at = "release"
        /\ lease' = [d \in Datasets |->
                       IF lease[d].by # w THEN lease[d]
                       ELSE IF lost THEN [lease[d] EXCEPT !.by = Gone]
                       ELSE [by |-> Nobody, expired |-> FALSE]]
        /\ proc' = [proc EXCEPT ![w] = Resting]
        /\ UNCHANGED <<results, index, control, plans, done, faults>>

-----------------------------------------------------------------------------
(* The environment *)

\* Any event appended to the control repository moves its head.
ControlMoves ==
    /\ control < MaxControl
    /\ control' = control + 1
    /\ UNCHANGED <<results, index, lease, proc, plans, done, faults>>

\* A process stops; its leases stay until they expire.
Crash(w) ==
    /\ proc[w].op # "none"
    /\ Fault
    /\ proc' = [proc EXCEPT ![w] = Resting]
    /\ lease' = [d \in Datasets |-> IF lease[d].by = w
                                    THEN [lease[d] EXCEPT !.by = Gone] ELSE lease[d]]
    /\ UNCHANGED <<results, index, control, plans, done>>

\* Fifteen minutes pass.  A lease of a live process may expire under it.
Expire(d) ==
    /\ lease[d].by # Nobody /\ ~lease[d].expired
    /\ IF lease[d].by = Gone THEN NoFault ELSE Fault
    /\ lease' = [lease EXCEPT ![d].expired = TRUE]
    /\ UNCHANGED <<results, index, proc, control, plans, done>>

Step(w) ==
    \/ Acquire(w) \/ Release(w)
    \/ ReadResult(w) \/ CommitResult(w) \/ ReadIndex(w) \/ CommitIndex(w)
    \/ ReadDecision(w)
    \/ AcquireBoth(w) \/ ReadCutover(w) \/ CutoverResults(w) \/ CutoverIndex(w)
    \/ ReleaseBoth(w)

Next ==
    \/ \E w \in Workers : Step(w) \/ Crash(w)
    \/ \E w \in Workers, p \in Pubs : Publish(w, p)
    \/ \E w \in Workers, d \in DOMAIN Decisions : Decide(w, d)
    \/ \E w \in Workers, i \in DOMAIN plans : Cutover(w, i)
    \/ PlanCutover
    \/ ControlMoves
    \/ \E d \in Datasets : Expire(d)

Spec == Init /\ [][Next]_vars

\* A publish call goes on, a reconciler publishes again what has not succeeded,
\* and time passes for a lease nobody will release.
FairSpec ==
    /\ Spec
    /\ \A w \in Workers : WF_vars(Step(w))
    /\ \A p \in Pubs : SF_vars(p \notin done /\ \E w \in Workers : Publish(w, p))
    /\ \A d \in Datasets : WF_vars(lease[d].by = Gone /\ Expire(d))

-----------------------------------------------------------------------------
(* Properties *)

RowOrAbsent == {Absent} \cup [pub : Pubs, rev : 1..Len(results), content : Content]

AllRows ==
    LET windows == {w \in {index.window, index.audit, index.primary} : w # NoWindow}
    IN  (UNION windows)
        \cup {index.receipts[p] : p \in Pubs} \cup {index.lookup[p] : p \in Pubs}
        \cup {index.active[r] : r \in Runs}

\* The shape of the state.
TypeOK ==
    /\ \A i \in DOMAIN results :
         results[i].files \in [Pubs -> {Absent} \cup Content]
    /\ AllRows \subseteq RowOrAbsent
    /\ control \in 0..MaxControl /\ faults \in 0..MaxFaults
    /\ \A w \in Workers :
         proc[w].tries \in IF proc[w].op = "cutover" THEN 0..2 ELSE 0..(MaxAttempts - 1)

\* What a row of the index shows is in the result Dataset at the revision the
\* row names: the two Datasets are committed separately, by writers that crash,
\* lose answers and overlap, yet no reader of the catalogue follows a row to
\* files that are missing or are not the ones the row was built from.
IndexedResultsExist ==
    \A x \in AllRows \ {Absent} :
        x.rev \in DOMAIN results /\ results[x.rev].files[x.pub] = x.content

\* A publication whose latest decision withdraws it is not in the primary
\* catalogue, whoever publishes it again or publishes another of its run.
WithdrawnStaysOut ==
    index.primary # NoWindow =>
        \A x \in index.primary : ~Withdrawn(index, x.pub)

\* Overlapping writers never undo each other: a run that is listed in the
\* audit catalogue stays listed, a decision stays recorded and the latest
\* decision about a publication is only replaced by a newer one.
NothingIsUndone ==
    [][ /\ index.audit # NoWindow /\ Cardinality(Runs) <= Window =>
             /\ index.audit' # NoWindow
             /\ {RunOf[x.pub] : x \in index.audit}
                  \subseteq {RunOf[x.pub] : x \in index.audit'}
        /\ index.events \subseteq index.events'
        /\ \A p \in Pubs : index.latest[p] # Absent =>
             /\ index.latest'[p] # Absent
             /\ index.latest'[p] # index.latest[p] =>
                  index.latest'[p].at > index.latest[p].at ]_vars

\* The result files landed with another control commit than the one a retry
\* would write: the retry is refused as a conflict.
LandedUnderAnotherCommit(p) ==
    /\ results # <<>>
    /\ results[Len(results)].files[p] \notin {Absent, control}

\* Where no legacy catalogue waits for a cutover, every publication ends
\* indexed, unless the files of one landed before the control repository moved
\* on: that one is refused at every retry, and its retries may hold the leases
\* whenever another asks.
PublicationEnds ==
    index.legacy = {} =>
        <>((Pubs \subseteq done) \/ \E p \in Pubs : LandedUnderAnotherCommit(p))
================================================================================
