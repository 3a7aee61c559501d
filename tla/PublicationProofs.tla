-------------------------- MODULE PublicationProofs --------------------------
(***************************************************************************)
(* Proofs about module Publication, for any number of workers,             *)
(* publications, decisions, plans and faults.  No transaction spans the    *)
(* two Datasets, so the argument is about what a worker holds between its  *)
(* read and its commit: a fresh worker's files are computed from the       *)
(* present head of the index, and the revision it is going to name holds   *)
(* the files it was built from, because the result Dataset only grows.     *)
(***************************************************************************)
EXTENDS Publication, FiniteSetTheorems, WellFoundedInduction, TLAPS

-----------------------------------------------------------------------------
(* The inductive invariant *)

Verdicts == {Decisions[d] : d \in DOMAIN Decisions}
Windows == {NoWindow} \cup SUBSET Rows
RowsByPub == [Pubs -> {Absent} \cup Rows]

Trees == [exists : BOOLEAN, receipts : RowsByPub, window : Windows, audit : Windows,
          primary : Windows, lookup : RowsByPub, active : [Runs -> {Absent} \cup Rows],
          latest : [Pubs -> {Absent} \cup Verdicts], events : SUBSET Verdicts,
          legacy : SUBSET Pubs, markers : SUBSET Nat]

Commits == [files : [Pubs -> {Absent} \cup Content], markers : SUBSET Nat]

Plans == [id : Nat, pubs : SUBSET Pubs, base : Nat, moved : SUBSET Datasets,
          asked : BOOLEAN]

Procs == [op : {"none", "publish", "decide", "cutover"},
          item : {Absent} \cup Pubs \cup DOMAIN Decisions, plan : Nat,
          content : 0..MaxControl, at : {"rest", "lease", "read", "commit", "release"},
          on : Datasets, stale : BOOLEAN, upd : {Absent} \cup Trees, rev : Nat,
          tries : Nat, ok : BOOLEAN]

(* The shape of the state, with what the workers hold.                     *)
Types ==
    /\ results \in Seq(Commits)
    /\ index \in Trees
    /\ proc \in [Workers -> Procs]
    /\ control \in 0..MaxControl
    /\ plans \in Seq(Plans)
    /\ faults \in 0..MaxFaults

(* What a row shows is in the result Dataset at the revision it names.     *)
GoodRow(x) ==
    x \in Rows /\ x.rev \in DOMAIN results /\ results[x.rev].files[x.pub] = x.content

GoodWindow(w) == w # NoWindow => \A x \in w : GoodRow(x)
GoodEntry(x, p) == x # Absent => GoodRow(x) /\ x.pub = p

(* Every row of the index is good, and filed under its own publication.    *)
RowsInv ==
    /\ GoodWindow(index.window) /\ GoodWindow(index.audit) /\ GoodWindow(index.primary)
    /\ \A p \in Pubs : GoodEntry(index.receipts[p], p) /\ GoodEntry(index.lookup[p], p)
    /\ \A r \in Runs : index.active[r] # Absent => GoodRow(index.active[r])

(* One row per publication.                                                *)
Single(rows) == \A x, y \in rows : x.pub = y.pub => x = y

(* While the legacy catalogue waits for its cutover, its rows are indexed  *)
(* and nothing of the new catalogue is there.                              *)
Waiting ==
    /\ index.exists /\ index.audit = NoWindow /\ index.primary = NoWindow
    /\ IndexRows(index) # {} /\ results # <<>>
    /\ \A p \in Pubs : index.latest[p] = Absent

CatalogInv ==
    /\ WithdrawnStaysOut
    /\ index.audit # NoWindow => Single(index.audit)
    /\ index.primary # NoWindow => index.exists
    /\ index.legacy # {} => Waiting

(* A plan whose index head has not moved is about the whole legacy         *)
(* catalogue, which is still there.                                        *)
PlansInv ==
    /\ plans # <<>> => index.exists /\ results # <<>>
    /\ \A i \in DOMAIN plans :
         "index" \notin plans[i].moved =>
            plans[i].pubs = index.legacy /\ plans[i].pubs # {}

(* The row a publish writes: the one of the receipt it adopts, or its own. *)
PublishedRow(w) ==
    IF index.receipts[proc[w].item] = Absent
    THEN Row(proc[w].item, proc[w].rev, proc[w].content)
    ELSE index.receipts[proc[w].item]

(* The commit of w to the index is going to land.                          *)
Fresh(w) == proc[w].on = "index" /\ proc[w].at = "commit" /\ ~proc[w].stale

PublishInv(w) ==
    proc[w].op = "publish" =>
        /\ proc[w].item \in Pubs /\ index.exists /\ results # <<>>
        /\ proc[w].tries < MaxAttempts
        /\ proc[w].on = "index" \/ (proc[w].at = "release" /\ proc[w].ok) =>
             GoodRow(Row(proc[w].item, proc[w].rev, proc[w].content))
        /\ Fresh(w) =>
             ~SnapshotMissing(index) /\ proc[w].upd = IndexUpdate(index, PublishedRow(w))

DecideInv(w) ==
    proc[w].op = "decide" =>
        /\ proc[w].item \in DOMAIN Decisions /\ index.exists /\ proc[w].on = "index"
        /\ proc[w].tries < MaxAttempts
        /\ Fresh(w) =>
             /\ ~Refused(index, Decisions[proc[w].item])
             /\ proc[w].upd = DecisionUpdate(index, Decisions[proc[w].item])

CutoverInv(w) ==
    proc[w].op = "cutover" =>
        /\ proc[w].plan \in DOMAIN plans
        /\ proc[w].tries \in 0..2
        /\ proc[w].at = "lease" => proc[w].tries = IF proc[w].on = "index" THEN 0 ELSE 1
        /\ proc[w].on = "index" /\ proc[w].at = "commit" =>
             /\ proc[w].rev \in DOMAIN results
             /\ \A p \in plans[proc[w].plan].pubs : results[proc[w].rev].files[p] = Migrated

RestInv(w) == proc[w].op = "none" => proc[w].at = "rest" /\ proc[w].tries = 0

ProcInv == \A w \in Workers : PublishInv(w) /\ DecideInv(w) /\ CutoverInv(w) /\ RestInv(w)

Inv == Types /\ RowsInv /\ CatalogInv /\ PlansInv /\ ProcInv

-----------------------------------------------------------------------------
(* What the updates of the index contain *)

(* A window shows rows of what it was made of.                             *)
LEMMA NewestShows ==
    ASSUME NEW rows
    PROVE  Newest(rows) \subseteq rows
  BY DEF Newest

(* Replacing the row of a run brings in no other row, and the new one.     *)
LEMMA ReplaceShows ==
    ASSUME NEW rows, NEW row
    PROVE  /\ ReplaceActiveRun(rows, row) \subseteq rows \cup {row}
           /\ row \in ReplaceActiveRun(rows, row)
  BY DEF ReplaceActiveRun

(* The rows of a tree are rows.                                            *)
LEMMA IndexRowsType ==
    ASSUME NEW t \in Trees
    PROVE  IndexRows(t) \subseteq Rows
  <1>1. t.window \in Windows /\ t.receipts \in RowsByPub
    BY DEF Trees
  <1>2. CASE t.window # NoWindow
    BY <1>1, <1>2 DEF IndexRows, Windows
  <1>3. CASE t.window = NoWindow
    BY <1>1, <1>3 DEF IndexRows, RowsByPub
  <1>4. QED
    BY <1>2, <1>3

(* The rows a catalogue window holds after a publication.                  *)
LEMMA CatalogWindowShows ==
    ASSUME NEW t, NEW row, NEW scope
    PROVE  CatalogWindow(t, row, scope) \subseteq
              (IF t[scope] = NoWindow THEN {} ELSE t[scope]) \cup {row}
  <1> DEFINE rows == IF t[scope] = NoWindow THEN {} ELSE t[scope]
             shown == scope = "audit"
                        \/ (row.pub \in FinalPubs /\ ~Withdrawn(t, row.pub))
             new == IF shown THEN ReplaceActiveRun(rows, row) ELSE rows
  <1>1. new \subseteq rows \cup {row}
    BY ReplaceShows
  <1>2. Newest(new) \subseteq new
    BY NewestShows
  <1>3. CatalogWindow(t, row, scope) = Newest(new)
    BY DEF CatalogWindow
  <1>4. QED
    BY <1>1, <1>2, <1>3

(* A tree is a record with these eleven fields.                            *)
Fields == {"exists", "receipts", "window", "audit", "primary", "lookup", "active",
           "latest", "events", "legacy", "markers"}

(* A record with the fields of a tree, each of its type, is a tree.        *)
LEMMA TreeByFields ==
    ASSUME NEW u, DOMAIN u = Fields, u = [x \in DOMAIN u |-> u[x]],
           u.exists \in BOOLEAN, u.receipts \in RowsByPub, u.window \in Windows,
           u.audit \in Windows, u.primary \in Windows, u.lookup \in RowsByPub,
           u.active \in [Runs -> {Absent} \cup Rows],
           u.latest \in [Pubs -> {Absent} \cup Verdicts], u.events \in SUBSET Verdicts,
           u.legacy \in SUBSET Pubs, u.markers \in SUBSET Nat
    PROVE  u \in Trees
  BY DEF Trees, Fields

(* The tree a publication commits, field by field.                         *)
LEMMA IndexUpdateFields ==
    ASSUME NEW t \in Trees, NEW row \in Rows
    PROVE  LET u == IndexUpdate(t, row)
           IN  /\ u \in Trees
               /\ u.exists = t.exists /\ u.latest = t.latest /\ u.events = t.events
               /\ u.legacy = t.legacy
               /\ u.window = Newest(ReplaceActiveRun(IndexRows(t), row))
               /\ u.audit = CatalogWindow(t, row, "audit")
               /\ u.primary = CatalogWindow(t, row, "primary")
               /\ u.lookup = [t.lookup EXCEPT ![row.pub] = row]
               /\ u.active = [t.active EXCEPT ![RunOf[row.pub]] = row]
               /\ u.receipts = [t.receipts EXCEPT
                                  ![row.pub] = IF @ = Absent THEN row ELSE @]
  <1> DEFINE u == IndexUpdate(t, row)
             win == Newest(ReplaceActiveRun(IndexRows(t), row))
             aud == CatalogWindow(t, row, "audit")
             pri == CatalogWindow(t, row, "primary")
             loo == [t.lookup EXCEPT ![row.pub] = row]
             act == [t.active EXCEPT ![RunOf[row.pub]] = row]
             rec == [t.receipts EXCEPT ![row.pub] = IF @ = Absent THEN row ELSE @]
  <1>1. /\ t.exists \in BOOLEAN /\ t.receipts \in RowsByPub /\ t.window \in Windows
        /\ t.audit \in Windows /\ t.primary \in Windows /\ t.lookup \in RowsByPub
        /\ t.active \in [Runs -> {Absent} \cup Rows]
        /\ t.latest \in [Pubs -> {Absent} \cup Verdicts] /\ t.events \in SUBSET Verdicts
        /\ t.legacy \in SUBSET Pubs /\ t.markers \in SUBSET Nat
    BY DEF Trees
  <1>2. DOMAIN u = Fields /\ u = [x \in DOMAIN u |-> u[x]]
    BY DEF Trees, IndexUpdate, Fields
  <1>3. /\ u.exists = t.exists /\ u.latest = t.latest /\ u.events = t.events
        /\ u.legacy = t.legacy /\ u.markers = t.markers /\ u.window = win
        /\ u.audit = aud /\ u.primary = pri
        /\ u.lookup = loo /\ u.active = act /\ u.receipts = rec
    BY DEF Trees, IndexUpdate
  <1>4. win \in Windows
    BY NewestShows, ReplaceShows, IndexRowsType DEF Windows
  <1>5. aud \in Windows
    <2>1. aud \subseteq (IF t["audit"] = NoWindow THEN {} ELSE t["audit"]) \cup {row}
      BY CatalogWindowShows
    <2>2. QED
      BY <1>1, <2>1 DEF Windows
  <1>6. pri \in Windows
    <2>1. pri \subseteq (IF t["primary"] = NoWindow THEN {} ELSE t["primary"]) \cup {row}
      BY CatalogWindowShows
    <2>2. QED
      BY <1>1, <2>1 DEF Windows
  <1>7. loo \in RowsByPub /\ act \in [Runs -> {Absent} \cup Rows] /\ rec \in RowsByPub
    BY <1>1 DEF RowsByPub, Rows
  <1> HIDE DEF u, win, aud, pri, loo, act, rec
  <1>8. u \in Trees
    BY <1>1, <1>2, <1>3, <1>4, <1>5, <1>6, <1>7, TreeByFields
  <1>9. QED
    BY <1>3, <1>8 DEF u, win, aud, pri, loo, act, rec

(* The tree a decision commits, field by field.                            *)
LEMMA DecisionUpdateFields ==
    ASSUME NEW t \in Trees, NEW d \in Verdicts, t.lookup[d.pub] # Absent,
           t.primary # NoWindow
    PROVE  LET u == DecisionUpdate(t, d)
           IN  /\ u \in Trees
               /\ u.exists = t.exists /\ u.legacy = t.legacy /\ u.window = t.window
               /\ u.audit = t.audit /\ u.lookup = t.lookup /\ u.active = t.active
               /\ u.receipts = t.receipts
               /\ u.events = t.events \cup {d}
               /\ u.latest = [t.latest EXCEPT ![d.pub] = d]
               /\ u.primary = Newest(IF d.action = "withdraw"
                                     THEN {x \in t.primary : x.pub # d.pub}
                                     ELSE ReplaceActiveRun(t.primary, t.lookup[d.pub]))
  <1> DEFINE u == DecisionUpdate(t, d)
             new == IF d.action = "withdraw" THEN {x \in t.primary : x.pub # d.pub}
                    ELSE ReplaceActiveRun(t.primary, t.lookup[d.pub])
             lat == [t.latest EXCEPT ![d.pub] = d]
  <1>1. /\ t.exists \in BOOLEAN /\ t.receipts \in RowsByPub /\ t.window \in Windows
        /\ t.audit \in Windows /\ t.primary \in Windows /\ t.lookup \in RowsByPub
        /\ t.active \in [Runs -> {Absent} \cup Rows]
        /\ t.latest \in [Pubs -> {Absent} \cup Verdicts] /\ t.events \in SUBSET Verdicts
        /\ t.legacy \in SUBSET Pubs /\ t.markers \in SUBSET Nat
    BY DEF Trees
  <1>2. DOMAIN u = Fields /\ u = [x \in DOMAIN u |-> u[x]]
    BY DEF Trees, DecisionUpdate, Fields
  <1>3. /\ u.exists = t.exists /\ u.receipts = t.receipts /\ u.window = t.window
        /\ u.audit = t.audit /\ u.lookup = t.lookup /\ u.active = t.active
        /\ u.legacy = t.legacy /\ u.markers = t.markers
        /\ u.primary = Newest(new) /\ u.latest = lat /\ u.events = t.events \cup {d}
    BY DEF Trees, DecisionUpdate
  <1>4. d.pub \in Pubs
    BY RecordsAssumption DEF Verdicts
  <1>5. lat \in [Pubs -> {Absent} \cup Verdicts] /\ t.events \cup {d} \in SUBSET Verdicts
    BY <1>1
  <1>6. Newest(new) \in Windows
    <2>1. t.lookup[d.pub] \in Rows
      BY <1>1, <1>4 DEF RowsByPub
    <2>2. t.primary \in SUBSET Rows
      BY <1>1 DEF Windows
    <2>3. new \in SUBSET Rows
      BY <2>1, <2>2, ReplaceShows
    <2>4. QED
      BY <2>3, NewestShows DEF Windows
  <1> HIDE DEF u, new, lat
  <1>7. u \in Trees
    BY <1>1, <1>2, <1>3, <1>5, <1>6, TreeByFields
  <1>8. QED
    BY <1>3, <1>7 DEF u, new, lat

(* The tree a cutover commits, field by field.                             *)
LEMMA CutoverUpdateFields ==
    ASSUME NEW t \in Trees, NEW plan \in Plans, NEW rev \in Nat \ {0}
    PROVE  LET u == CutoverUpdate(t, plan, rev)
               rows == {Row(p, rev, Migrated) : p \in plan.pubs}
           IN  /\ u \in Trees
               /\ u.exists = t.exists /\ u.latest = t.latest /\ u.events = t.events
               /\ u.legacy = {}
               /\ u.window \subseteq rows /\ u.audit \subseteq rows
               /\ u.primary \subseteq rows
               /\ \A p \in Pubs :
                    /\ u.lookup[p] = IF p \in plan.pubs THEN Row(p, rev, Migrated)
                                     ELSE t.lookup[p]
                    /\ u.receipts[p] = IF p \in plan.pubs THEN Row(p, rev, Migrated)
                                       ELSE t.receipts[p]
               /\ \A r \in Runs : u.active[r] \in rows \cup {t.active[r]}
  <1> DEFINE u == CutoverUpdate(t, plan, rev)
             rows == {Row(p, rev, Migrated) : p \in plan.pubs}
             of(r) == {x \in rows : RunOf[x.pub] = r}
             loo == [p \in Pubs |-> IF p \in plan.pubs THEN Row(p, rev, Migrated)
                                    ELSE t.lookup[p]]
             rec == [p \in Pubs |-> IF p \in plan.pubs THEN Row(p, rev, Migrated)
                                    ELSE t.receipts[p]]
             act == [r \in Runs |-> IF of(r) = {} THEN t.active[r]
                                    ELSE CHOOSE x \in of(r) : \A y \in of(r) : ~Newer(x, y)]
             pri == Newest({x \in rows : x.pub \in FinalPubs})
  <1>1. /\ t.exists \in BOOLEAN /\ t.receipts \in RowsByPub /\ t.lookup \in RowsByPub
        /\ t.active \in [Runs -> {Absent} \cup Rows]
        /\ t.latest \in [Pubs -> {Absent} \cup Verdicts] /\ t.events \in SUBSET Verdicts
        /\ t.markers \in SUBSET Nat
    BY DEF Trees
  <1>2. DOMAIN u = Fields /\ u = [x \in DOMAIN u |-> u[x]]
    BY DEF Trees, CutoverUpdate, Fields
  <1>3. /\ u.exists = t.exists /\ u.latest = t.latest /\ u.events = t.events
        /\ u.legacy = {} /\ u.markers = t.markers \cup {plan.id}
    BY DEF Trees, CutoverUpdate
  <1>4. u.window = Newest(rows) /\ u.audit = Newest(rows) /\ u.primary = pri
    BY DEF Trees, CutoverUpdate
  <1>5. u.lookup = loo /\ u.receipts = rec
    BY DEF Trees, CutoverUpdate
  <1>6. u.active = act
    BY <1>1 DEF Trees, CutoverUpdate
  <1>7. rows \in SUBSET Rows
    BY DEF Row, Rows, Plans, Content
  <1>8. \A r \in Runs : act[r] \in rows \cup {t.active[r]}
    <2> SUFFICES ASSUME NEW r \in Runs, of(r) # {}
                 PROVE  act[r] \in rows
      BY DEF act
    <2>1. \E x \in of(r) : \A y \in of(r) : ~Newer(x, y)
      <3> DEFINE R == OpToRel(<, Nat)
                 T == {CompletedAt[x.pub] : x \in of(r)}
      <3>1. IsWellFoundedOn(R, Nat)
        BY NatLessThanWellFounded
      <3>2. \A m, n \in Nat : m < n => <<m, n>> \in R
        BY DEF OpToRel
      <3>3. T \subseteq Nat /\ T # {}
        BY <1>7, PublicationAssumption DEF Rows
      <3> HIDE DEF R
      <3>4. PICK n \in T : \A m \in T : ~(<<m, n>> \in R)
        BY <3>1, <3>3, WFMin
      <3>5. PICK x \in of(r) : CompletedAt[x.pub] = n
        BY <3>4
      <3>6. \A y \in of(r) : ~Newer(x, y)
        BY <3>2, <3>3, <3>4, <3>5 DEF Newer
      <3>7. QED
        BY <3>5, <3>6
    <2>2. act[r] \in of(r)
      BY <2>1
    <2>3. QED
      BY <2>2
  <1>9. act \in [Runs -> {Absent} \cup Rows]
    BY <1>1, <1>7, <1>8
  <1>10. loo \in RowsByPub /\ rec \in RowsByPub
    BY <1>1, <1>7 DEF RowsByPub
  <1>11. Newest(rows) \in SUBSET rows /\ pri \in SUBSET rows
    BY NewestShows
  <1>12. t.markers \cup {plan.id} \in SUBSET Nat
    BY <1>1 DEF Plans
  <1>13. \A p \in Pubs :
           /\ loo[p] = IF p \in plan.pubs THEN Row(p, rev, Migrated) ELSE t.lookup[p]
           /\ rec[p] = IF p \in plan.pubs THEN Row(p, rev, Migrated) ELSE t.receipts[p]
    OBVIOUS
  <1> HIDE DEF u, loo, rec, act, pri, rows
  <1>14. u \in Trees
    <2>1. /\ u.window \in Windows /\ u.audit \in Windows /\ u.primary \in Windows
          /\ u.legacy \in SUBSET Pubs
      BY <1>3, <1>4, <1>7, <1>11 DEF Windows
    <2>2. QED
      BY <1>1, <1>2, <1>3, <1>5, <1>6, <1>9, <1>10, <1>12, <2>1, TreeByFields
  <1>15. /\ u.window \subseteq rows /\ u.audit \subseteq rows /\ u.primary \subseteq rows
    BY <1>4, <1>11
  <1>16. QED
    BY <1>3, <1>5, <1>6, <1>8, <1>13, <1>14, <1>15 DEF u, rows

-----------------------------------------------------------------------------
(* What a worker is going to commit *)

(* The row a publish on the index writes is good.                          *)
LEMMA PublishedRowGood ==
    ASSUME Types, RowsInv, NEW w \in Workers, PublishInv(w),
           proc[w].op = "publish", proc[w].on = "index"
    PROVE  GoodRow(PublishedRow(w)) /\ PublishedRow(w).pub = proc[w].item
  <1>1. GoodRow(Row(proc[w].item, proc[w].rev, proc[w].content)) /\ proc[w].item \in Pubs
    BY DEF PublishInv
  <1>2. CASE index.receipts[proc[w].item] = Absent
    BY <1>1, <1>2 DEF PublishedRow, Row
  <1>3. CASE index.receipts[proc[w].item] # Absent
    BY <1>1, <1>3 DEF PublishedRow, RowsInv, GoodEntry
  <1>4. QED
    BY <1>2, <1>3

(* A decision that is not refused is about a row of the lookup table.      *)
LEMMA NotRefused ==
    ASSUME NEW t, NEW d, ~Refused(t, d)
    PROVE  /\ t.lookup[d.pub] # Absent /\ t.primary # NoWindow
           /\ t.latest[d.pub] # Absent => ~(d.at <= t.latest[d.pub].at)
  BY DEF Refused

(* The fresh files of a worker are a tree.                                 *)
LEMMA FreshUpdate ==
    ASSUME Inv, NEW w \in Workers, proc[w].op \in {"publish", "decide"}, Fresh(w)
    PROVE  proc[w].upd \in Trees
  <1>1. Types /\ RowsInv /\ PublishInv(w) /\ DecideInv(w) /\ index \in Trees
    BY DEF Inv, ProcInv, Types
  <1>2. CASE proc[w].op = "publish"
    <2>1. PublishedRow(w) \in Rows
      BY <1>1, <1>2, PublishedRowGood DEF Fresh, GoodRow
    <2>2. IndexUpdate(index, PublishedRow(w)) \in Trees
      BY <1>1, <2>1, IndexUpdateFields
    <2>3. QED
      BY <1>1, <1>2, <2>2 DEF PublishInv
  <1>3. CASE proc[w].op = "decide"
    <2>1. proc[w].item \in DOMAIN Decisions /\ ~Refused(index, Decisions[proc[w].item])
      BY <1>1, <1>3 DEF DecideInv
    <2>2. /\ Decisions[proc[w].item] \in Verdicts
          /\ index.lookup[Decisions[proc[w].item].pub] # Absent
          /\ index.primary # NoWindow
      BY <2>1, NotRefused DEF Verdicts
    <2>3. QED
      BY <1>1, <1>3, <2>2, DecisionUpdateFields DEF DecideInv
  <1>4. QED
    BY <1>2, <1>3

-----------------------------------------------------------------------------
(* Types *)

(* A worker at rest.                                                       *)
LEMMA RestingType == Resting \in Procs
  <1>1. 0 \in 0..MaxControl
    BY PublicationAssumption
  <1>2. QED
    BY <1>1 DEF Resting, Procs, Datasets

(* A commit adds its Dataset to the moves of every plan.                   *)
LEMMA PlansMovedType ==
    ASSUME plans \in Seq(Plans), NEW d \in Datasets, PlansMoved(d)
    PROVE  /\ plans' \in Seq(Plans) /\ Len(plans') = Len(plans)
           /\ \A i \in DOMAIN plans :
                /\ plans'[i].pubs = plans[i].pubs
                /\ plans'[i].moved = plans[i].moved \cup {d}
  <1>1. \A i \in 1..Len(plans) : plans[i] \in Plans
    OBVIOUS
  <1>2. plans' = [i \in 1..Len(plans) |-> [plans[i] EXCEPT !.moved = @ \cup {d}]]
    BY DEF PlansMoved
  <1>3. \A i \in 1..Len(plans) :
          /\ plans'[i] \in Plans /\ plans'[i].pubs = plans[i].pubs
          /\ plans'[i].moved = plans[i].moved \cup {d}
    BY <1>1, <1>2 DEF Plans, Datasets
  <1>4. QED
    BY <1>2, <1>3

(* A commit marks the other workers at most stale.                         *)
LEMMA MovedType ==
    ASSUME proc \in [Workers -> Procs], NEW w \in Workers, NEW d \in Datasets,
           NEW new \in Procs, Moved(w, d, new)
    PROVE  /\ proc' \in [Workers -> Procs] /\ proc'[w] = new
           /\ \A v \in Workers \ {w} :
                proc'[v] = [proc[v] EXCEPT
                              !.stale = @ \/ (proc[v].on = d /\ proc[v].at = "commit")]
  <1>1. \A v \in Workers :
          proc'[v] = IF v = w THEN new
                     ELSE [proc[v] EXCEPT
                             !.stale = @ \/ (proc[v].on = d /\ proc[v].at = "commit")]
    BY DEF Moved
  <1>2. \A v \in Workers : proc'[v] \in Procs
    <2> SUFFICES ASSUME NEW v \in Workers, v # w
                 PROVE  proc'[v] \in Procs
      BY <1>1
    <2>1. (proc[v].stale \/ (proc[v].on = d /\ proc[v].at = "commit")) \in BOOLEAN
      OBVIOUS
    <2>2. proc'[v] = [proc[v] EXCEPT
                        !.stale = @ \/ (proc[v].on = d /\ proc[v].at = "commit")]
      BY <1>1
    <2>3. QED
      BY <2>1, <2>2 DEF Procs
  <1>3. QED
    BY <1>1, <1>2 DEF Moved

(* Finish leaves a worker about to release its lease.                      *)
LEMMA FinishType ==
    ASSUME proc \in [Workers -> Procs], NEW w \in Workers, NEW ok \in BOOLEAN,
           Finish(w, ok)
    PROVE  /\ proc' \in [Workers -> Procs]
           /\ proc' = [proc EXCEPT ![w] = proc'[w]]
           /\ proc'[w] = [proc[w] EXCEPT !.at = "release", !.ok = ok, !.upd = Absent,
                                         !.stale = FALSE]
  <1> DEFINE new == [proc[w] EXCEPT !.at = "release", !.ok = ok, !.upd = Absent,
                                    !.stale = FALSE]
  <1>1. proc' = [proc EXCEPT ![w] = new]
    BY DEF Finish
  <1>2. new \in Procs
    BY DEF Procs
  <1> HIDE DEF new
  <1>3. proc'[w] = new /\ proc' \in [Workers -> Procs]
    BY <1>1, <1>2
  <1>4. QED
    BY <1>1, <1>3 DEF new

-----------------------------------------------------------------------------
(* What a step does to the workers *)

(* The result Dataset only grows.                                          *)
Growth ==
    /\ results \in Seq(Commits) /\ results' \in Seq(Commits)
    /\ Len(results) <= Len(results')
    /\ \A i \in 1..Len(results) : results'[i] = results[i]

(* A plan keeps its publications.                                          *)
PlansGrow ==
    /\ DOMAIN plans \subseteq DOMAIN plans'
    /\ \A i \in DOMAIN plans : plans'[i].pubs = plans[i].pubs

(* A worker that does not take the step goes on with the same work, and    *)
(* stays fresh only if the index has not moved.                            *)
Kept(v) ==
    /\ proc'[v].op = proc[v].op /\ proc'[v].item = proc[v].item
    /\ proc'[v].plan = proc[v].plan /\ proc'[v].content = proc[v].content
    /\ proc'[v].at = proc[v].at /\ proc'[v].on = proc[v].on
    /\ proc'[v].rev = proc[v].rev /\ proc'[v].tries = proc[v].tries
    /\ proc'[v].ok = proc[v].ok
    /\ Fresh(v)' => Fresh(v) /\ index' = index /\ proc'[v].upd = proc[v].upd

ProcOK(v) == PublishInv(v) /\ DecideInv(v) /\ CutoverInv(v) /\ RestInv(v)

(* A step of w: its own part of the invariant, and what it leaves alone.   *)
StepOf(w) ==
    /\ Types' /\ Growth /\ PlansGrow
    /\ index.exists => index'.exists
    /\ \A v \in Workers \ {w} : Kept(v)
    /\ ProcOK(w)'

(* What was in the result Dataset stays there.                             *)
LEMMA GoodRowKept ==
    ASSUME Growth, NEW x, GoodRow(x)
    PROVE  /\ x \in Rows /\ x.rev \in DOMAIN results'
           /\ results'[x.rev].files[x.pub] = x.content
  <1>1. x.rev \in 1..Len(results) /\ DOMAIN results' = 1..Len(results')
    BY DEF GoodRow, Growth
  <1>2. x.rev \in 1..Len(results') /\ results'[x.rev] = results[x.rev]
    BY <1>1 DEF Growth
  <1>3. QED
    BY <1>1, <1>2 DEF GoodRow

(* A result Dataset with a commit keeps it.                                *)
LEMMA SomeResult ==
    ASSUME Growth, results # <<>>
    PROVE  results' # <<>>
  <1>1. Len(results) \in Nat /\ Len(results) # 0 /\ Len(results') \in Nat
    BY DEF Growth
  <1>2. QED
    BY <1>1 DEF Growth

(* The workers that do not take the step keep their part of the invariant. *)
LEMMA KeptOK ==
    ASSUME Types, Growth, PlansGrow, index.exists => index'.exists,
           NEW v \in Workers, Kept(v), ProcOK(v)
    PROVE  ProcOK(v)'
  <1>1. PublishInv(v)'
    <2> SUFFICES ASSUME proc'[v].op = "publish"
                 PROVE  PublishInv(v)'
      BY DEF PublishInv
    <2>1. /\ proc[v].item \in Pubs /\ index.exists /\ results # <<>>
          /\ proc[v].tries < MaxAttempts /\ proc[v].op = "publish"
      BY DEF Kept, ProcOK, PublishInv
    <2>2. results' # <<>>
      BY <2>1, SomeResult
    <2>3. ASSUME proc'[v].on = "index" \/ (proc'[v].at = "release" /\ proc'[v].ok)
          PROVE  GoodRow(Row(proc[v].item, proc[v].rev, proc[v].content))'
      <3>1. GoodRow(Row(proc[v].item, proc[v].rev, proc[v].content))
        BY <2>1, <2>3 DEF Kept, ProcOK, PublishInv
      <3> DEFINE x == Row(proc[v].item, proc[v].rev, proc[v].content)
      <3>2. /\ x \in Rows /\ x.rev \in DOMAIN results'
            /\ results'[x.rev].files[x.pub] = x.content
        <4> HIDE DEF x
        <4>1. GoodRow(x)
          BY <3>1 DEF x
        <4> QED
          BY <4>1, GoodRowKept
      <3>3. x = Row(proc'[v].item, proc'[v].rev, proc'[v].content)
        BY DEF Kept
      <3>4. QED
        BY <3>2, <3>3 DEF GoodRow
    <2>4. ASSUME Fresh(v)'
          PROVE  /\ ~SnapshotMissing(index)'
                 /\ proc'[v].upd = IndexUpdate(index, PublishedRow(v))'
      <3>1. Fresh(v) /\ index' = index /\ proc'[v].upd = proc[v].upd
        BY <2>4 DEF Kept
      <3>2. ~SnapshotMissing(index) /\ proc[v].upd = IndexUpdate(index, PublishedRow(v))
        BY <2>1, <3>1 DEF ProcOK, PublishInv
      <3>3. PublishedRow(v)' = PublishedRow(v)
        BY <3>1 DEF PublishedRow, Kept
      <3>4. QED
        BY <3>1, <3>2, <3>3
    <2>5. QED
      BY <2>1, <2>2, <2>3, <2>4 DEF PublishInv, Kept
  <1>2. DecideInv(v)'
    BY DEF ProcOK, DecideInv, Kept
  <1>3. CutoverInv(v)'
    <2> SUFFICES ASSUME proc'[v].op = "cutover"
                 PROVE  CutoverInv(v)'
      BY DEF CutoverInv
    <2>1. proc[v].plan \in DOMAIN plans /\ proc[v].op = "cutover"
      BY DEF Kept, ProcOK, CutoverInv
    <2>2. /\ proc'[v].plan \in DOMAIN plans'
          /\ plans'[proc'[v].plan].pubs = plans[proc[v].plan].pubs
      BY <2>1 DEF Kept, PlansGrow
    <2>3. ASSUME proc'[v].on = "index" /\ proc'[v].at = "commit"
          PROVE  /\ proc'[v].rev \in DOMAIN results'
                 /\ \A p \in plans'[proc'[v].plan].pubs :
                      results'[proc'[v].rev].files[p] = Migrated
      <3>1. /\ proc[v].rev \in DOMAIN results
            /\ \A p \in plans[proc[v].plan].pubs : results[proc[v].rev].files[p] = Migrated
        BY <2>1, <2>3 DEF Kept, ProcOK, CutoverInv
      <3>2. proc[v].rev \in 1..Len(results) /\ DOMAIN results' = 1..Len(results')
        BY <3>1 DEF Growth
      <3>3. proc[v].rev \in 1..Len(results') /\ results'[proc[v].rev] = results[proc[v].rev]
        BY <3>2 DEF Growth
      <3>4. QED
        BY <2>2, <3>1, <3>2, <3>3 DEF Kept
    <2>4. QED
      BY <2>1, <2>2, <2>3 DEF CutoverInv, Kept, ProcOK
  <1>4. RestInv(v)'
    BY DEF ProcOK, RestInv, Kept
  <1>5. QED
    BY <1>1, <1>2, <1>3, <1>4 DEF ProcOK

(* A step of one worker keeps the workers' part of the invariant.          *)
LEMMA StepOfKeeps ==
    ASSUME Inv, NEW w \in Workers, StepOf(w)
    PROVE  ProcInv'
  <1>1. Types /\ \A v \in Workers : ProcOK(v)
    BY DEF Inv, ProcInv, ProcOK
  <1>2. ASSUME NEW v \in Workers
        PROVE  ProcOK(v)'
    <2>1. CASE v = w
      BY <2>1 DEF StepOf
    <2>2. CASE v # w
      <3>1. Growth /\ PlansGrow /\ (index.exists => index'.exists) /\ Kept(v)
        BY <2>2 DEF StepOf
      <3>2. QED
        BY <1>1, <3>1, KeptOK
    <2>3. QED
      BY <2>1, <2>2
  <1>3. QED
    BY <1>2 DEF ProcInv, ProcOK

(* Nothing is committed.                                                   *)
Quiet == UNCHANGED <<results, index, plans>> /\ control' \in 0..MaxControl
         /\ faults' \in 0..MaxFaults

(* A step of one worker that commits nothing.                              *)
LEMMA QuietStep ==
    ASSUME Inv, Quiet, NEW w \in Workers, NEW new \in Procs,
           proc' = [proc EXCEPT ![w] = new], ProcOK(w)'
    PROVE  StepOf(w)
  <1>1. proc' \in [Workers -> Procs] /\ \A v \in Workers \ {w} : proc'[v] = proc[v]
    BY DEF Inv, Types
  <1>2. Types'
    BY <1>1 DEF Quiet, Inv, Types
  <1>3. Growth /\ PlansGrow
    BY DEF Quiet, Inv, Types, Growth, PlansGrow
  <1>4. ASSUME NEW v \in Workers \ {w}
        PROVE  Kept(v)
    BY <1>1 DEF Kept, Fresh, Quiet
  <1>5. QED
    BY <1>2, <1>3, <1>4 DEF StepOf, Quiet

(* Faults stay within their bound.                                         *)
LEMMA FaultsType ==
    ASSUME faults \in 0..MaxFaults, Fault \/ NoFault
    PROVE  faults' \in 0..MaxFaults
  BY PublicationAssumption DEF Fault, NoFault

-----------------------------------------------------------------------------
(* The steps that commit nothing *)

(* A worker that gives up, or was refused for good, keeps what it has.     *)
LEMMA FinishOK ==
    ASSUME Inv, Quiet, NEW w \in Workers, proc[w].op # "none", NEW ok \in BOOLEAN,
           Finish(w, ok),
           proc[w].op = "publish" /\ proc[w].on = "result" => ~ok
    PROVE  StepOf(w)
  <1> DEFINE new == [proc[w] EXCEPT !.at = "release", !.ok = ok, !.upd = Absent,
                                    !.stale = FALSE]
  <1>1. proc \in [Workers -> Procs] /\ ProcOK(w)
    BY DEF Inv, Types, ProcInv, ProcOK
  <1>2. proc' = [proc EXCEPT ![w] = proc'[w]] /\ proc'[w] = new
    BY <1>1, FinishType
  <1>3. proc'[w] \in Procs
    BY <1>1, FinishType
  <1>4. /\ proc'[w].op = proc[w].op /\ proc'[w].item = proc[w].item
        /\ proc'[w].plan = proc[w].plan /\ proc'[w].content = proc[w].content
        /\ proc'[w].at = "release" /\ proc'[w].on = proc[w].on
        /\ proc'[w].rev = proc[w].rev /\ proc'[w].tries = proc[w].tries
        /\ proc'[w].ok = ok
    BY <1>1, <1>2 DEF Procs
  <1>5. ProcOK(w)'
    <2>1. PublishInv(w)'
      <3>1. proc[w].on \in {"index", "result"}
        BY <1>1 DEF Procs, Datasets
      <3>2. QED
        BY <1>1, <1>4, <3>1 DEF ProcOK, PublishInv, Fresh, Quiet, GoodRow
    <2>2. DecideInv(w)'
      BY <1>1, <1>4 DEF ProcOK, DecideInv, Fresh, Quiet
    <2>3. CutoverInv(w)'
      BY <1>1, <1>4 DEF ProcOK, CutoverInv, Quiet
    <2>4. QED
      BY <1>4, <2>1, <2>2, <2>3 DEF ProcOK, RestInv
  <1>6. QED
    BY <1>2, <1>3, <1>5, QuietStep

(* A worker that comes to rest.                                            *)
LEMMA RestOK ==
    ASSUME Inv, Quiet, NEW w \in Workers, proc' = [proc EXCEPT ![w] = Resting]
    PROVE  StepOf(w)
  <1>1. proc'[w] = Resting
    BY DEF Inv, Types
  <1>2. /\ proc'[w].op = "none" /\ proc'[w].at = "rest" /\ proc'[w].tries = 0
    BY <1>1 DEF Resting
  <1>3. ProcOK(w)'
    BY <1>2 DEF ProcOK, PublishInv, DecideInv, CutoverInv, RestInv
  <1>4. QED
    BY <1>3, RestingType, QuietStep

(* The next attempt of a contended commit, or its end.                     *)
LEMMA ContendedOK ==
    ASSUME Inv, NEW w \in Workers, proc[w].op \in {"publish", "decide"},
           Contended(w), UNCHANGED control
    PROVE  StepOf(w) /\ Quiet
  <1>1. /\ proc \in [Workers -> Procs] /\ ProcOK(w) /\ faults \in 0..MaxFaults
        /\ control \in 0..MaxControl
    BY DEF Inv, Types, ProcInv, ProcOK
  <1>2. Quiet
    BY <1>1, FaultsType DEF Contended, Quiet
  <1>3. CASE proc[w].tries + 1 < MaxAttempts
    <2> DEFINE new == [proc[w] EXCEPT !.at = "read", !.stale = FALSE, !.tries = @ + 1,
                                      !.upd = Absent]
    <2>1. proc' = [proc EXCEPT ![w] = new]
      BY <1>3 DEF Contended
    <2>2. new \in Procs
      <3>1. proc[w].tries + 1 \in Nat
        BY <1>1 DEF Procs
      <3>2. QED
        BY <1>1, <3>1 DEF Procs
    <2>3. /\ new.op = proc[w].op /\ new.item = proc[w].item
          /\ new.plan = proc[w].plan /\ new.content = proc[w].content
          /\ new.at = "read" /\ new.on = proc[w].on
          /\ new.rev = proc[w].rev /\ new.tries = proc[w].tries + 1
          /\ new.ok = proc[w].ok
      BY <1>1 DEF Procs
    <2> HIDE DEF new
    <2>4. proc'[w] = new
      BY <1>1, <2>1
    <2>5. ProcOK(w)'
      <3>1. PublishInv(w)'
        BY <1>1, <1>2, <1>3, <2>3, <2>4 DEF ProcOK, PublishInv, Fresh, Quiet, GoodRow
      <3>2. DecideInv(w)'
        BY <1>1, <1>2, <1>3, <2>3, <2>4 DEF ProcOK, DecideInv, Fresh, Quiet
      <3>3. QED
        BY <2>3, <2>4, <3>1, <3>2 DEF ProcOK, CutoverInv, RestInv
    <2>6. QED
      BY <1>2, <2>1, <2>2, <2>5, QuietStep
  <1>4. CASE ~(proc[w].tries + 1 < MaxAttempts)
    <2>1. Finish(w, FALSE)
      BY <1>4 DEF Contended
    <2>2. QED
      BY <1>2, <2>1, FinishOK
  <1>5. QED
    BY <1>3, <1>4

(* Acquire.                                                                *)
LEMMA AcquireOK ==
    ASSUME Inv, NEW w \in Workers, Acquire(w)
    PROVE  StepOf(w) /\ Quiet
  <1>1. /\ proc \in [Workers -> Procs] /\ ProcOK(w) /\ faults \in 0..MaxFaults
        /\ control \in 0..MaxControl
    BY DEF Inv, Types, ProcInv, ProcOK
  <1>2. Quiet
    BY <1>1 DEF Acquire, Quiet
  <1>3. CASE Acquirable(proc[w].on)
    <2> DEFINE new == [proc[w] EXCEPT !.at = "read"]
    <2>1. proc' = [proc EXCEPT ![w] = new] /\ proc[w].at = "lease" /\ proc[w].op # "cutover"
      BY <1>3 DEF Acquire
    <2>2. new \in Procs
      BY <1>1 DEF Procs
    <2>3. /\ new.op = proc[w].op /\ new.item = proc[w].item
          /\ new.plan = proc[w].plan /\ new.content = proc[w].content
          /\ new.at = "read" /\ new.on = proc[w].on
          /\ new.rev = proc[w].rev /\ new.tries = proc[w].tries
          /\ new.ok = proc[w].ok
      BY <1>1 DEF Procs
    <2> HIDE DEF new
    <2>4. proc'[w] = new
      BY <1>1, <2>1
    <2>5. ProcOK(w)'
      <3>1. PublishInv(w)'
        BY <1>1, <1>2, <2>3, <2>4 DEF ProcOK, PublishInv, Fresh, Quiet, GoodRow
      <3>2. DecideInv(w)'
        BY <1>1, <1>2, <2>3, <2>4 DEF ProcOK, DecideInv, Fresh, Quiet
      <3>3. QED
        BY <1>1, <2>1, <2>3, <2>4, <3>1, <3>2 DEF ProcOK, CutoverInv, RestInv
    <2>6. QED
      BY <1>2, <2>1, <2>2, <2>5, QuietStep
  <1>4. CASE ~Acquirable(proc[w].on)
    <2>1. proc' = [proc EXCEPT ![w] = Resting]
      BY <1>4 DEF Acquire
    <2>2. QED
      BY <1>2, <2>1, RestOK
  <1>5. QED
    BY <1>3, <1>4

(* Release.                                                                *)
LEMMA ReleaseOK ==
    ASSUME Inv, NEW w \in Workers, Release(w)
    PROVE  StepOf(w) /\ Quiet
  <1>1. /\ proc \in [Workers -> Procs] /\ ProcOK(w) /\ faults \in 0..MaxFaults
        /\ control \in 0..MaxControl
    BY DEF Inv, Types, ProcInv, ProcOK
  <1>2. Quiet
    BY <1>1 DEF Release, Quiet
  <1>3. PICK mine : proc' = [proc EXCEPT ![w] = NextDataset(w, mine)]
    BY DEF Release
  <1>4. proc[w].at = "release"
    BY DEF Release
  <1>5. CASE proc[w].op = "publish" /\ proc[w].on = "result" /\ proc[w].ok /\ mine
    <2> DEFINE new == [proc[w] EXCEPT !.at = "lease", !.on = "index", !.tries = 0,
                                      !.ok = FALSE]
    <2>1. proc' = [proc EXCEPT ![w] = new]
      BY <1>3, <1>5 DEF NextDataset
    <2>2. new \in Procs
      BY <1>1 DEF Procs, Datasets
    <2>3. /\ new.op = "publish" /\ new.item = proc[w].item
          /\ new.content = proc[w].content /\ new.at = "lease"
          /\ new.rev = proc[w].rev /\ new.tries = 0
      BY <1>1, <1>5 DEF Procs
    <2> HIDE DEF new
    <2>4. proc'[w] = new
      BY <1>1, <2>1
    <2>5. ProcOK(w)'
      <3>1. PublishInv(w)'
        BY <1>1, <1>2, <1>4, <1>5, <2>3, <2>4, PublicationAssumption
           DEF ProcOK, PublishInv, Fresh, Quiet, GoodRow
      <3>2. QED
        BY <2>3, <2>4, <3>1 DEF ProcOK, DecideInv, CutoverInv, RestInv
    <2>6. QED
      BY <1>2, <2>1, <2>2, <2>5, QuietStep
  <1>6. CASE ~(proc[w].op = "publish" /\ proc[w].on = "result" /\ proc[w].ok /\ mine)
    <2>1. proc' = [proc EXCEPT ![w] = Resting]
      BY <1>3, <1>6 DEF NextDataset
    <2>2. QED
      BY <1>2, <2>1, RestOK
  <1>7. QED
    BY <1>5, <1>6

(* ReadResult.                                                             *)
LEMMA ReadResultOK ==
    ASSUME Inv, NEW w \in Workers, ReadResult(w)
    PROVE  StepOf(w) /\ Quiet
  <1>1. /\ proc \in [Workers -> Procs] /\ ProcOK(w) /\ faults \in 0..MaxFaults
        /\ control \in 0..MaxControl /\ results \in Seq(Commits)
    BY DEF Inv, Types, ProcInv, ProcOK
  <1>2. Quiet
    BY <1>1 DEF ReadResult, Quiet
  <1>3. /\ proc[w].op = "publish" /\ proc[w].at = "read" /\ proc[w].on = "result"
        /\ proc[w].item \in Pubs /\ results # <<>>
    BY <1>1 DEF ReadResult, ProcOK, PublishInv
  <1>4. /\ Len(results) \in DOMAIN results /\ Len(results) \in Nat
        /\ results[Len(results)] \in Commits
    BY <1>1, <1>3
  <1> DEFINE head == results[Len(results)].files[proc[w].item]
  <1>5. CASE head = Absent
    <2> DEFINE new == [proc[w] EXCEPT !.at = "commit"]
    <2>1. proc' = [proc EXCEPT ![w] = new]
      BY <1>5 DEF ReadResult
    <2>2. new \in Procs
      BY <1>1 DEF Procs
    <2>3. /\ new.op = "publish" /\ new.item = proc[w].item /\ new.at = "commit"
          /\ new.on = "result" /\ new.tries = proc[w].tries
      BY <1>1, <1>3 DEF Procs
    <2> HIDE DEF new
    <2>4. proc'[w] = new
      BY <1>1, <2>1
    <2>5. ProcOK(w)'
      BY <1>1, <1>2, <1>3, <2>3, <2>4
         DEF ProcOK, PublishInv, DecideInv, CutoverInv, RestInv, Fresh, Quiet
    <2>6. QED
      BY <1>2, <2>1, <2>2, <2>5, QuietStep
  <1>6. CASE head # Absent
    <2> DEFINE new == [proc[w] EXCEPT !.at = "release",
                         !.ok = AdoptResult(proc[w].item, proc[w].content),
                         !.rev = Len(results)]
    <2>1. proc' = [proc EXCEPT ![w] = new]
      BY <1>6 DEF ReadResult
    <2>2. new \in Procs
      <3>1. AdoptResult(proc[w].item, proc[w].content) \in BOOLEAN
        BY DEF AdoptResult
      <3>2. QED
        BY <1>1, <1>4, <3>1 DEF Procs
    <2>3. /\ new.op = "publish" /\ new.item = proc[w].item /\ new.at = "release"
          /\ new.content = proc[w].content
          /\ new.on = "result" /\ new.tries = proc[w].tries /\ new.rev = Len(results)
          /\ new.ok = (head = proc[w].content)
      BY <1>1, <1>3 DEF Procs, AdoptResult
    <2> HIDE DEF new
    <2>4. proc'[w] = new
      BY <1>1, <2>1
    <2>5. PublishInv(w)'
      <3>1. ASSUME proc'[w].ok
            PROVE  GoodRow(Row(proc[w].item, proc[w].rev, proc[w].content))'
        <4>1. proc[w].content \in 0..MaxControl
          BY <1>1 DEF Procs
        <4>2. Len(results) \in Nat \ {0}
          BY <1>4, <1>1
        <4>3. Row(proc[w].item, Len(results), proc[w].content) \in Rows
          BY <1>3, <4>1, <4>2 DEF Row, Rows, Content
        <4>4. head = proc[w].content
          BY <2>3, <2>4, <3>1
        <4>5. QED
          BY <1>2, <1>4, <2>3, <2>4, <4>3, <4>4 DEF GoodRow, Row, Quiet
      <3>2. QED
        BY <1>1, <1>2, <1>3, <2>3, <2>4, <3>1 DEF ProcOK, PublishInv, Fresh, Quiet
    <2>6. ProcOK(w)'
      BY <2>3, <2>4, <2>5 DEF ProcOK, DecideInv, CutoverInv, RestInv
    <2>7. QED
      BY <1>2, <2>1, <2>2, <2>6, QuietStep
  <1>7. QED
    BY <1>5, <1>6

(* ReadIndex.                                                              *)
LEMMA ReadIndexOK ==
    ASSUME Inv, NEW w \in Workers, ReadIndex(w)
    PROVE  StepOf(w) /\ Quiet
  <1>1. /\ proc \in [Workers -> Procs] /\ ProcOK(w) /\ faults \in 0..MaxFaults
        /\ control \in 0..MaxControl /\ index \in Trees /\ Types /\ RowsInv
    BY DEF Inv, Types, ProcInv, ProcOK
  <1>2. Quiet
    BY <1>1 DEF ReadIndex, Quiet
  <1>3. proc[w].op = "publish" /\ proc[w].at = "read" /\ proc[w].on = "index"
    BY DEF ReadIndex
  <1> DEFINE receipt == index.receipts[proc[w].item]
             rev == IF receipt = Absent THEN proc[w].rev ELSE receipt.rev
             row == Row(proc[w].item, rev, proc[w].content)
             refused == (receipt # Absent /\ receipt # row) \/ SnapshotMissing(index)
             same == receipt # Absent /\ IndexUpdate(index, row) = index
  <1>4. CASE refused
    <2>1. Finish(w, FALSE)
      BY <1>4 DEF ReadIndex
    <2>2. QED
      BY <1>2, <1>3, <2>1, FinishOK
  <1>5. CASE ~refused /\ same
    <2>1. Finish(w, TRUE)
      BY <1>5 DEF ReadIndex
    <2>2. QED
      BY <1>2, <1>3, <2>1, FinishOK
  <1>6. CASE ~refused /\ ~same
    <2> DEFINE new == [proc[w] EXCEPT !.at = "commit", !.upd = IndexUpdate(index, row)]
    <2>1. proc' = [proc EXCEPT ![w] = new]
      BY <1>6 DEF ReadIndex
    <2>2. row = PublishedRow(w)
      BY <1>6 DEF PublishedRow
    <2>3. row \in Rows
      BY <1>1, <1>3, <2>2, PublishedRowGood DEF GoodRow, ProcOK
    <2>4. IndexUpdate(index, row) \in Trees
      BY <1>1, <2>3, IndexUpdateFields
    <2>5. ~SnapshotMissing(index)
      BY <1>6
    <2> HIDE DEF row
    <2>6. new \in Procs
      BY <1>1, <2>4 DEF Procs
    <2>7. /\ new.op = "publish" /\ new.item = proc[w].item /\ new.content = proc[w].content
          /\ new.rev = proc[w].rev /\ new.on = "index" /\ new.tries = proc[w].tries
          /\ new.upd = IndexUpdate(index, row)
      BY <1>1, <1>3 DEF Procs
    <2> HIDE DEF new
    <2>8. proc'[w] = new
      BY <1>1, <2>1
    <2>9. PublishedRow(w)' = row /\ index' = index /\ results' = results
      BY <1>2, <2>2, <2>7, <2>8 DEF PublishedRow, Quiet
    <2>10. PublishInv(w)'
      BY <1>1, <1>3, <2>5, <2>7, <2>8, <2>9 DEF ProcOK, PublishInv, GoodRow
    <2>11. ProcOK(w)'
      BY <2>7, <2>8, <2>10 DEF ProcOK, DecideInv, CutoverInv, RestInv
    <2>12. QED
      BY <1>2, <2>1, <2>6, <2>11, QuietStep
  <1>7. QED
    BY <1>4, <1>5, <1>6

(* ReadDecision.                                                           *)
LEMMA ReadDecisionOK ==
    ASSUME Inv, NEW w \in Workers, ReadDecision(w)
    PROVE  StepOf(w) /\ Quiet
  <1>1. /\ proc \in [Workers -> Procs] /\ ProcOK(w) /\ faults \in 0..MaxFaults
        /\ control \in 0..MaxControl /\ index \in Trees
    BY DEF Inv, Types, ProcInv, ProcOK
  <1>2. Quiet
    BY <1>1 DEF ReadDecision, Quiet
  <1>3. /\ proc[w].op = "decide" /\ proc[w].at = "read" /\ proc[w].on = "index"
        /\ proc[w].item \in DOMAIN Decisions
    BY <1>1 DEF ReadDecision, ProcOK, DecideInv
  <1> DEFINE d == Decisions[proc[w].item]
  <1>4. CASE d \in index.events
    <2>1. Finish(w, TRUE)
      BY <1>4 DEF ReadDecision
    <2>2. QED
      BY <1>2, <1>3, <2>1, FinishOK
  <1>5. CASE d \notin index.events /\ Refused(index, d)
    <2>1. Finish(w, FALSE)
      BY <1>5 DEF ReadDecision
    <2>2. QED
      BY <1>2, <1>3, <2>1, FinishOK
  <1>6. CASE d \notin index.events /\ ~Refused(index, d)
    <2> DEFINE upd == DecisionUpdate(index, d)
               new == [proc[w] EXCEPT !.at = "commit", !.upd = upd]
    <2>1. proc' = [proc EXCEPT ![w] = new]
      BY <1>6 DEF ReadDecision
    <2>2. d \in Verdicts /\ index.lookup[d.pub] # Absent /\ index.primary # NoWindow
      BY <1>3, <1>6, NotRefused DEF Verdicts
    <2>3. upd \in Trees
      BY <1>1, <2>2, DecisionUpdateFields
    <2> HIDE DEF upd
    <2>4. new \in Procs
      BY <1>1, <2>3 DEF Procs
    <2>5. /\ new.op = "decide" /\ new.item = proc[w].item /\ new.on = "index"
          /\ new.tries = proc[w].tries /\ new.upd = upd
      BY <1>1, <1>3 DEF Procs
    <2> HIDE DEF new
    <2>6. proc'[w] = new
      BY <1>1, <2>1
    <2>7. DecideInv(w)'
      BY <1>1, <1>2, <1>3, <1>6, <2>5, <2>6 DEF ProcOK, DecideInv, Quiet, upd
    <2>8. ProcOK(w)'
      BY <2>5, <2>6, <2>7 DEF ProcOK, PublishInv, CutoverInv, RestInv
    <2>9. QED
      BY <1>2, <2>1, <2>4, <2>8, QuietStep
  <1>7. QED
    BY <1>4, <1>5, <1>6

(* AcquireBoth.                                                            *)
LEMMA AcquireBothOK ==
    ASSUME Inv, NEW w \in Workers, AcquireBoth(w)
    PROVE  StepOf(w) /\ Quiet
  <1>1. /\ proc \in [Workers -> Procs] /\ ProcOK(w) /\ faults \in 0..MaxFaults
        /\ control \in 0..MaxControl
    BY DEF Inv, Types, ProcInv, ProcOK
  <1>2. Quiet
    BY <1>1 DEF AcquireBoth, Quiet
  <1>3. /\ proc[w].op = "cutover" /\ proc[w].plan \in DOMAIN plans /\ proc[w].tries \in Nat
        /\ proc[w].at = "lease"
    BY <1>1 DEF AcquireBoth, ProcOK, CutoverInv, Procs
  <1>4. CASE Acquirable(proc[w].on)
    <2> DEFINE next == IF proc[w].on = "index" THEN "lease" ELSE "read"
               new == [proc[w] EXCEPT !.on = "result", !.tries = @ + 1, !.at = next]
    <2>1. proc' = [proc EXCEPT ![w] = new]
      BY <1>4 DEF AcquireBoth
    <2>2. next \in {"rest", "lease", "read", "commit", "release"} /\ proc[w].tries + 1 \in Nat
      BY <1>3
    <2>3. proc[w].tries = IF proc[w].on = "index" THEN 0 ELSE 1
      BY <1>1, <1>3 DEF ProcOK, CutoverInv
    <2>4. next = "lease" => proc[w].tries = 0
      BY <2>3
    <2>5. proc[w].tries + 1 \in 0..2
      BY <2>3
    <2> HIDE DEF next
    <2>6. new \in Procs
      BY <1>1, <2>2 DEF Procs, Datasets
    <2>7. /\ new.op = "cutover" /\ new.plan = proc[w].plan /\ new.at = next
          /\ new.on = "result" /\ new.tries = proc[w].tries + 1
      BY <1>1, <1>3 DEF Procs
    <2> HIDE DEF new
    <2>8. proc'[w] = new
      BY <1>1, <2>1
    <2>9. CutoverInv(w)'
      BY <1>2, <1>3, <2>4, <2>5, <2>7, <2>8 DEF CutoverInv, Quiet
    <2>10. ProcOK(w)'
      BY <2>7, <2>8, <2>9 DEF ProcOK, PublishInv, DecideInv, RestInv
    <2>11. QED
      BY <1>2, <2>1, <2>6, <2>10, QuietStep
  <1>5. CASE ~Acquirable(proc[w].on)
    <2> DEFINE new == [proc[w] EXCEPT !.at = "release"]
    <2>1. proc' = [proc EXCEPT ![w] = new]
      BY <1>5 DEF AcquireBoth
    <2>2. new \in Procs
      BY <1>1 DEF Procs
    <2>3. /\ new.op = "cutover" /\ new.plan = proc[w].plan /\ new.at = "release"
          /\ new.tries = proc[w].tries
      BY <1>1, <1>3 DEF Procs
    <2> HIDE DEF new
    <2>4. proc'[w] = new
      BY <1>1, <2>1
    <2>5. CutoverInv(w)'
      BY <1>1, <1>2, <1>3, <2>3, <2>4 DEF ProcOK, CutoverInv, Quiet
    <2>6. ProcOK(w)'
      BY <2>3, <2>4, <2>5 DEF ProcOK, PublishInv, DecideInv, RestInv
    <2>7. QED
      BY <1>2, <2>1, <2>2, <2>6, QuietStep
  <1>6. QED
    BY <1>4, <1>5

(* ReadCutover.                                                            *)
LEMMA ReadCutoverOK ==
    ASSUME Inv, NEW w \in Workers, ReadCutover(w)
    PROVE  StepOf(w) /\ Quiet
  <1>1. /\ proc \in [Workers -> Procs] /\ ProcOK(w) /\ faults \in 0..MaxFaults
        /\ control \in 0..MaxControl /\ results \in Seq(Commits) /\ PlansInv
    BY DEF Inv, Types, ProcInv, ProcOK
  <1>2. Quiet
    BY <1>1 DEF ReadCutover, Quiet
  <1>3. /\ proc[w].op = "cutover" /\ proc[w].plan \in DOMAIN plans /\ proc[w].at = "read"
    BY <1>1 DEF ReadCutover, ProcOK, CutoverInv
  <1>4. results # <<>>
    BY <1>1, <1>3 DEF PlansInv
  <1>5. Len(results) \in DOMAIN results /\ Len(results) \in Nat
    BY <1>1, <1>4
  <1> DEFINE plan == plans[proc[w].plan]
             head == results[Len(results)]
             migrated == plan.id \in head.markers
                         /\ \A p \in plan.pubs : head.files[p] = Migrated
  <1>6. CASE "index" \in plan.moved
    <2>1. Finish(w, CompletedCutover(plan))
      BY <1>6 DEF ReadCutover
    <2>2. CompletedCutover(plan) \in BOOLEAN
      BY DEF CompletedCutover
    <2>3. QED
      BY <1>2, <1>3, <2>1, <2>2, FinishOK
  <1>7. CASE "index" \notin plan.moved /\ Len(results) = plan.base
    <2> DEFINE new == [proc[w] EXCEPT !.at = "commit", !.on = "result"]
    <2>1. proc' = [proc EXCEPT ![w] = new]
      BY <1>7 DEF ReadCutover
    <2>2. new \in Procs
      BY <1>1 DEF Procs, Datasets
    <2>3. /\ new.op = "cutover" /\ new.plan = proc[w].plan /\ new.at = "commit"
          /\ new.on = "result" /\ new.tries = proc[w].tries
      BY <1>1, <1>3 DEF Procs
    <2> HIDE DEF new
    <2>4. proc'[w] = new
      BY <1>1, <2>1
    <2>5. CutoverInv(w)'
      BY <1>1, <1>2, <1>3, <2>3, <2>4 DEF ProcOK, CutoverInv, Quiet
    <2>6. ProcOK(w)'
      BY <2>3, <2>4, <2>5 DEF ProcOK, PublishInv, DecideInv, RestInv
    <2>7. QED
      BY <1>2, <2>1, <2>2, <2>6, QuietStep
  <1>8. CASE "index" \notin plan.moved /\ Len(results) # plan.base /\ migrated
    <2> DEFINE new == [proc[w] EXCEPT !.at = "commit", !.on = "index", !.rev = Len(results)]
    <2>1. proc' = [proc EXCEPT ![w] = new]
      BY <1>8 DEF ReadCutover
    <2>2. new \in Procs
      BY <1>1, <1>5 DEF Procs, Datasets
    <2>3. /\ new.op = "cutover" /\ new.plan = proc[w].plan /\ new.at = "commit"
          /\ new.on = "index" /\ new.tries = proc[w].tries /\ new.rev = Len(results)
      BY <1>1, <1>3 DEF Procs
    <2> HIDE DEF new
    <2>4. proc'[w] = new
      BY <1>1, <2>1
    <2>5. CutoverInv(w)'
      BY <1>1, <1>2, <1>3, <1>5, <1>8, <2>3, <2>4 DEF ProcOK, CutoverInv, Quiet
    <2>6. ProcOK(w)'
      BY <2>3, <2>4, <2>5 DEF ProcOK, PublishInv, DecideInv, RestInv
    <2>7. QED
      BY <1>2, <2>1, <2>2, <2>6, QuietStep
  <1>9. CASE "index" \notin plan.moved /\ Len(results) # plan.base /\ ~migrated
    <2>1. Finish(w, FALSE)
      BY <1>9 DEF ReadCutover
    <2>2. QED
      BY <1>2, <1>3, <2>1, FinishOK
  <1>10. QED
    BY <1>6, <1>7, <1>8, <1>9

(* ReleaseBoth.                                                            *)
LEMMA ReleaseBothOK ==
    ASSUME Inv, NEW w \in Workers, ReleaseBoth(w)
    PROVE  StepOf(w) /\ Quiet
  <1>1. Quiet
    BY DEF ReleaseBoth, Quiet, Inv, Types
  <1>2. proc' = [proc EXCEPT ![w] = Resting]
    BY DEF ReleaseBoth
  <1>3. QED
    BY <1>1, <1>2, RestOK

(* Crash.                                                                  *)
LEMMA CrashOK ==
    ASSUME Inv, NEW w \in Workers, Crash(w)
    PROVE  StepOf(w) /\ Quiet
  <1>1. Quiet
    BY FaultsType DEF Crash, Quiet, Inv, Types
  <1>2. proc' = [proc EXCEPT ![w] = Resting]
    BY DEF Crash
  <1>3. QED
    BY <1>1, <1>2, RestOK

(* Decide.                                                                 *)
LEMMA DecideOK ==
    ASSUME Inv, NEW w \in Workers, NEW d \in DOMAIN Decisions, Decide(w, d)
    PROVE  StepOf(w) /\ Quiet
  <1> DEFINE new == [Resting EXCEPT !.op = "decide", !.item = d, !.on = "index",
                                    !.at = "lease"]
  <1>1. Quiet
    BY FaultsType DEF Decide, Quiet, Inv, Types
  <1>2. proc' = [proc EXCEPT ![w] = new] /\ index.exists
    BY DEF Decide, Inv, CatalogInv
  <1>3. new \in Procs
    BY RestingType DEF Procs, Datasets
  <1>4. /\ new.op = "decide" /\ new.item = d /\ new.on = "index" /\ new.at = "lease"
        /\ new.tries = 0
    BY DEF Resting
  <1> HIDE DEF new
  <1>5. proc'[w] = new
    BY <1>2 DEF Inv, Types
  <1>6. DecideInv(w)'
    BY <1>1, <1>2, <1>4, <1>5, PublicationAssumption DEF DecideInv, Fresh, Quiet
  <1>7. ProcOK(w)'
    BY <1>4, <1>5, <1>6 DEF ProcOK, PublishInv, CutoverInv, RestInv
  <1>8. QED
    BY <1>1, <1>2, <1>3, <1>7, QuietStep

-----------------------------------------------------------------------------
(* The steps that commit or start something *)

(* What a step does to the plans: one whose index head has not moved is as *)
(* it was, or has just been written against the present head.              *)
PlanStep ==
    \A i \in DOMAIN plans' :
        "index" \notin plans'[i].moved =>
            /\ index'.legacy = index.legacy
            /\ \/ i \in DOMAIN plans /\ "index" \notin plans[i].moved
               \/ plans'[i].pubs = index.legacy /\ plans'[i].pubs # {}

(* A publication, a decision or a cutover takes the index from the head it *)
(* was computed from.                                                      *)
PublishCommit(x) ==
    /\ GoodRow(x) /\ ~SnapshotMissing(index) /\ index.exists
    /\ index' = IndexUpdate(index, x)

DecisionCommit(d) ==
    /\ d \in Verdicts /\ ~Refused(index, d)
    /\ index' = DecisionUpdate(index, d)

CutoverCommit(i, rev) ==
    /\ i \in DOMAIN plans /\ "index" \notin plans[i].moved
    /\ rev \in DOMAIN results
    /\ \A p \in plans[i].pubs : results[rev].files[p] = Migrated
    /\ index' = CutoverUpdate(index, plans[i], rev)

IndexStep ==
    \/ index' = index
    \/ index' = [index EXCEPT !.exists = TRUE]
    \/ \E x : PublishCommit(x)
    \/ \E d : DecisionCommit(d)
    \/ \E i, rev : CutoverCommit(i, rev)

(* The whole of a step.                                                    *)
Accounted == Types' /\ Growth /\ PlansGrow /\ ProcInv' /\ PlanStep /\ IndexStep
             /\ (plans = <<>> => plans' = <<>> \/ index.legacy # {})

(* A step that commits nothing.                                            *)
LEMMA QuietAccounted ==
    ASSUME Inv, Quiet, NEW w \in Workers, StepOf(w)
    PROVE  Accounted
  <1>1. ProcInv'
    BY StepOfKeeps
  <1>2. Types' /\ Growth /\ PlansGrow
    BY DEF StepOf
  <1>3. PlanStep /\ IndexStep /\ plans' = plans
    BY DEF Quiet, PlanStep, IndexStep
  <1>4. QED
    BY <1>1, <1>2, <1>3 DEF Accounted

(* A commit of w on Dataset d.                                             *)
LEMMA CommitStep ==
    ASSUME Inv, NEW w \in Workers, NEW d \in Datasets, NEW new \in Procs,
           Moved(w, d, new), PlansMoved(d), Growth,
           index' \in Trees, index.exists => index'.exists,
           d = "result" => index' = index,
           UNCHANGED control, faults' \in 0..MaxFaults, ProcOK(w)'
    PROVE  StepOf(w) /\ (d = "index" => PlanStep) /\ (d = "result" => PlanStep)
           /\ (plans = <<>> => plans' = <<>>)
  <1>1. /\ proc \in [Workers -> Procs] /\ plans \in Seq(Plans)
        /\ control \in 0..MaxControl
    BY DEF Inv, Types
  <1>2. /\ proc' \in [Workers -> Procs]
        /\ \A v \in Workers \ {w} :
             proc'[v] = [proc[v] EXCEPT
                           !.stale = @ \/ (proc[v].on = d /\ proc[v].at = "commit")]
    BY <1>1, MovedType
  <1>3. /\ plans' \in Seq(Plans) /\ Len(plans') = Len(plans)
        /\ \A i \in DOMAIN plans :
                /\ plans'[i].pubs = plans[i].pubs
                /\ plans'[i].moved = plans[i].moved \cup {d}
    BY <1>1, PlansMovedType
  <1>4. DOMAIN plans' = DOMAIN plans
    BY <1>1, <1>3
  <1>5. Types'
    BY <1>1, <1>2, <1>3 DEF Types, Growth
  <1>6. PlansGrow
    BY <1>3, <1>4 DEF PlansGrow
  <1>7. ASSUME NEW v \in Workers \ {w}
        PROVE  Kept(v)
    <2>1. proc[v] \in Procs
      BY <1>1
    <2>2. proc'[v] = [proc[v] EXCEPT
                        !.stale = @ \/ (proc[v].on = d /\ proc[v].at = "commit")]
      BY <1>2
    <2>3. /\ proc'[v].op = proc[v].op /\ proc'[v].item = proc[v].item
          /\ proc'[v].plan = proc[v].plan /\ proc'[v].content = proc[v].content
          /\ proc'[v].at = proc[v].at /\ proc'[v].on = proc[v].on
          /\ proc'[v].rev = proc[v].rev /\ proc'[v].tries = proc[v].tries
          /\ proc'[v].ok = proc[v].ok /\ proc'[v].upd = proc[v].upd
      BY <2>1, <2>2 DEF Procs
    <2>4. proc'[v].stale = (proc[v].stale \/ (proc[v].on = d /\ proc[v].at = "commit"))
      BY <2>1, <2>2 DEF Procs
    <2>5. d \in {"index", "result"}
      BY DEF Datasets
    <2>6. Fresh(v)' => Fresh(v) /\ d = "result"
      BY <2>3, <2>4, <2>5 DEF Fresh
    <2>7. QED
      BY <2>3, <2>6 DEF Kept
  <1>8. d = "index" => PlanStep
    BY <1>3, <1>4 DEF PlanStep
  <1>9. d = "result" => PlanStep
    BY <1>3, <1>4 DEF PlanStep
  <1>10. plans = <<>> => plans' = <<>>
    BY <1>1, <1>3
  <1>11. QED
    BY <1>5, <1>6, <1>7, <1>8, <1>9, <1>10 DEF StepOf

(* One commit appended to the result Dataset.                              *)
LEMMA AppendGrows ==
    ASSUME Types, NEW tree \in Commits, results' = Append(results, tree)
    PROVE  /\ Growth /\ Len(results') = Len(results) + 1
           /\ results'[Len(results) + 1] = tree
           /\ Len(results) + 1 \in DOMAIN results'
  BY DEF Types, Growth

(* CommitResult.                                                           *)
LEMMA CommitResultOK ==
    ASSUME Inv, NEW w \in Workers, CommitResult(w)
    PROVE  Accounted
  <1>1. /\ proc \in [Workers -> Procs] /\ ProcOK(w) /\ faults \in 0..MaxFaults
        /\ control \in 0..MaxControl /\ results \in Seq(Commits) /\ Types /\ index \in Trees
    BY DEF Inv, Types, ProcInv, ProcOK
  <1>2. /\ proc[w].op = "publish" /\ proc[w].at = "commit" /\ proc[w].on = "result"
        /\ proc[w].item \in Pubs /\ results # <<>> /\ UNCHANGED control
        /\ proc[w].content \in 0..MaxControl /\ proc[w].tries < MaxAttempts /\ index.exists
    BY <1>1 DEF CommitResult, ProcOK, PublishInv, Procs
  <1> DEFINE tree == WithPublication(results[Len(results)], proc[w].item, proc[w].content)
  <1>3. CASE Contended(w)
    BY <1>2, <1>3, ContendedOK, QuietAccounted
  <1>4. CASE Fault /\ Finish(w, FALSE) /\ UNCHANGED <<results, index, plans>>
    <2>1. Quiet
      BY <1>1, <1>2, <1>4, FaultsType DEF Quiet
    <2>2. QED
      BY <1>2, <1>4, <2>1, FinishOK, QuietAccounted
  <1>5. ASSUME results' = Append(results, tree), PlansMoved("result"), UNCHANGED index,
               NEW answered \in BOOLEAN, IF answered THEN NoFault ELSE Fault,
               Moved(w, "result", [proc[w] EXCEPT !.at = "release", !.ok = answered,
                                                  !.rev = Len(results) + 1])
        PROVE  Accounted
    <2> DEFINE new == [proc[w] EXCEPT !.at = "release", !.ok = answered,
                                      !.rev = Len(results) + 1]
    <2>1. faults' \in 0..MaxFaults
      BY <1>1, <1>5, FaultsType
    <2>2. results[Len(results)] \in Commits
      BY <1>1, <1>2
    <2>3. tree \in Commits /\ tree.files[proc[w].item] = proc[w].content
      BY <1>2, <2>2 DEF Commits, WithPublication, Content
    <2> HIDE DEF tree
    <2>4. /\ Growth /\ Len(results') = Len(results) + 1
          /\ results'[Len(results) + 1] = tree
          /\ Len(results) + 1 \in DOMAIN results'
      BY <1>1, <1>5, <2>3, AppendGrows
    <2>5. Len(results) + 1 \in Nat \ {0}
      BY <1>1
    <2>6. new \in Procs
      BY <1>1, <2>5 DEF Procs
    <2>7. /\ new.op = "publish" /\ new.item = proc[w].item /\ new.at = "release"
          /\ new.content = proc[w].content
          /\ new.on = "result" /\ new.tries = proc[w].tries /\ new.rev = Len(results) + 1
      BY <1>1, <1>2 DEF Procs
    <2> HIDE DEF new
    <2>8. Moved(w, "result", new) /\ "result" \in Datasets
      BY <1>5 DEF new, Datasets
    <2>9. proc'[w] = new
      BY <1>1, <2>6, <2>8, MovedType
    <2>10. GoodRow(Row(proc[w].item, proc[w].rev, proc[w].content))'
      <3>1. Row(proc[w].item, Len(results) + 1, proc[w].content) \in Rows
        BY <1>2, <2>5 DEF Row, Rows, Content
      <3>2. QED
        BY <2>3, <2>4, <2>7, <2>9, <3>1 DEF GoodRow, Row
    <2>11. results' # <<>>
      BY <1>2, <2>4, SomeResult
    <2>12. PublishInv(w)'
      BY <1>2, <1>5, <2>7, <2>9, <2>10, <2>11 DEF PublishInv, Fresh
    <2>13. ProcOK(w)'
      BY <2>7, <2>9, <2>12 DEF ProcOK, DecideInv, CutoverInv, RestInv
    <2>14. StepOf(w) /\ PlanStep /\ (plans = <<>> => plans' = <<>>)
      BY <1>1, <1>2, <1>5, <2>1, <2>4, <2>6, <2>8, <2>13, CommitStep
    <2>15. IndexStep
      BY <1>5 DEF IndexStep
    <2>16. QED
      BY <2>14, <2>15, StepOfKeeps DEF Accounted, StepOf
  <1>6. QED
    BY <1>3, <1>4, <1>5 DEF CommitResult

(* CommitIndex.                                                            *)
LEMMA CommitIndexOK ==
    ASSUME Inv, NEW w \in Workers, CommitIndex(w)
    PROVE  Accounted
  <1>1. /\ proc \in [Workers -> Procs] /\ ProcOK(w) /\ faults \in 0..MaxFaults
        /\ control \in 0..MaxControl /\ results \in Seq(Commits) /\ Types /\ index \in Trees
        /\ RowsInv
    BY DEF Inv, Types, ProcInv, ProcOK
  <1>2. /\ proc[w].op \in {"publish", "decide"} /\ proc[w].at = "commit"
        /\ proc[w].on = "index" /\ UNCHANGED control
    BY DEF CommitIndex
  <1>3. CASE Contended(w)
    BY <1>2, <1>3, ContendedOK, QuietAccounted
  <1>4. CASE Fault /\ Finish(w, FALSE) /\ UNCHANGED <<results, index, plans>>
    <2>1. Quiet
      BY <1>1, <1>2, <1>4, FaultsType DEF Quiet
    <2>2. QED
      BY <1>2, <1>4, <2>1, FinishOK, QuietAccounted
  <1>5. ASSUME ~ParentConflict(w), index' = proc[w].upd, PlansMoved("index"),
               UNCHANGED results,
               NEW answered \in BOOLEAN, IF answered THEN NoFault ELSE Fault,
               Moved(w, "index", [proc[w] EXCEPT !.at = "release", !.ok = answered,
                                                 !.upd = Absent])
        PROVE  Accounted
    <2> DEFINE new == [proc[w] EXCEPT !.at = "release", !.ok = answered, !.upd = Absent]
    <2>1. faults' \in 0..MaxFaults
      BY <1>1, <1>5, FaultsType
    <2>2. Fresh(w)
      BY <1>2, <1>5 DEF Fresh, ParentConflict
    <2>3. index' \in Trees
      BY <1>2, <1>5, <2>2, FreshUpdate
    <2>4. Growth
      BY <1>1, <1>5 DEF Growth
    <2>5. new \in Procs
      BY <1>1 DEF Procs
    <2>6. /\ new.op = proc[w].op /\ new.item = proc[w].item /\ new.at = "release"
          /\ new.content = proc[w].content /\ new.rev = proc[w].rev
          /\ new.on = "index" /\ new.tries = proc[w].tries
      BY <1>1, <1>2 DEF Procs
    <2> HIDE DEF new
    <2>7. Moved(w, "index", new) /\ "index" \in Datasets
      BY <1>5 DEF new, Datasets
    <2>8. proc'[w] = new
      BY <1>1, <2>5, <2>7, MovedType
    <2>9. IndexStep /\ (index.exists => index'.exists)
      <3>1. CASE proc[w].op = "publish"
        <4>1. /\ ~SnapshotMissing(index) /\ index.exists
              /\ index' = IndexUpdate(index, PublishedRow(w))
          BY <1>1, <1>5, <2>2, <3>1 DEF ProcOK, PublishInv
        <4>2. GoodRow(PublishedRow(w))
          BY <1>1, <1>2, <3>1, PublishedRowGood DEF ProcOK
        <4>3. index'.exists = index.exists
          BY <1>1, <4>1, <4>2, IndexUpdateFields DEF GoodRow
        <4>4. PublishCommit(PublishedRow(w))
          BY <4>1, <4>2 DEF PublishCommit
        <4>5. QED
          BY <4>3, <4>4 DEF IndexStep
      <3>2. CASE proc[w].op = "decide"
        <4> DEFINE d == Decisions[proc[w].item]
        <4>1. /\ proc[w].item \in DOMAIN Decisions
              /\ ~Refused(index, d) /\ index' = DecisionUpdate(index, d)
          BY <1>1, <1>5, <2>2, <3>2 DEF ProcOK, DecideInv
        <4>2. d \in Verdicts /\ index.lookup[d.pub] # Absent /\ index.primary # NoWindow
          BY <4>1, NotRefused DEF Verdicts
        <4> HIDE DEF d
        <4>3. index'.exists = index.exists
          BY <1>1, <4>1, <4>2, DecisionUpdateFields
        <4>4. DecisionCommit(d)
          BY <4>1, <4>2 DEF DecisionCommit
        <4>5. QED
          BY <4>3, <4>4 DEF IndexStep
      <3>3. QED
        BY <1>2, <3>1, <3>2
    <2>10. ProcOK(w)'
      <3>1. index.exists
        BY <1>1, <1>2 DEF ProcOK, PublishInv, DecideInv
      <3>2. PublishInv(w)'
        BY <1>1, <1>2, <1>5, <2>6, <2>8, <2>9, <3>1
           DEF ProcOK, PublishInv, Fresh, GoodRow
      <3>3. DecideInv(w)'
        BY <1>1, <1>2, <2>6, <2>8, <2>9, <3>1 DEF ProcOK, DecideInv, Fresh
      <3>4. QED
        BY <1>2, <2>6, <2>8, <3>2, <3>3 DEF ProcOK, CutoverInv, RestInv
    <2>11. StepOf(w) /\ PlanStep /\ (plans = <<>> => plans' = <<>>)
      BY <1>2, <1>5, <2>1, <2>3, <2>4, <2>5, <2>7, <2>9, <2>10, CommitStep
    <2>12. QED
      BY <2>9, <2>11, StepOfKeeps DEF Accounted, StepOf
  <1>6. QED
    BY <1>3, <1>4, <1>5 DEF CommitIndex

(* CutoverResults.                                                         *)
LEMMA CutoverResultsOK ==
    ASSUME Inv, NEW w \in Workers, CutoverResults(w)
    PROVE  Accounted
  <1>1. /\ proc \in [Workers -> Procs] /\ ProcOK(w) /\ faults \in 0..MaxFaults
        /\ control \in 0..MaxControl /\ results \in Seq(Commits) /\ Types /\ index \in Trees
        /\ plans \in Seq(Plans) /\ PlansInv
    BY DEF Inv, Types, ProcInv, ProcOK
  <1>2. /\ proc[w].op = "cutover" /\ proc[w].at = "commit" /\ proc[w].on = "result"
        /\ proc[w].plan \in DOMAIN plans /\ proc[w].tries \in 0..2
        /\ UNCHANGED <<index, control>>
    BY <1>1 DEF CutoverResults, ProcOK, CutoverInv
  <1> DEFINE plan == plans[proc[w].plan]
             head == results[Len(results)]
             tree == [files |-> [p \in Pubs |-> IF p \in plan.pubs THEN Migrated
                                                ELSE head.files[p]],
                      markers |-> head.markers \cup {plan.id}]
  <1>3. CASE Finish(w, FALSE) /\ NoFault /\ UNCHANGED <<results, plans>>
    <2>1. Quiet
      BY <1>1, <1>2, <1>3, FaultsType DEF Quiet
    <2>2. QED
      BY <1>2, <1>3, <2>1, FinishOK, QuietAccounted
  <1>4. ASSUME results' = Append(results, tree), PlansMoved("result"),
               NEW answered \in BOOLEAN, IF answered THEN NoFault ELSE Fault,
               Moved(w, "result",
                     IF answered
                     THEN [proc[w] EXCEPT !.on = "index", !.rev = Len(results) + 1]
                     ELSE [proc[w] EXCEPT !.at = "release"])
        PROVE  Accounted
    <2> DEFINE new == IF answered
                      THEN [proc[w] EXCEPT !.on = "index", !.rev = Len(results) + 1]
                      ELSE [proc[w] EXCEPT !.at = "release"]
    <2>1. faults' \in 0..MaxFaults
      BY <1>1, <1>4, FaultsType
    <2>2. plan \in Plans /\ results # <<>>
      BY <1>1, <1>2 DEF PlansInv
    <2>3. head \in Commits
      BY <1>1, <2>2
    <2>4. plan.pubs \in SUBSET Pubs /\ plan.id \in Nat
      BY <2>2 DEF Plans
    <2>5. tree \in Commits /\ \A p \in plan.pubs : tree.files[p] = Migrated
      <3> HIDE DEF plan, head
      <3> QED
        BY <2>3, <2>4 DEF Commits, Content
    <2> HIDE DEF tree
    <2>6. /\ Growth /\ Len(results') = Len(results) + 1
          /\ results'[Len(results) + 1] = tree
          /\ Len(results) + 1 \in DOMAIN results'
      BY <1>1, <1>4, <2>5, AppendGrows
    <2>7. Len(results) + 1 \in Nat
      BY <1>1
    <2>8. new \in Procs
      BY <1>1, <2>7 DEF Procs, Datasets
    <2>9. /\ new.op = "cutover" /\ new.plan = proc[w].plan /\ new.tries = proc[w].tries
          /\ new.at \in {"commit", "release"}
          /\ new.at = "commit" => new.rev = Len(results) + 1
      BY <1>1, <1>2 DEF Procs
    <2> HIDE DEF new
    <2>10. Moved(w, "result", new) /\ "result" \in Datasets
      BY <1>4 DEF new, Datasets
    <2>11. proc'[w] = new
      BY <1>1, <2>8, <2>10, MovedType
    <2>12. /\ Len(plans') = Len(plans) /\ plans' \in Seq(Plans)
           /\ \A i \in DOMAIN plans : plans'[i].pubs = plans[i].pubs
      BY <1>1, <1>4, <2>10, PlansMovedType
    <2>13. proc[w].plan \in DOMAIN plans' /\ plans'[proc[w].plan].pubs = plan.pubs
      BY <1>1, <1>2, <2>12
    <2>14. CutoverInv(w)'
      BY <1>2, <2>5, <2>6, <2>9, <2>11, <2>13 DEF CutoverInv
    <2>15. ProcOK(w)'
      BY <2>9, <2>11, <2>14 DEF ProcOK, PublishInv, DecideInv, RestInv
    <2>16. StepOf(w) /\ PlanStep /\ (plans = <<>> => plans' = <<>>)
      BY <1>1, <1>2, <1>4, <2>1, <2>6, <2>8, <2>10, <2>15, CommitStep
    <2>17. IndexStep
      BY <1>2 DEF IndexStep
    <2>18. QED
      BY <2>16, <2>17, StepOfKeeps DEF Accounted, StepOf
  <1>5. QED
    BY <1>3, <1>4 DEF CutoverResults

(* CutoverIndex.                                                           *)
LEMMA CutoverIndexOK ==
    ASSUME Inv, NEW w \in Workers, CutoverIndex(w)
    PROVE  Accounted
  <1>1. /\ proc \in [Workers -> Procs] /\ ProcOK(w) /\ faults \in 0..MaxFaults
        /\ control \in 0..MaxControl /\ results \in Seq(Commits) /\ Types /\ index \in Trees
        /\ plans \in Seq(Plans) /\ PlansInv
    BY DEF Inv, Types, ProcInv, ProcOK
  <1>2. /\ proc[w].op = "cutover" /\ proc[w].at = "commit" /\ proc[w].on = "index"
        /\ proc[w].plan \in DOMAIN plans /\ proc[w].tries \in 0..2
        /\ proc[w].rev \in DOMAIN results
        /\ \A p \in plans[proc[w].plan].pubs : results[proc[w].rev].files[p] = Migrated
        /\ UNCHANGED <<results, control>>
    BY <1>1 DEF CutoverIndex, ProcOK, CutoverInv
  <1> DEFINE plan == plans[proc[w].plan]
  <1>3. CASE Finish(w, FALSE) /\ NoFault /\ UNCHANGED <<index, plans>>
    <2>1. Quiet
      BY <1>1, <1>2, <1>3, FaultsType DEF Quiet
    <2>2. QED
      BY <1>2, <1>3, <2>1, FinishOK, QuietAccounted
  <1>4. ASSUME "index" \notin plan.moved, index' = CutoverUpdate(index, plan, proc[w].rev),
               PlansMoved("index"),
               NEW answered \in BOOLEAN, IF answered THEN NoFault ELSE Fault,
               Moved(w, "index", [proc[w] EXCEPT !.at = "release", !.ok = answered])
        PROVE  Accounted
    <2> DEFINE new == [proc[w] EXCEPT !.at = "release", !.ok = answered]
    <2>1. faults' \in 0..MaxFaults
      BY <1>1, <1>4, FaultsType
    <2>2. plan \in Plans /\ proc[w].rev \in Nat \ {0}
      BY <1>1, <1>2
    <2>3. index' \in Trees /\ index'.exists = index.exists
      <3> HIDE DEF plan
      <3> QED
        BY <1>1, <1>4, <2>2, CutoverUpdateFields
    <2>4. Growth
      BY <1>1, <1>2 DEF Growth
    <2>5. CutoverCommit(proc[w].plan, proc[w].rev)
      BY <1>2, <1>4 DEF CutoverCommit
    <2>6. new \in Procs
      BY <1>1 DEF Procs
    <2>7. /\ new.op = "cutover" /\ new.plan = proc[w].plan /\ new.tries = proc[w].tries
          /\ new.at = "release"
      BY <1>1, <1>2 DEF Procs
    <2> HIDE DEF new
    <2>8. Moved(w, "index", new) /\ "index" \in Datasets
      BY <1>4 DEF new, Datasets
    <2>9. proc'[w] = new
      BY <1>1, <2>6, <2>8, MovedType
    <2>10. Len(plans') = Len(plans) /\ plans' \in Seq(Plans)
      BY <1>1, <1>4, <2>8, PlansMovedType
    <2>11. proc[w].plan \in DOMAIN plans'
      BY <1>1, <1>2, <2>10
    <2>12. CutoverInv(w)'
      BY <1>2, <2>7, <2>9, <2>11 DEF CutoverInv
    <2>13. ProcOK(w)'
      BY <2>7, <2>9, <2>12 DEF ProcOK, PublishInv, DecideInv, RestInv
    <2>14. StepOf(w) /\ PlanStep /\ (plans = <<>> => plans' = <<>>)
      BY <1>1, <1>2, <1>4, <2>1, <2>3, <2>4, <2>6, <2>8, <2>13, CommitStep
    <2>15. IndexStep
      BY <2>5 DEF IndexStep
    <2>16. QED
      BY <2>14, <2>15, StepOfKeeps DEF Accounted, StepOf
  <1>5. QED
    BY <1>3, <1>4 DEF CutoverIndex

(* Publish.                                                                *)
LEMMA PublishOK ==
    ASSUME Inv, NEW w \in Workers, NEW p \in Pubs, Publish(w, p)
    PROVE  Accounted
  <1>1. /\ proc \in [Workers -> Procs] /\ faults \in 0..MaxFaults
        /\ control \in 0..MaxControl /\ results \in Seq(Commits) /\ index \in Trees
        /\ plans \in Seq(Plans)
    BY DEF Inv, Types
  <1> DEFINE new == Prepared(p)
             first == [files |-> NoTree, markers |-> {}]
  <1>2. /\ proc' = [proc EXCEPT ![w] = new] /\ UNCHANGED <<control, plans>>
        /\ results' = IF results = <<>> THEN <<first>> ELSE results
        /\ index' = [index EXCEPT !.exists = TRUE]
    BY DEF Publish
  <1>3. faults' \in 0..MaxFaults
    BY <1>1, FaultsType DEF Publish
  <1>4. new \in Procs
    BY <1>1, RestingType DEF Prepared, Procs
  <1>5. /\ new.op = "publish" /\ new.item = p /\ new.at = "lease" /\ new.on = "result"
        /\ new.tries = 0
    BY DEF Prepared, Resting
  <1> HIDE DEF new
  <1>6. first \in Commits
    BY DEF Commits, NoTree
  <1> HIDE DEF first
  <1>7. /\ results' \in Seq(Commits) /\ results' # <<>> /\ Len(results) <= Len(results')
        /\ \A i \in 1..Len(results) : results'[i] = results[i]
    <2>1. CASE results = <<>>
      <3>1. Len(results) = 0 /\ results' = <<first>>
        BY <1>2, <2>1
      <3>2. <<first>> \in Seq(Commits) /\ Len(<<first>>) = 1
        BY <1>6
      <3>3. results' # <<>>
        BY <3>1, <3>2
      <3>4. QED
        BY <3>1, <3>2, <3>3
    <2>2. CASE results # <<>>
      BY <1>1, <1>2, <2>2
    <2>3. QED
      BY <2>1, <2>2
  <1>8. Growth
    BY <1>1, <1>7 DEF Growth
  <1>9. index' \in Trees /\ index'.exists /\ (index.exists => index' = index)
        /\ index'.legacy = index.legacy
    BY <1>1, <1>2 DEF Trees
  <1>10. proc'[w] = new /\ proc' \in [Workers -> Procs]
         /\ \A v \in Workers \ {w} : proc'[v] = proc[v]
    BY <1>1, <1>2, <1>4
  <1>11. Types'
    BY <1>1, <1>2, <1>3, <1>7, <1>9, <1>10 DEF Types
  <1>12. PlansGrow
    BY <1>2 DEF PlansGrow
  <1>13. PublishInv(w)'
    BY <1>5, <1>7, <1>9, <1>10, PublicationAssumption DEF PublishInv, Fresh
  <1>14. ProcOK(w)'
    BY <1>5, <1>10, <1>13 DEF ProcOK, DecideInv, CutoverInv, RestInv
  <1>15. ProcInv'
    <2> SUFFICES ASSUME NEW v \in Workers
                 PROVE  ProcOK(v)'
      BY DEF ProcInv, ProcOK
    <2>1. CASE v = w
      BY <1>14, <2>1
    <2>2. CASE v # w /\ (index.exists \/ ~(proc[v].op \in {"publish", "decide"}))
      <3>1. CASE index.exists
        <4>1. Kept(v)
          BY <1>9, <1>10, <2>2, <3>1 DEF Kept, Fresh
        <4>2. Types /\ ProcOK(v)
          BY DEF Inv, ProcInv, ProcOK
        <4>3. QED
          BY <1>8, <1>9, <1>12, <4>1, <4>2, KeptOK
      <3>2. CASE ~(proc[v].op \in {"publish", "decide"})
        <4>1. PublishInv(v)' /\ DecideInv(v)'
          BY <1>10, <2>2, <3>2 DEF PublishInv, DecideInv
        <4>2. RestInv(v)'
          BY <1>10, <2>2 DEF RestInv, Inv, ProcInv
        <4>3. CutoverInv(v)'
          <5> SUFFICES ASSUME proc[v].op = "cutover"
                       PROVE  CutoverInv(v)'
            BY <1>10, <2>2 DEF CutoverInv
          <5>1. CutoverInv(v) /\ PlansInv
            BY DEF Inv, ProcInv
          <5>2. proc[v].plan \in DOMAIN plans
            BY <5>1 DEF CutoverInv
          <5>3. results # <<>>
            BY <1>1, <5>1, <5>2 DEF PlansInv
          <5>4. results' = results /\ plans' = plans /\ proc'[v] = proc[v]
            BY <1>2, <1>10, <2>2, <5>3
          <5>5. QED
            BY <5>1, <5>4 DEF CutoverInv
        <4>4. QED
          BY <4>1, <4>2, <4>3 DEF ProcOK
      <3>3. QED
        BY <2>2, <3>1, <3>2
    <2>3. CASE v # w /\ ~index.exists /\ proc[v].op \in {"publish", "decide"}
      BY <2>3 DEF Inv, ProcInv, PublishInv, DecideInv
    <2>4. QED
      BY <2>1, <2>2, <2>3
  <1>16. PlanStep
    BY <1>2, <1>9 DEF PlanStep
  <1>17. IndexStep
    BY <1>2 DEF IndexStep
  <1>18. QED
    BY <1>2, <1>8, <1>11, <1>12, <1>15, <1>16, <1>17 DEF Accounted

(* Cutover.                                                                *)
LEMMA CutoverOK ==
    ASSUME Inv, NEW w \in Workers, NEW i \in DOMAIN plans, Cutover(w, i)
    PROVE  Accounted
  <1>1. /\ proc \in [Workers -> Procs] /\ faults \in 0..MaxFaults
        /\ control \in 0..MaxControl /\ results \in Seq(Commits) /\ index \in Trees
        /\ plans \in Seq(Plans)
    BY DEF Inv, Types
  <1> DEFINE new == [Resting EXCEPT !.op = "cutover", !.plan = i, !.on = "index",
                                    !.at = "lease"]
  <1>2. /\ proc' = [proc EXCEPT ![w] = new] /\ UNCHANGED <<results, index, control>>
        /\ plans' = [plans EXCEPT ![i].asked = TRUE]
    BY DEF Cutover
  <1>3. faults' \in 0..MaxFaults
    BY <1>1, FaultsType DEF Cutover
  <1>4. i \in Nat
    BY <1>1
  <1>5. new \in Procs
    BY <1>4, RestingType DEF Procs, Datasets
  <1>6. /\ new.op = "cutover" /\ new.plan = i /\ new.on = "index" /\ new.at = "lease"
        /\ new.tries = 0
    BY DEF Resting
  <1> HIDE DEF new
  <1>7. proc'[w] = new /\ proc' \in [Workers -> Procs]
        /\ \A v \in Workers \ {w} : proc'[v] = proc[v]
    BY <1>1, <1>2, <1>5
  <1>8. /\ plans' \in Seq(Plans) /\ DOMAIN plans' = DOMAIN plans
        /\ \A j \in DOMAIN plans : /\ plans'[j].pubs = plans[j].pubs
                                   /\ plans'[j].moved = plans[j].moved
    <2>1. \A j \in DOMAIN plans : plans[j] \in Plans
      BY <1>1
    <2>2. /\ DOMAIN plans' = DOMAIN plans
          /\ \A j \in DOMAIN plans :
               plans'[j] = IF j = i THEN [plans[i] EXCEPT !.asked = TRUE] ELSE plans[j]
      BY <1>1, <1>2
    <2>3. [plans[i] EXCEPT !.asked = TRUE] \in Plans
      BY <2>1 DEF Plans
    <2>4. plans' \in Seq(Plans)
      BY <1>1, <1>2, <2>3
    <2>5. \A j \in DOMAIN plans : /\ plans'[j].pubs = plans[j].pubs
                                  /\ plans'[j].moved = plans[j].moved
      BY <2>1, <2>2 DEF Plans
    <2>6. QED
      BY <2>2, <2>4, <2>5
  <1>9. Types' /\ Growth
    BY <1>1, <1>2, <1>3, <1>7, <1>8 DEF Types, Growth
  <1>10. PlansGrow /\ PlanStep
    BY <1>2, <1>8 DEF PlansGrow, PlanStep
  <1>11. CutoverInv(w)'
    BY <1>6, <1>7, <1>8 DEF CutoverInv
  <1>12. ProcOK(w)'
    BY <1>6, <1>7, <1>11 DEF ProcOK, PublishInv, DecideInv, RestInv
  <1>13. ASSUME NEW v \in Workers \ {w}
         PROVE  Kept(v)
    BY <1>2, <1>7 DEF Kept, Fresh
  <1>14. StepOf(w)
    BY <1>2, <1>9, <1>10, <1>12, <1>13 DEF StepOf
  <1>15. plans # <<>>
    BY <1>1
  <1>16. QED
    BY <1>2, <1>9, <1>10, <1>14, <1>15, StepOfKeeps DEF Accounted, IndexStep

(* The steps of no worker, and no step.                                    *)
LEMMA OtherOK ==
    ASSUME Inv, UNCHANGED <<results, index, proc>>, control' \in 0..MaxControl,
           faults' \in 0..MaxFaults, plans' \in Seq(Plans), PlansGrow, PlanStep,
           plans = <<>> => plans' = <<>> \/ index.legacy # {}
    PROVE  Accounted
  <1>1. Types' /\ Growth
    BY DEF Inv, Types, Growth
  <1>2. ASSUME NEW v \in Workers
        PROVE  ProcOK(v)'
    <2>1. Kept(v)
      BY DEF Kept, Fresh
    <2>2. Types /\ ProcOK(v) /\ (index.exists => index'.exists)
      BY DEF Inv, ProcInv, ProcOK
    <2>3. QED
      BY <1>1, <2>1, <2>2, KeptOK
  <1>3. ProcInv'
    BY <1>2 DEF ProcInv, ProcOK
  <1>4. QED
    BY <1>1, <1>3 DEF Accounted, IndexStep

(* PlanCutover.                                                            *)
LEMMA PlanCutoverOK ==
    ASSUME Inv, PlanCutover
    PROVE  Accounted
  <1> DEFINE plan == [id |-> Len(plans) + 1, pubs |-> index.legacy, base |-> Len(results),
                      moved |-> {}, asked |-> FALSE]
  <1>1. /\ control \in 0..MaxControl /\ faults \in 0..MaxFaults
        /\ results \in Seq(Commits) /\ index \in Trees /\ plans \in Seq(Plans)
    BY DEF Inv, Types
  <1>2. /\ index.legacy # {} /\ plans' = Append(plans, plan)
        /\ UNCHANGED <<results, index, proc, control, faults>>
    BY DEF PlanCutover
  <1>3. plan \in Plans
    <2>1. index.legacy \in SUBSET Pubs /\ Len(plans) + 1 \in Nat /\ Len(results) \in Nat
      BY <1>1 DEF Trees
    <2>2. QED
      BY <2>1 DEF Plans
  <1>4. plan.pubs = index.legacy
    OBVIOUS
  <1> HIDE DEF plan
  <1>5. /\ plans' \in Seq(Plans) /\ DOMAIN plans' = DOMAIN plans \cup {Len(plans) + 1}
        /\ \A i \in DOMAIN plans : plans'[i] = plans[i]
        /\ plans'[Len(plans) + 1] = plan
    BY <1>1, <1>2, <1>3
  <1>6. PlansGrow
    BY <1>5 DEF PlansGrow
  <1>7. PlanStep
    BY <1>2, <1>4, <1>5 DEF PlanStep
  <1>8. QED
    BY <1>1, <1>2, <1>5, <1>6, <1>7, OtherOK

(* Every step is accounted for.                                            *)
LEMMA NextAccounted ==
    ASSUME Inv, [Next]_vars
    PROVE  Accounted
  <1>1. /\ control \in 0..MaxControl /\ faults \in 0..MaxFaults /\ plans \in Seq(Plans)
    BY DEF Inv, Types
  <1>2. ASSUME UNCHANGED <<results, index, proc, plans>>, control' \in 0..MaxControl,
               faults' \in 0..MaxFaults
        PROVE  Accounted
    <2>1. PlansGrow /\ PlanStep /\ plans' \in Seq(Plans)
      BY <1>1, <1>2 DEF PlansGrow, PlanStep
    <2>2. QED
      BY <1>2, <2>1, OtherOK
  <1>3. CASE UNCHANGED vars
    BY <1>1, <1>2, <1>3 DEF vars
  <1>4. ASSUME NEW w \in Workers, Step(w) \/ Crash(w)
        PROVE  Accounted
    <2>1. CASE Acquire(w)
      BY <2>1, AcquireOK, QuietAccounted
    <2>2. CASE Release(w)
      BY <2>2, ReleaseOK, QuietAccounted
    <2>3. CASE ReadResult(w)
      BY <2>3, ReadResultOK, QuietAccounted
    <2>4. CASE CommitResult(w)
      BY <2>4, CommitResultOK
    <2>5. CASE ReadIndex(w)
      BY <2>5, ReadIndexOK, QuietAccounted
    <2>6. CASE CommitIndex(w)
      BY <2>6, CommitIndexOK
    <2>7. CASE ReadDecision(w)
      BY <2>7, ReadDecisionOK, QuietAccounted
    <2>8. CASE AcquireBoth(w)
      BY <2>8, AcquireBothOK, QuietAccounted
    <2>9. CASE ReadCutover(w)
      BY <2>9, ReadCutoverOK, QuietAccounted
    <2>10. CASE CutoverResults(w)
      BY <2>10, CutoverResultsOK
    <2>11. CASE CutoverIndex(w)
      BY <2>11, CutoverIndexOK
    <2>12. CASE ReleaseBoth(w)
      BY <2>12, ReleaseBothOK, QuietAccounted
    <2>13. CASE Crash(w)
      BY <2>13, CrashOK, QuietAccounted
    <2>14. QED
      BY <1>4, <2>1, <2>2, <2>3, <2>4, <2>5, <2>6, <2>7, <2>8, <2>9, <2>10, <2>11, <2>12,
         <2>13 DEF Step
  <1>5. ASSUME NEW w \in Workers, NEW p \in Pubs, Publish(w, p)
        PROVE  Accounted
    BY <1>5, PublishOK
  <1>6. ASSUME NEW w \in Workers, NEW d \in DOMAIN Decisions, Decide(w, d)
        PROVE  Accounted
    BY <1>6, DecideOK, QuietAccounted
  <1>7. ASSUME NEW w \in Workers, NEW i \in DOMAIN plans, Cutover(w, i)
        PROVE  Accounted
    BY <1>7, CutoverOK
  <1>8. CASE PlanCutover
    BY <1>8, PlanCutoverOK
  <1>9. CASE ControlMoves
    <2>1. control' \in 0..MaxControl
      BY <1>1, <1>9, PublicationAssumption DEF ControlMoves
    <2>2. QED
      BY <1>1, <1>2, <1>9, <2>1 DEF ControlMoves
  <1>10. ASSUME NEW d \in Datasets, Expire(d)
         PROVE  Accounted
    <2>1. faults' \in 0..MaxFaults
      BY <1>1, <1>10, FaultsType DEF Expire
    <2>2. QED
      BY <1>1, <1>2, <1>10, <2>1 DEF Expire
  <1>11. QED
    BY <1>3, <1>4, <1>5, <1>6, <1>7, <1>8, <1>9, <1>10 DEF Next

-----------------------------------------------------------------------------
(* The rows of the index *)

(* x is good after the step.                                               *)
GoodNext(x) ==
    x \in Rows /\ x.rev \in DOMAIN results' /\ results'[x.rev].files[x.pub] = x.content

(* What the index showed is still good.                                    *)
LEMMA OldRowsGood ==
    ASSUME Inv, Growth
    PROVE  /\ index.window # NoWindow => \A x \in index.window : GoodNext(x)
           /\ index.audit # NoWindow => \A x \in index.audit : GoodNext(x)
           /\ index.primary # NoWindow => \A x \in index.primary : GoodNext(x)
           /\ \A x \in IndexRows(index) : GoodNext(x)
           /\ \A p \in Pubs :
                /\ index.receipts[p] # Absent =>
                     GoodNext(index.receipts[p]) /\ index.receipts[p].pub = p
                /\ index.lookup[p] # Absent =>
                     GoodNext(index.lookup[p]) /\ index.lookup[p].pub = p
           /\ \A r \in Runs : index.active[r] # Absent => GoodNext(index.active[r])
  <1>1. \A x : GoodRow(x) => GoodNext(x)
    BY GoodRowKept DEF GoodNext
  <1>2. \A x \in IndexRows(index) : GoodRow(x)
    BY DEF IndexRows, Inv, RowsInv, GoodWindow, GoodEntry
  <1>3. QED
    BY <1>1, <1>2 DEF Inv, RowsInv, GoodWindow, GoodEntry

(* A cutover takes its rows from a plan and a commit that has them.        *)
LEMMA CutoverRowsGood ==
    ASSUME Inv, Growth, NEW i, NEW rev, CutoverCommit(i, rev)
    PROVE  /\ plans[i] \in Plans /\ rev \in Nat \ {0} /\ index.legacy = plans[i].pubs
           /\ index.legacy # {}
           /\ \A p \in plans[i].pubs : GoodNext(Row(p, rev, Migrated)) /\ p \in Pubs
  <1>1. /\ i \in DOMAIN plans /\ "index" \notin plans[i].moved /\ rev \in DOMAIN results
        /\ \A p \in plans[i].pubs : results[rev].files[p] = Migrated
        /\ plans \in Seq(Plans) /\ results \in Seq(Commits)
    BY DEF CutoverCommit, Inv, Types
  <1>2. plans[i] \in Plans /\ rev \in Nat \ {0}
    BY <1>1
  <1>3. plans[i].pubs = index.legacy /\ plans[i].pubs # {}
    BY <1>1 DEF Inv, PlansInv
  <1>4. ASSUME NEW p \in plans[i].pubs
        PROVE  GoodNext(Row(p, rev, Migrated)) /\ p \in Pubs
    <2>1. p \in Pubs
      BY <1>2 DEF Plans
    <2>2. Row(p, rev, Migrated) \in Rows
      BY <1>2, <2>1 DEF Row, Rows, Content
    <2>3. GoodRow(Row(p, rev, Migrated))
      BY <1>1, <2>2 DEF GoodRow, Row
    <2>4. QED
      BY <2>1, <2>3, GoodRowKept DEF GoodNext
  <1>5. QED
    BY <1>2, <1>3, <1>4

(* The rows stay good.                                                     *)
LEMMA RowsStep ==
    ASSUME Inv, Accounted
    PROVE  RowsInv'
  <1>1. Growth /\ IndexStep /\ index \in Trees /\ index' \in Trees
    BY DEF Accounted, Inv, Types
  <1> DEFINE Shown ==
          /\ index'.window # NoWindow => \A x \in index'.window : GoodNext(x)
          /\ index'.audit # NoWindow => \A x \in index'.audit : GoodNext(x)
          /\ index'.primary # NoWindow => \A x \in index'.primary : GoodNext(x)
          /\ \A p \in Pubs :
                /\ index'.receipts[p] # Absent =>
                     GoodNext(index'.receipts[p]) /\ index'.receipts[p].pub = p
                /\ index'.lookup[p] # Absent =>
                     GoodNext(index'.lookup[p]) /\ index'.lookup[p].pub = p
          /\ \A r \in Runs : index'.active[r] # Absent => GoodNext(index'.active[r])
  <1>2. SUFFICES Shown
    BY DEF RowsInv, GoodWindow, GoodEntry, GoodRow, GoodNext
  <1>3. /\ index.window # NoWindow => \A x \in index.window : GoodNext(x)
        /\ index.audit # NoWindow => \A x \in index.audit : GoodNext(x)
        /\ index.primary # NoWindow => \A x \in index.primary : GoodNext(x)
        /\ \A x \in IndexRows(index) : GoodNext(x)
        /\ \A p \in Pubs :
                /\ index.receipts[p] # Absent =>
                     GoodNext(index.receipts[p]) /\ index.receipts[p].pub = p
                /\ index.lookup[p] # Absent =>
                     GoodNext(index.lookup[p]) /\ index.lookup[p].pub = p
        /\ \A r \in Runs : index.active[r] # Absent => GoodNext(index.active[r])
    BY <1>1, OldRowsGood
  <1>4. CASE index' = index
    BY <1>3, <1>4
  <1>5. CASE index' = [index EXCEPT !.exists = TRUE]
    <2>1. /\ index'.window = index.window /\ index'.audit = index.audit
          /\ index'.primary = index.primary /\ index'.receipts = index.receipts
          /\ index'.lookup = index.lookup /\ index'.active = index.active
      BY <1>1, <1>5 DEF Trees
    <2>2. QED
      BY <1>3, <2>1
  <1>6. ASSUME NEW x, PublishCommit(x)
        PROVE  Shown
    <2>1. GoodRow(x) /\ x \in Rows /\ x.pub \in Pubs /\ index' = IndexUpdate(index, x)
      BY <1>6 DEF PublishCommit, GoodRow, Rows
    <2>2. GoodNext(x)
      BY <1>1, <2>1, GoodRowKept DEF GoodNext
    <2>3. /\ index'.window = Newest(ReplaceActiveRun(IndexRows(index), x))
          /\ index'.audit = CatalogWindow(index, x, "audit")
          /\ index'.primary = CatalogWindow(index, x, "primary")
          /\ index'.lookup = [index.lookup EXCEPT ![x.pub] = x]
          /\ index'.active = [index.active EXCEPT ![RunOf[x.pub]] = x]
          /\ index'.receipts = [index.receipts EXCEPT
                                  ![x.pub] = IF @ = Absent THEN x ELSE @]
      BY <1>1, <2>1, IndexUpdateFields
    <2>4. \A y \in index'.window : GoodNext(y)
      BY <1>3, <2>2, <2>3, NewestShows, ReplaceShows
    <2>5. \A y \in index'.audit : GoodNext(y)
      <3>1. CatalogWindow(index, x, "audit") \subseteq
              (IF index["audit"] = NoWindow THEN {} ELSE index["audit"]) \cup {x}
        BY CatalogWindowShows
      <3>2. QED
        BY <1>3, <2>2, <2>3, <3>1
    <2>6. \A y \in index'.primary : GoodNext(y)
      <3>1. CatalogWindow(index, x, "primary") \subseteq
              (IF index["primary"] = NoWindow THEN {} ELSE index["primary"]) \cup {x}
        BY CatalogWindowShows
      <3>2. QED
        BY <1>3, <2>2, <2>3, <3>1
    <2>7. /\ index.lookup \in [Pubs -> {Absent} \cup Rows]
          /\ index.receipts \in [Pubs -> {Absent} \cup Rows]
          /\ index.active \in [Runs -> {Absent} \cup Rows]
      BY <1>1 DEF Trees, RowsByPub
    <2>8. \A p \in Pubs : /\ index'.lookup[p] = IF p = x.pub THEN x ELSE index.lookup[p]
                          /\ index'.receipts[p] \in {x, index.receipts[p]}
                          /\ p # x.pub => index'.receipts[p] = index.receipts[p]
      BY <2>3, <2>7
    <2>9. \A r \in Runs : index'.active[r] \in {x, index.active[r]}
      BY <2>3, <2>7
    <2> HIDE DEF GoodNext
    <2>10. \A p \in Pubs :
                /\ index'.receipts[p] # Absent =>
                     GoodNext(index'.receipts[p]) /\ index'.receipts[p].pub = p
                /\ index'.lookup[p] # Absent =>
                     GoodNext(index'.lookup[p]) /\ index'.lookup[p].pub = p
      BY <1>3, <2>2, <2>8
    <2>11. \A r \in Runs : index'.active[r] # Absent => GoodNext(index'.active[r])
      BY <1>3, <2>2, <2>9
    <2>12. QED
      BY <2>4, <2>5, <2>6, <2>10, <2>11
  <1>7. ASSUME NEW d, DecisionCommit(d)
        PROVE  Shown
    <2>1. d \in Verdicts /\ ~Refused(index, d) /\ index' = DecisionUpdate(index, d)
      BY <1>7 DEF DecisionCommit
    <2>2. index.lookup[d.pub] # Absent /\ index.primary # NoWindow /\ d.pub \in Pubs
      BY <2>1, NotRefused, RecordsAssumption DEF Verdicts
    <2>3. /\ index'.window = index.window /\ index'.audit = index.audit
          /\ index'.lookup = index.lookup /\ index'.active = index.active
          /\ index'.receipts = index.receipts
          /\ index'.primary = Newest(IF d.action = "withdraw"
                               THEN {x \in index.primary : x.pub # d.pub}
                               ELSE ReplaceActiveRun(index.primary, index.lookup[d.pub]))
      BY <1>1, <2>1, <2>2, DecisionUpdateFields
    <2>4. index'.primary \subseteq index.primary \cup {index.lookup[d.pub]}
      BY <2>3, NewestShows, ReplaceShows
    <2>5. \A x \in index'.primary : GoodNext(x)
      BY <1>3, <2>2, <2>4
    <2>6. QED
      BY <1>3, <2>3, <2>5
  <1>8. ASSUME NEW i, NEW rev, CutoverCommit(i, rev)
        PROVE  Shown
    <2> DEFINE rows == {Row(p, rev, Migrated) : p \in plans[i].pubs}
    <2>1. /\ plans[i] \in Plans /\ rev \in Nat \ {0}
          /\ \A p \in plans[i].pubs : GoodNext(Row(p, rev, Migrated)) /\ p \in Pubs
      BY <1>1, <1>8, CutoverRowsGood
    <2>2. index' = CutoverUpdate(index, plans[i], rev)
      BY <1>8 DEF CutoverCommit
    <2>3. /\ index'.window \subseteq rows /\ index'.audit \subseteq rows
          /\ index'.primary \subseteq rows
          /\ \A p \in Pubs :
               /\ index'.lookup[p] = IF p \in plans[i].pubs THEN Row(p, rev, Migrated)
                                     ELSE index.lookup[p]
               /\ index'.receipts[p] = IF p \in plans[i].pubs THEN Row(p, rev, Migrated)
                                       ELSE index.receipts[p]
          /\ \A r \in Runs : index'.active[r] \in rows \cup {index.active[r]}
      BY <1>1, <2>1, <2>2, CutoverUpdateFields
    <2>4. \A p : Row(p, rev, Migrated).pub = p
      BY DEF Row
    <2> HIDE DEF GoodNext
    <2>5. \A x \in rows : GoodNext(x)
      BY <2>1
    <2> HIDE DEF rows
    <2>6. \A p \in Pubs :
                /\ index'.receipts[p] # Absent =>
                     GoodNext(index'.receipts[p]) /\ index'.receipts[p].pub = p
                /\ index'.lookup[p] # Absent =>
                     GoodNext(index'.lookup[p]) /\ index'.lookup[p].pub = p
      BY <1>3, <2>1, <2>3, <2>4
    <2>7. \A r \in Runs : index'.active[r] # Absent => GoodNext(index'.active[r])
      BY <1>3, <2>3, <2>5
    <2>8. QED
      BY <2>3, <2>5, <2>6, <2>7
  <1>9. QED
    BY <1>1, <1>4, <1>5, <1>6, <1>7, <1>8 DEF IndexStep

-----------------------------------------------------------------------------
(* The catalogue *)

(* While the legacy catalogue waits, nothing is published over it and no   *)
(* decision is taken.                                                      *)
LEMMA WaitingBlocks ==
    ASSUME Inv, index.legacy # {}
    PROVE  /\ Waiting
           /\ \A x : ~PublishCommit(x)
           /\ \A d : ~DecisionCommit(d)
  <1>1. Waiting
    BY DEF Inv, CatalogInv
  <1>2. SnapshotMissing(index)
    BY <1>1 DEF Waiting, SnapshotMissing
  <1>3. \A d : Refused(index, d)
    BY <1>1 DEF Waiting, Refused
  <1>4. QED
    BY <1>1, <1>2, <1>3 DEF PublishCommit, DecisionCommit

(* Replacing the row of a run leaves one row per publication.              *)
LEMMA ReplaceSingle ==
    ASSUME NEW rows, NEW row, Single(rows)
    PROVE  Single(ReplaceActiveRun(rows, row))
  BY DEF Single, ReplaceActiveRun

(* The catalogue's invariant after a publication.                          *)
LEMMA PublishCatalog ==
    ASSUME Inv, NEW x, PublishCommit(x)
    PROVE  CatalogInv'
  <1>1. /\ x \in Rows /\ x.pub \in Pubs /\ index' = IndexUpdate(index, x) /\ index.exists
        /\ index \in Trees
    BY DEF PublishCommit, GoodRow, Rows, Inv, Types
  <1>2. /\ index'.exists = index.exists /\ index'.latest = index.latest
        /\ index'.legacy = index.legacy
        /\ index'.audit = CatalogWindow(index, x, "audit")
        /\ index'.primary = CatalogWindow(index, x, "primary")
    BY <1>1, IndexUpdateFields
  <1>3. index.legacy = {}
    BY WaitingBlocks
  <1>4. Single(index'.audit)
    <2> DEFINE rows == IF index.audit = NoWindow THEN {} ELSE index.audit
    <2>1. Single(rows)
      BY DEF Inv, CatalogInv, Single
    <2>2. index'.audit = Newest(ReplaceActiveRun(rows, x))
      BY <1>2 DEF CatalogWindow
    <2> HIDE DEF rows
    <2>3. Single(ReplaceActiveRun(rows, x))
      BY <2>1, ReplaceSingle
    <2>4. QED
      BY <2>2, <2>3, NewestShows DEF Single
  <1>5. \A y \in index'.primary : ~Withdrawn(index, y.pub)
    <2> DEFINE rows == IF index.primary = NoWindow THEN {} ELSE index.primary
    <2>1. \A y \in rows : ~Withdrawn(index, y.pub)
      BY DEF Inv, CatalogInv, WithdrawnStaysOut
    <2>2. index'.primary = Newest(IF x.pub \in FinalPubs /\ ~Withdrawn(index, x.pub)
                                  THEN ReplaceActiveRun(rows, x) ELSE rows)
      BY <1>2 DEF CatalogWindow
    <2> HIDE DEF rows
    <2>3. QED
      BY <2>1, <2>2, NewestShows, ReplaceShows
  <1>6. WithdrawnStaysOut'
    BY <1>2, <1>5 DEF WithdrawnStaysOut, Withdrawn
  <1>7. QED
    BY <1>1, <1>2, <1>3, <1>4, <1>6 DEF CatalogInv

(* The catalogue's invariant after a decision.                             *)
LEMMA DecisionCatalog ==
    ASSUME Inv, NEW d, DecisionCommit(d)
    PROVE  CatalogInv'
  <1>1. /\ d \in Verdicts /\ ~Refused(index, d) /\ index' = DecisionUpdate(index, d)
        /\ index \in Trees /\ RowsInv /\ CatalogInv
    BY DEF DecisionCommit, Inv, Types
  <1>2. index.lookup[d.pub] # Absent /\ index.primary # NoWindow /\ d.pub \in Pubs
    BY <1>1, NotRefused, RecordsAssumption DEF Verdicts
  <1>3. /\ index'.exists = index.exists /\ index'.legacy = index.legacy
        /\ index'.audit = index.audit
        /\ index'.latest = [index.latest EXCEPT ![d.pub] = d]
        /\ index'.primary = Newest(IF d.action = "withdraw"
                             THEN {x \in index.primary : x.pub # d.pub}
                             ELSE ReplaceActiveRun(index.primary, index.lookup[d.pub]))
    BY <1>1, <1>2, DecisionUpdateFields
  <1>4. index.legacy = {}
    BY WaitingBlocks
  <1>5. index.latest \in [Pubs -> {Absent} \cup Verdicts]
    BY <1>1 DEF Trees
  <1>6. index.lookup[d.pub].pub = d.pub
    BY <1>1, <1>2 DEF RowsInv, GoodEntry
  <1>7. index.primary \subseteq Rows /\ index.lookup[d.pub] \in Rows
    BY <1>1, <1>2 DEF Trees, Windows, RowsByPub
  <1>8. \A y \in index'.primary : y.pub \in Pubs /\ ~Withdrawn(index', y.pub)
    <2> SUFFICES ASSUME NEW y \in index'.primary
                 PROVE  y.pub \in Pubs /\ ~Withdrawn(index', y.pub)
      OBVIOUS
    <2>1. \A x \in index.primary : ~Withdrawn(index, x.pub)
      BY <1>1, <1>2 DEF CatalogInv, WithdrawnStaysOut
    <2>2. y \in index.primary \cup {index.lookup[d.pub]}
      BY <1>3, NewestShows, ReplaceShows
    <2>3. y.pub \in Pubs
      BY <1>7, <2>2 DEF Rows
    <2>4. CASE d.action = "withdraw"
      <3>1. y \in index.primary /\ y.pub # d.pub
        BY <1>3, <2>4, NewestShows
      <3>2. index'.latest[y.pub] = index.latest[y.pub]
        BY <1>3, <1>5, <2>3, <3>1
      <3>3. QED
        BY <2>1, <2>3, <3>1, <3>2 DEF Withdrawn
    <2>5. CASE d.action # "withdraw"
      <3>1. CASE y.pub = d.pub
        <4>1. index'.latest[y.pub] = d
          BY <1>3, <1>5, <2>3, <3>1
        <4>2. QED
          BY <2>3, <2>5, <4>1 DEF Withdrawn
      <3>2. CASE y.pub # d.pub
        <4>1. index'.latest[y.pub] = index.latest[y.pub] /\ y \in index.primary
          BY <1>3, <1>5, <1>6, <2>2, <2>3, <3>2
        <4>2. QED
          BY <2>1, <2>3, <4>1 DEF Withdrawn
      <3>3. QED
        BY <3>1, <3>2
    <2>6. QED
      BY <2>4, <2>5
  <1>9. WithdrawnStaysOut'
    BY <1>8 DEF WithdrawnStaysOut, Withdrawn
  <1>10. QED
    BY <1>1, <1>2, <1>3, <1>4, <1>9 DEF CatalogInv

(* The catalogue's invariant after a cutover.                              *)
LEMMA CutoverCatalog ==
    ASSUME Inv, Growth, NEW i, NEW rev, CutoverCommit(i, rev)
    PROVE  CatalogInv'
  <1> DEFINE rows == {Row(p, rev, Migrated) : p \in plans[i].pubs}
  <1>1. /\ plans[i] \in Plans /\ rev \in Nat \ {0} /\ index.legacy # {}
        /\ \A p \in plans[i].pubs : p \in Pubs
    BY CutoverRowsGood
  <1>2. index' = CutoverUpdate(index, plans[i], rev) /\ index \in Trees
    BY DEF CutoverCommit, Inv, Types
  <1>3. /\ index'.exists = index.exists /\ index'.latest = index.latest
        /\ index'.legacy = {} /\ index'.audit \subseteq rows /\ index'.primary \subseteq rows
    BY <1>1, <1>2, CutoverUpdateFields
  <1>4. Waiting
    BY <1>1, WaitingBlocks
  <1>5. \A x \in rows : x.pub \in Pubs /\ x = Row(x.pub, rev, Migrated)
    BY <1>1 DEF Row
  <1> HIDE DEF rows
  <1>6. Single(index'.audit)
    <2> SUFFICES ASSUME NEW x \in index'.audit, NEW y \in index'.audit, x.pub = y.pub
                 PROVE  x = y
      BY DEF Single
    <2>1. x = Row(x.pub, rev, Migrated) /\ y = Row(y.pub, rev, Migrated)
      BY <1>3, <1>5
    <2>2. QED
      BY <2>1
  <1>7. WithdrawnStaysOut'
    BY <1>3, <1>4, <1>5 DEF WithdrawnStaysOut, Withdrawn, Waiting
  <1>8. QED
    BY <1>3, <1>4, <1>6, <1>7 DEF CatalogInv, Waiting

(* The catalogue's invariant after every step.                             *)
LEMMA CatalogStep ==
    ASSUME Inv, Accounted
    PROVE  CatalogInv'
  <1>1. Growth /\ IndexStep /\ index \in Trees /\ CatalogInv
    BY DEF Accounted, Inv, Types
  <1>2. CASE index' = index \/ index' = [index EXCEPT !.exists = TRUE]
    <2>1. /\ index'.window = index.window /\ index'.audit = index.audit
          /\ index'.primary = index.primary /\ index'.receipts = index.receipts
          /\ index'.latest = index.latest /\ index'.legacy = index.legacy
          /\ index.exists => index'.exists
      BY <1>1, <1>2 DEF Trees
    <2>2. WithdrawnStaysOut'
      BY <1>1, <2>1 DEF CatalogInv, WithdrawnStaysOut, Withdrawn
    <2>3. index.legacy # {} => Waiting'
      <3>1. IndexRows(index') = IndexRows(index)
        BY <2>1 DEF IndexRows
      <3>2. QED
        BY <1>1, <2>1, <3>1, SomeResult DEF CatalogInv, Waiting
    <2>4. QED
      BY <1>1, <2>1, <2>2, <2>3 DEF CatalogInv
  <1>3. QED
    BY <1>1, <1>2, PublishCatalog, DecisionCatalog, CutoverCatalog DEF IndexStep

(* The plans' invariant after every step.                                  *)
LEMMA PlansStep ==
    ASSUME Inv, Accounted
    PROVE  PlansInv'
  <1>1. /\ Growth /\ PlansGrow /\ PlanStep /\ IndexStep /\ PlansInv /\ index \in Trees
        /\ (plans = <<>> => plans' = <<>> \/ index.legacy # {})
    BY DEF Accounted, Inv, Types
  <1>2. index.exists => index'.exists
    <2>1. ASSUME NEW x, PublishCommit(x)
          PROVE  index'.exists = index.exists
      BY <1>1, <2>1, IndexUpdateFields DEF PublishCommit, GoodRow
    <2>2. ASSUME NEW d, DecisionCommit(d)
          PROVE  index'.exists = index.exists
      <3>1. /\ d \in Verdicts /\ ~Refused(index, d) /\ index' = DecisionUpdate(index, d)
        BY <2>2 DEF DecisionCommit
      <3>2. index.lookup[d.pub] # Absent /\ index.primary # NoWindow
        BY <3>1, NotRefused
      <3>3. QED
        BY <1>1, <3>1, <3>2, DecisionUpdateFields
    <2>3. ASSUME NEW i, NEW rev, CutoverCommit(i, rev)
          PROVE  index'.exists = index.exists
      <3>1. plans[i] \in Plans /\ rev \in Nat \ {0}
        BY <1>1, <2>3, CutoverRowsGood
      <3>2. QED
        BY <1>1, <2>3, <3>1, CutoverUpdateFields DEF CutoverCommit
    <2>4. CASE index' = [index EXCEPT !.exists = TRUE]
      BY <1>1, <2>4 DEF Trees
    <2>5. QED
      BY <1>1, <2>1, <2>2, <2>3, <2>4 DEF IndexStep
  <1>3. plans' # <<>> => index'.exists /\ results' # <<>>
    <2>1. CASE plans # <<>>
      BY <1>1, <1>2, <2>1, SomeResult DEF PlansInv
    <2>2. CASE plans = <<>> /\ index.legacy # {}
      BY <1>1, <1>2, <2>2, WaitingBlocks, SomeResult DEF Waiting
    <2>3. QED
      BY <1>1, <2>1, <2>2
  <1>4. ASSUME NEW i \in DOMAIN plans', "index" \notin plans'[i].moved
        PROVE  plans'[i].pubs = index'.legacy /\ plans'[i].pubs # {}
    BY <1>1, <1>4 DEF PlanStep, PlansInv, PlansGrow
  <1>5. QED
    BY <1>3, <1>4 DEF PlansInv

-----------------------------------------------------------------------------
(* The theorems *)

(* The initial state.                                                      *)
LEMMA InitInv == Init => Inv
  <1> SUFFICES ASSUME Init
               PROVE  Inv
    OBVIOUS
  <1>1. PICK old \in Legacies, windowed \in BOOLEAN :
          /\ old = {} => windowed
          /\ results = IF old = {} THEN <<>>
                       ELSE << [files |-> [p \in Pubs |->
                                  IF p \in old THEN Legacy ELSE Absent],
                                markers |-> {}] >>
          /\ index = [exists |-> old # {},
                      receipts |-> [p \in Pubs |->
                                      IF p \in old THEN Row(p, 1, Legacy) ELSE Absent],
                      window |-> IF old # {} /\ windowed
                                 THEN {Row(p, 1, Legacy) : p \in old} ELSE NoWindow,
                      audit |-> NoWindow, primary |-> NoWindow,
                      lookup |-> NoTree, active |-> [r \in Runs |-> Absent],
                      latest |-> NoTree, events |-> {},
                      legacy |-> old, markers |-> {}]
    BY DEF Init
  <1>2. /\ proc = [w \in Workers |-> Resting] /\ control = 0 /\ plans = <<>> /\ faults = 0
    BY DEF Init
  <1>3. old \subseteq Pubs
    BY RecordsAssumption
  <1>4. \A p \in old : Row(p, 1, Legacy) \in Rows /\ Row(p, 1, Legacy) # Absent
    BY <1>3, RecordsAssumption DEF Row, Rows, Content
  <1> DEFINE first == [files |-> [p \in Pubs |-> IF p \in old THEN Legacy ELSE Absent],
                       markers |-> {}]
  <1>5. first \in Commits
    BY DEF Commits, Content
  <1>6. results \in Seq(Commits) /\ (old # {} => results = <<first>>)
    <2>1. <<first>> \in Seq(Commits) /\ <<>> \in Seq(Commits)
      BY <1>5
    <2>2. results = IF old = {} THEN <<>> ELSE <<first>>
      BY <1>1
    <2>3. QED
      BY <2>1, <2>2
  <1>7. old # {} => 1 \in DOMAIN results /\ results[1] = first /\ results # <<>>
    <2> HIDE DEF first
    <2>1. <<first>>[1] = first /\ Len(<<first>>) = 1 /\ 1 \in DOMAIN <<first>>
      BY <1>5
    <2>2. <<first>> # <<>>
      BY <2>1
    <2>3. QED
      BY <1>6, <2>1, <2>2
  <1>8. \A p \in old : GoodRow(Row(p, 1, Legacy))
    BY <1>3, <1>4, <1>7 DEF GoodRow, Row
  <1>9. /\ index.exists = (old # {}) /\ index.audit = NoWindow /\ index.primary = NoWindow
        /\ index.legacy = old
        /\ index.receipts = [p \in Pubs |->
                               IF p \in old THEN Row(p, 1, Legacy) ELSE Absent]
        /\ index.window = IF old # {} /\ windowed
                          THEN {Row(p, 1, Legacy) : p \in old} ELSE NoWindow
        /\ index.lookup = NoTree /\ index.latest = NoTree
        /\ index.active = [r \in Runs |-> Absent]
        /\ index.events = {} /\ index.markers = {}
    BY <1>1
  <1>10. index \in Trees
    <2>1. DOMAIN index = Fields /\ index = [x \in DOMAIN index |-> index[x]]
      BY <1>1 DEF Fields
    <2>2. index.exists \in BOOLEAN
      BY <1>9
    <2>3. index.window \in Windows /\ index.audit \in Windows /\ index.primary \in Windows
      BY <1>4, <1>9 DEF Windows
    <2>4. /\ index.receipts \in RowsByPub /\ index.lookup \in RowsByPub
          /\ index.active \in [Runs -> {Absent} \cup Rows]
          /\ index.latest \in [Pubs -> {Absent} \cup Verdicts]
      BY <1>4, <1>9 DEF RowsByPub, NoTree
    <2>5. index.events \in SUBSET Verdicts /\ index.legacy \in SUBSET Pubs
          /\ index.markers \in SUBSET Nat
      BY <1>3, <1>9
    <2>6. QED
      BY <2>1, <2>2, <2>3, <2>4, <2>5, TreeByFields
  <1>11. Types
    <2>1. proc \in [Workers -> Procs]
      BY <1>2, RestingType
    <2>2. plans \in Seq(Plans) /\ control \in 0..MaxControl /\ faults \in 0..MaxFaults
      BY <1>2, PublicationAssumption
    <2>3. QED
      BY <1>6, <1>10, <2>1, <2>2 DEF Types
  <1>12. RowsInv
    <2>1. GoodWindow(index.window) /\ GoodWindow(index.audit) /\ GoodWindow(index.primary)
      BY <1>8, <1>9 DEF GoodWindow
    <2>2. \A p \in Pubs : GoodEntry(index.receipts[p], p)
      BY <1>8, <1>9 DEF GoodEntry, Row
    <2>3. \A p \in Pubs : GoodEntry(index.lookup[p], p)
      BY <1>9 DEF GoodEntry, NoTree
    <2>4. QED
      BY <1>9, <2>1, <2>2, <2>3 DEF RowsInv
  <1>13. CatalogInv
    <2>1. ASSUME old # {}
          PROVE  Waiting
      <3>1. IndexRows(index) # {}
        <4>1. PICK p \in old : TRUE
          BY <2>1
        <4>2. CASE index.window # NoWindow
          BY <1>9, <4>1, <4>2 DEF IndexRows
        <4>3. CASE index.window = NoWindow
          <5>1. p \in Pubs /\ index.receipts[p] # Absent
            BY <1>3, <1>4, <1>9, <4>1
          <5>2. QED
            BY <4>3, <5>1 DEF IndexRows
        <4>4. QED
          BY <4>2, <4>3
      <3>2. index.exists /\ results # <<>>
        BY <1>7, <1>9, <2>1
      <3>3. \A p \in Pubs : index.latest[p] = Absent
        BY <1>9 DEF NoTree
      <3>4. QED
        BY <1>9, <3>1, <3>2, <3>3 DEF Waiting
    <2>2. QED
      BY <1>9, <2>1 DEF CatalogInv, WithdrawnStaysOut
  <1>14. PlansInv
    BY <1>2 DEF PlansInv
  <1>15. ProcInv
    BY <1>2 DEF ProcInv, PublishInv, DecideInv, CutoverInv, RestInv, Resting
  <1>16. QED
    BY <1>11, <1>12, <1>13, <1>14, <1>15 DEF Inv

(* Every step keeps the invariant.                                         *)
LEMMA NextInv == Inv /\ [Next]_vars => Inv'
  <1> SUFFICES ASSUME Inv, [Next]_vars
               PROVE  Inv'
    OBVIOUS
  <1>1. Accounted
    BY NextAccounted
  <1>2. QED
    BY <1>1, RowsStep, CatalogStep, PlansStep DEF Accounted, Inv

(* The inductive invariant holds in every reachable state.                 *)
THEOREM Invariance == Spec => []Inv
  BY InitInv, NextInv, PTL DEF Spec

(* Every row of the index is good.                                         *)
LEMMA AllRowsGood ==
    ASSUME RowsInv, NEW x \in AllRows, x # Absent
    PROVE  GoodRow(x)
  <1> DEFINE shown == {w \in {index.window, index.audit, index.primary} : w # NoWindow}
  <1>1. \/ x \in UNION shown
        \/ \E p \in Pubs : x = index.receipts[p] \/ x = index.lookup[p]
        \/ \E r \in Runs : x = index.active[r]
    BY DEF AllRows
  <1>2. CASE x \in UNION shown
    <2>1. PICK w \in shown : x \in w
      BY <1>2
    <2>2. GoodWindow(w) /\ w # NoWindow
      BY <2>1 DEF RowsInv
    <2>3. QED
      BY <2>1, <2>2 DEF GoodWindow
  <1>3. CASE \E p \in Pubs : x = index.receipts[p] \/ x = index.lookup[p]
    BY <1>3 DEF RowsInv, GoodEntry
  <1>4. CASE \E r \in Runs : x = index.active[r]
    BY <1>4 DEF RowsInv
  <1>5. QED
    BY <1>1, <1>2, <1>3, <1>4

(* What a row of the catalogue shows is in the result Dataset at the       *)
(* revision it names, whatever crashes, lost answers and overlapping       *)
(* writers come between the two commits of a publication.                  *)
THEOREM RowsHaveResults == Spec => []IndexedResultsExist
  <1>1. Inv => IndexedResultsExist
    BY AllRowsGood DEF Inv, IndexedResultsExist, GoodRow
  <1>2. QED
    BY <1>1, Invariance, PTL

(* A withdrawn publication stays out of the primary catalogue, whoever     *)
(* publishes it again, decides or cuts over at the same time.              *)
THEOREM WithdrawalHolds == Spec => []WithdrawnStaysOut
  <1>1. Inv => WithdrawnStaysOut
    BY DEF Inv, CatalogInv
  <1>2. QED
    BY <1>1, Invariance, PTL

(* Every variable keeps its shape, and every row names a commit.           *)
THEOREM TypeCorrect == Spec => []TypeOK
  <1>1. Inv => TypeOK
    <2> SUFFICES ASSUME Inv
                 PROVE  TypeOK
      OBVIOUS
    <2>1. Types /\ RowsInv /\ ProcInv
      BY DEF Inv
    <2>2. \A i \in DOMAIN results : results[i].files \in [Pubs -> {Absent} \cup Content]
      <3>1. \A i \in DOMAIN results : results[i] \in Commits
        BY <2>1 DEF Types
      <3>2. QED
        BY <3>1 DEF Commits
    <2>3. \A x : GoodRow(x) => x \in RowOrAbsent
      <3> SUFFICES ASSUME NEW x, GoodRow(x)
                   PROVE  x \in RowOrAbsent
        OBVIOUS
      <3>1. DOMAIN results = 1..Len(results)
        BY <2>1 DEF Types
      <3>2. x \in Rows /\ x.rev \in 1..Len(results)
        BY <3>1 DEF GoodRow
      <3>3. QED
        BY <3>2 DEF RowOrAbsent, Rows
    <2>4. AllRows \subseteq RowOrAbsent
      <3>1. \A x \in AllRows : x # Absent => GoodRow(x)
        BY <2>1, AllRowsGood
      <3>2. QED
        BY <2>3, <3>1 DEF RowOrAbsent
    <2>5. ASSUME NEW w \in Workers
          PROVE  proc[w].tries \in IF proc[w].op = "cutover" THEN 0..2
                                   ELSE 0..(MaxAttempts - 1)
      <3>1. proc[w].tries \in Nat /\ proc[w].op \in {"none", "publish", "decide", "cutover"}
        BY <2>1 DEF Types, Procs
      <3>2. PublishInv(w) /\ DecideInv(w) /\ CutoverInv(w) /\ RestInv(w)
        BY <2>1 DEF ProcInv
      <3>3. QED
        BY <3>1, <3>2, PublicationAssumption DEF PublishInv, DecideInv, CutoverInv, RestInv
    <2>6. QED
      BY <2>1, <2>2, <2>4, <2>5 DEF TypeOK, Types
  <1>2. QED
    BY <1>1, Invariance, PTL

-----------------------------------------------------------------------------
(* Nothing is undone *)

(* There are finitely many runs.                                           *)
LEMMA RunsFinite == IsFiniteSet(Runs) /\ Cardinality(Runs) \in Nat
  <1> DEFINE f == [p \in Pubs |-> RunOf[p]]
  <1>1. f \in Surjection(Pubs, Runs)
    BY DEF Surjection, Runs
  <1>2. IsFiniteSet(Runs)
    BY <1>1, FS_Surjection, PublicationAssumption
  <1>3. QED
    BY <1>2, FS_CardinalityType

(* Rows with one row per publication are finitely many.                    *)
LEMMA SingleFinite ==
    ASSUME NEW rows \in SUBSET Rows, Single(rows)
    PROVE  IsFiniteSet(rows)
  <1> DEFINE f == [x \in rows |-> x.pub]
  <1>1. f \in Injection(rows, Pubs)
    BY DEF Injection, IsInjective, Single, Rows
  <1>2. QED
    BY <1>1, FS_Injection, PublicationAssumption

(* A finite, non-empty set of rows has one that no other is newer than.    *)
LEMMA NewestRow ==
    ASSUME NEW rows \in SUBSET Rows, IsFiniteSet(rows), rows # {}
    PROVE  \E x \in rows : \A y \in rows : ~Newer(y, x)
  <1> DEFINE R == OpToRel(<, Nat)
             above(x) == {y \in rows : Newer(y, x)}
             T == {Cardinality(above(x)) : x \in rows}
  <1>1. IsWellFoundedOn(R, Nat)
    BY NatLessThanWellFounded
  <1>2. \A m, n \in Nat : m < n => <<m, n>> \in R
    BY DEF OpToRel
  <1>3. \A x \in rows : IsFiniteSet(above(x)) /\ Cardinality(above(x)) \in Nat
    <2> SUFFICES ASSUME NEW x \in rows
                 PROVE  IsFiniteSet(above(x)) /\ Cardinality(above(x)) \in Nat
      OBVIOUS
    <2>1. above(x) \in SUBSET rows
      OBVIOUS
    <2>2. IsFiniteSet(above(x))
      BY <2>1, FS_Subset
    <2>3. QED
      BY <2>2, FS_CardinalityType
  <1>4. T \subseteq Nat /\ T # {}
    BY <1>3
  <1> HIDE DEF R
  <1>5. PICK n \in T : \A m \in T : ~(<<m, n>> \in R)
    BY <1>1, <1>4, WFMin
  <1>6. PICK x \in rows : Cardinality(above(x)) = n
    BY <1>5
  <1>7. ASSUME NEW y \in rows, Newer(y, x)
        PROVE  FALSE
    <2>1. CompletedAt \in [Pubs -> Nat] /\ \A z \in rows : z.pub \in Pubs
      BY PublicationAssumption DEF Rows
    <2>2. \A z \in rows : CompletedAt[z.pub] \in Nat
      BY <2>1
    <2>3. above(y) \in SUBSET above(x) /\ y \in above(x) /\ y \notin above(y)
      BY <1>7, <2>2 DEF Newer
    <2> HIDE DEF above
    <2>4. Cardinality(above(y)) <= Cardinality(above(x))
      BY <1>3, <2>3, FS_Subset
    <2>5. Cardinality(above(y)) # Cardinality(above(x))
      BY <1>3, <2>3, FS_Subset
    <2>6. Cardinality(above(y)) < n
      BY <1>3, <1>6, <2>4, <2>5
    <2>7. Cardinality(above(y)) \in T
      BY DEF T
    <2>8. QED
      BY <1>2, <1>4, <1>5, <2>6, <2>7
  <1>8. QED
    BY <1>6, <1>7

(* No run is lost when one is replaced, and one row per run is left.       *)
LEMMA ReplaceKeepsRuns ==
    ASSUME NEW rows \in SUBSET Rows, Single(rows), NEW row \in Rows
    PROVE  LET new == ReplaceActiveRun(rows, row)
           IN  /\ {RunOf[x.pub] : x \in rows} \subseteq {RunOf[x.pub] : x \in new}
               /\ \A x, y \in new : RunOf[x.pub] = RunOf[y.pub] => x = y
               /\ new \in SUBSET Rows
  <1> DEFINE new == ReplaceActiveRun(rows, row)
  <1>1. ASSUME NEW x \in rows
        PROVE  \E y \in new : RunOf[y.pub] = RunOf[x.pub]
    <2>1. CASE RunOf[x.pub] = RunOf[row.pub]
      BY <2>1, ReplaceShows
    <2>2. CASE RunOf[x.pub] # RunOf[row.pub]
      <3> DEFINE mine == {y \in rows : RunOf[y.pub] = RunOf[x.pub]}
      <3>1. mine \in SUBSET rows /\ mine # {} /\ mine \in SUBSET Rows
        OBVIOUS
      <3>2. IsFiniteSet(mine)
        BY <3>1, SingleFinite, FS_Subset
      <3>3. PICK y \in mine : \A z \in mine : ~Newer(z, y)
        BY <3>1, <3>2, NewestRow
      <3>4. y \in new
        BY <2>2, <3>3 DEF ReplaceActiveRun
      <3>5. QED
        BY <3>3, <3>4
    <2>3. QED
      BY <2>1, <2>2
  <1>2. ASSUME NEW x \in new, NEW y \in new, RunOf[x.pub] = RunOf[y.pub]
        PROVE  x = y
    <2>1. CASE x = row \/ y = row
      BY <1>2, <2>1 DEF ReplaceActiveRun
    <2>2. CASE x # row /\ y # row
      <3>1. x \in rows /\ y \in rows /\ ~Newer(x, y) /\ ~Newer(y, x)
        BY <1>2, <2>2 DEF ReplaceActiveRun
      <3>2. /\ x.pub \in Pubs /\ y.pub \in Pubs
            /\ CompletedAt[x.pub] \in Nat /\ CompletedAt[y.pub] \in Nat
        BY <3>1, PublicationAssumption DEF Rows
      <3>3. CompletedAt[x.pub] = CompletedAt[y.pub]
        BY <3>1, <3>2 DEF Newer
      <3>4. x.pub = y.pub
        BY <3>2, <3>3, PublicationAssumption
      <3>5. QED
        BY <3>1, <3>4 DEF Single
    <2>3. QED
      BY <2>1, <2>2
  <1>3. new \in SUBSET Rows
    BY ReplaceShows
  <1> HIDE DEF new
  <1>4. {RunOf[x.pub] : x \in rows} \subseteq {RunOf[x.pub] : x \in new}
    BY <1>1
  <1>5. QED
    BY <1>2, <1>3, <1>4 DEF new

(* A window as large as the number of runs drops no row.                   *)
LEMMA WindowKeepsAll ==
    ASSUME NEW rows \in SUBSET Rows,
           \A x, y \in rows : RunOf[x.pub] = RunOf[y.pub] => x = y,
           Cardinality(Runs) <= Window
    PROVE  Newest(rows) = rows
  <1> DEFINE f == [x \in rows |-> RunOf[x.pub]]
  <1>1. f \in Injection(rows, Runs)
    BY DEF Injection, IsInjective, Rows, Runs
  <1>2. IsFiniteSet(rows) /\ Cardinality(rows) <= Cardinality(Runs)
    BY <1>1, RunsFinite, FS_Injection
  <1>3. Cardinality(rows) \in Nat
    BY <1>2, FS_CardinalityType
  <1>4. ASSUME NEW x \in rows
        PROVE  Cardinality({y \in rows : Newer(y, x)}) < Window
    <2> DEFINE above == {y \in rows : Newer(y, x)}
    <2>1. IsFiniteSet(rows \ {x}) /\ Cardinality(rows \ {x}) = Cardinality(rows) - 1
      BY <1>2, FS_RemoveElement
    <2>2. CompletedAt[x.pub] \in Nat
      BY PublicationAssumption DEF Rows
    <2>3. above \in SUBSET (rows \ {x})
      BY <2>2 DEF Newer
    <2>4. IsFiniteSet(above) /\ Cardinality(above) <= Cardinality(rows \ {x})
      BY <2>1, <2>3, FS_Subset
    <2>5. Cardinality(above) \in Nat
      BY <2>4, FS_CardinalityType
    <2> HIDE DEF above
    <2>6. Cardinality(above) < Window
      BY <1>2, <1>3, <2>1, <2>4, <2>5, RunsFinite, PublicationAssumption
    <2>7. QED
      BY <2>6 DEF above
  <1>5. QED
    BY <1>4 DEF Newest

(* What one step never undoes.                                             *)
LEMMA StepUndoesNothing ==
    ASSUME Inv, Accounted
    PROVE  /\ index.audit # NoWindow /\ Cardinality(Runs) <= Window =>
                /\ index'.audit # NoWindow
                /\ {RunOf[x.pub] : x \in index.audit}
                      \subseteq {RunOf[x.pub] : x \in index'.audit}
           /\ index.events \subseteq index'.events
           /\ \A p \in Pubs : index.latest[p] # Absent =>
                /\ index'.latest[p] # Absent
                /\ index'.latest[p] # index.latest[p] =>
                     index'.latest[p].at > index.latest[p].at
  <1> DEFINE Audit ==
               index.audit # NoWindow /\ Cardinality(Runs) <= Window =>
                 /\ index'.audit # NoWindow
                 /\ {RunOf[x.pub] : x \in index.audit}
                      \subseteq {RunOf[x.pub] : x \in index'.audit}
             Latest ==
               \A p \in Pubs : index.latest[p] # Absent =>
                 /\ index'.latest[p] # Absent
                 /\ index'.latest[p] # index.latest[p] =>
                      index'.latest[p].at > index.latest[p].at
             Kept3 == Audit /\ index.events \subseteq index'.events /\ Latest
  <1>1. Growth /\ IndexStep /\ index \in Trees /\ CatalogInv
    BY DEF Accounted, Inv, Types
  <1>2. CASE index' = index \/ index' = [index EXCEPT !.exists = TRUE]
    <2>1. /\ index'.audit = index.audit /\ index'.latest = index.latest
          /\ index'.events = index.events
      BY <1>1, <1>2 DEF Trees
    <2>2. QED
      BY <2>1
  <1>3. ASSUME NEW x, PublishCommit(x)
        PROVE  Kept3
    <2>1. /\ x \in Rows /\ index' = IndexUpdate(index, x)
      BY <1>3 DEF PublishCommit, GoodRow
    <2>2. /\ index'.latest = index.latest /\ index'.events = index.events
          /\ index'.audit = CatalogWindow(index, x, "audit")
      BY <1>1, <2>1, IndexUpdateFields
    <2>3. ASSUME index.audit # NoWindow, Cardinality(Runs) <= Window
          PROVE  /\ index'.audit # NoWindow
                 /\ {RunOf[y.pub] : y \in index.audit}
                      \subseteq {RunOf[y.pub] : y \in index'.audit}
      <3> DEFINE new == ReplaceActiveRun(index.audit, x)
      <3>1. index.audit \in SUBSET Rows /\ Single(index.audit)
        BY <1>1, <2>3 DEF Trees, Windows, CatalogInv
      <3>2. index'.audit = Newest(new)
        BY <2>2, <2>3 DEF CatalogWindow
      <3>3. /\ {RunOf[y.pub] : y \in index.audit} \subseteq {RunOf[y.pub] : y \in new}
            /\ \A y, z \in new : RunOf[y.pub] = RunOf[z.pub] => y = z
            /\ new \in SUBSET Rows
        BY <2>1, <3>1, ReplaceKeepsRuns
      <3> HIDE DEF new
      <3>4. index'.audit = new
        BY <2>3, <3>2, <3>3, WindowKeepsAll
      <3>5. new # NoWindow
        BY <3>3, RecordsAssumption DEF NoWindow
      <3>6. QED
        BY <3>3, <3>4, <3>5
    <2>4. Latest /\ index.events \subseteq index'.events
      BY <2>2
    <2>5. QED
      BY <2>3, <2>4
  <1>4. ASSUME NEW d, DecisionCommit(d)
        PROVE  Kept3
    <2>1. d \in Verdicts /\ ~Refused(index, d) /\ index' = DecisionUpdate(index, d)
      BY <1>4 DEF DecisionCommit
    <2>2. /\ index.lookup[d.pub] # Absent /\ index.primary # NoWindow
          /\ index.latest[d.pub] # Absent => ~(d.at <= index.latest[d.pub].at)
      BY <2>1, NotRefused
    <2>3. /\ d.pub \in Pubs /\ d # Absent
          /\ \A e \in Verdicts : e.at \in Nat
      BY <2>1, RecordsAssumption DEF Verdicts
    <2>4. /\ index'.audit = index.audit /\ index'.events = index.events \cup {d}
          /\ index'.latest = [index.latest EXCEPT ![d.pub] = d]
      BY <1>1, <2>1, <2>2, DecisionUpdateFields
    <2>5. index.latest \in [Pubs -> {Absent} \cup Verdicts]
      BY <1>1 DEF Trees
    <2>6. ASSUME NEW p \in Pubs, index.latest[p] # Absent
          PROVE  /\ index'.latest[p] # Absent
                 /\ index'.latest[p] # index.latest[p] =>
                      index'.latest[p].at > index.latest[p].at
      <3>1. CASE p = d.pub
        <4>1. index'.latest[p] = d
          BY <2>3, <2>4, <2>5, <3>1
        <4>2. index.latest[p] \in Verdicts /\ ~(d.at <= index.latest[p].at)
          BY <2>2, <2>5, <2>6, <3>1
        <4>3. d.at \in Nat /\ index.latest[p].at \in Nat
          BY <2>1, <2>3, <4>2
        <4>4. QED
          BY <2>3, <4>1, <4>2, <4>3
      <3>2. CASE p # d.pub
        <4>1. index'.latest[p] = index.latest[p]
          BY <2>3, <2>4, <2>5, <3>2
        <4>2. QED
          BY <2>6, <4>1
      <3>3. QED
        BY <3>1, <3>2
    <2>7. QED
      BY <2>4, <2>6
  <1>5. ASSUME NEW i, NEW rev, CutoverCommit(i, rev)
        PROVE  Kept3
    <2>1. plans[i] \in Plans /\ rev \in Nat \ {0} /\ index.legacy # {}
      BY <1>1, <1>5, CutoverRowsGood
    <2>2. index.audit = NoWindow
      BY <2>1, WaitingBlocks DEF Waiting
    <2>3. index' = CutoverUpdate(index, plans[i], rev)
      BY <1>5 DEF CutoverCommit
    <2>4. index'.latest = index.latest /\ index'.events = index.events
      BY <1>1, <2>1, <2>3, CutoverUpdateFields
    <2>5. QED
      BY <2>2, <2>4
  <1>6. QED
    BY <1>1, <1>2, <1>3, <1>4, <1>5 DEF IndexStep

(* Overlapping writers never undo each other: a run listed in the audit    *)
(* catalogue stays listed, a decision stays recorded, and only a newer     *)
(* decision replaces the latest one about a publication.                   *)
THEOREM WritersKeepEachOther == Spec => NothingIsUndone
  <1> DEFINE Undone ==
        /\ index.audit # NoWindow /\ Cardinality(Runs) <= Window =>
             /\ index.audit' # NoWindow
             /\ {RunOf[x.pub] : x \in index.audit}
                  \subseteq {RunOf[x.pub] : x \in index.audit'}
        /\ index.events \subseteq index.events'
        /\ \A p \in Pubs : index.latest[p] # Absent =>
             /\ index.latest'[p] # Absent
             /\ index.latest'[p] # index.latest[p] =>
                  index.latest'[p].at > index.latest[p].at
  <1>1. Inv /\ [Next]_vars => [Undone]_vars
    <2> SUFFICES ASSUME Inv, [Next]_vars
                 PROVE  Undone
      OBVIOUS
    <2>1. Accounted
      BY NextAccounted
    <2>2. QED
      BY <2>1, StepUndoesNothing
  <1>2. QED
    BY <1>1, Invariance, PTL DEF Spec, NothingIsUndone
==============================================================================
