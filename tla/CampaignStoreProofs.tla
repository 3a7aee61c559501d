-------------------------- MODULE CampaignStoreProofs --------------------------
(***************************************************************************)
(* Proofs about what a campaign stores: HubCampaignStore's commits         *)
(* (EventStore) and the finalisation of the evidence (RunSealing), for any *)
(* writers, files and requests, any finalisers, trials and histories.      *)
(*                                                                         *)
(* EventStore implements the atomic store.  A revision that a writer has   *)
(* read is a past of main, and files are only ever added.  A commit lands  *)
(* when that past is the present, so it does what the atomic write does.   *)
(* An answer that needs no write is taken from the past, and would be the  *)
(* same now: a file that is there stays, and a file that stands against a  *)
(* request keeps every request with that condition from writing            *)
(* (Undisturbed).                                                          *)
(*                                                                         *)
(* RunSealing has no conditional write, and its passes agree all the same. *)
(* Every object has one content, fixed by the evidence and by whether a    *)
(* worker got as far as the trial's manifest (Worked, which no step of a   *)
(* pass changes), and an order: it comes after the objects it Needs.  From *)
(* any listing in which what is there has its content and came in order, a *)
(* pass plans such writes, in that order (PlanIsMade); a claim keeps two   *)
(* passes from one path.  So two passes never disagree under the run, and  *)
(* behind the run's marker is everything the marker vouches for.           *)
(***************************************************************************)
EXTENDS EventStore, RunSealing, Integers, FiniteSetTheorems, NaturalsInduction,
        WellFoundedInduction, TLAPS

-----------------------------------------------------------------------------
(* HubCampaignStore *)

Trees == [Paths -> Contents \cup {Absent}]
Views == [head : Nat, files : Trees, read : BOOLEAN]

(* The shape of the state, and that a pending writer has a request.         *)
StoreTypes ==
    /\ files \in Trees
    /\ req \in [Writers -> Ops \cup {Absent}]
    /\ res \in [Writers -> Store!Results]
    /\ head \in Nat
    /\ view \in [Writers -> Views]
    /\ \A w \in Writers : res[w] = "pending" => req[w] \in Ops

(* old is a past of new: what it holds is there still.                      *)
Kept(old, new) == \A p \in Paths : old[p] # Absent => new[p] = old[p]

(* What a writer read is a past of main, and main itself if no commit came  *)
(* after it.                                                                *)
ViewsArePast ==
    \A w \in Writers : view[w].read =>
        /\ view[w].head <= head
        /\ view[w].head = head => view[w].files = files
        /\ Kept(view[w].files, files)

(* Nothing a standing file forbids was written since it was read.           *)
Undisturbed ==
    \A w \in Writers, op \in Ops :
        view[w].read /\ Store!Stands(view[w].files, op) =>
            \A p \in DOMAIN op.new : files[p] = view[w].files[p]

StoreInv == StoreTypes /\ ViewsArePast /\ Undisturbed

-----------------------------------------------------------------------------
(* An answer that needs no write, taken from a past of main, is the answer  *)
(* of main (Settle reads a revision that may be old).                       *)
LEMMA SettledStays ==
    ASSUME NEW old \in Trees, NEW new \in Trees, NEW op \in Ops,
           Kept(old, new),
           Store!Stands(old, op) => \A p \in DOMAIN op.new : new[p] = old[p],
           Store!Settled(old, op) # "none"
    PROVE  Store!Settled(new, op) = Store!Settled(old, op)
<1> DEFINE D == DOMAIN op.new
<1>1. D \subseteq Paths
  BY StoreAssumption
<1>2. Store!Missing(new, op) \subseteq Store!Missing(old, op)
  BY <1>1 DEF Kept, Store!Missing
<1>3. Store!Conflicts(old, op) => Store!Conflicts(new, op)
  BY <1>1 DEF Kept, Store!Conflicts
<1>4. ASSUME \A p \in D : new[p] = old[p]
      PROVE  /\ Store!Missing(new, op) = Store!Missing(old, op)
             /\ Store!Conflicts(new, op) <=> Store!Conflicts(old, op)
  BY <1>4 DEF Store!Missing, Store!Conflicts
<1>5. CASE Store!Conflicts(old, op)
  BY <1>3, <1>5 DEF Store!Settled
<1>6. CASE /\ ~Store!Conflicts(old, op)
           /\ op.kind = "append" /\ Store!Missing(old, op) # D
  <2>1. Store!Missing(new, op) # D
    BY <1>2, <1>6 DEF Store!Missing
  <2> QED
    BY <1>6, <2>1 DEF Store!Settled
<1>7. CASE /\ ~Store!Conflicts(old, op)
           /\ ~(op.kind = "append" /\ Store!Missing(old, op) # D)
           /\ Store!Missing(old, op) = {}
  <2>1. \A p \in D : new[p] = old[p]
    BY <1>1, <1>7 DEF Kept, Store!Missing
  <2> QED
    BY <1>4, <1>7, <2>1 DEF Store!Settled
<1>8. CASE /\ ~Store!Conflicts(old, op)
           /\ ~(op.kind = "append" /\ Store!Missing(old, op) # D)
           /\ Store!Missing(old, op) # {}
  <2>1. Store!Stands(old, op)
    BY <1>8 DEF Store!Settled
  <2>2. Store!Stands(new, op)
    BY <2>1, StoreAssumption DEF Store!Stands, Kept
  <2> QED
    BY <1>4, <1>8, <2>1, <2>2 DEF Store!Settled
<1> QED
  BY <1>5, <1>6, <1>7, <1>8

(* Writing what is missing keeps the tree a tree and every file it has      *)
(* (create_commit with additions only).                                     *)
LEMMA WriteKeeps ==
    ASSUME NEW f \in Trees, NEW op \in Ops, NEW P \in SUBSET Store!Missing(f, op)
    PROVE  /\ Store!Write(f, op, P) \in Trees
           /\ Kept(f, Store!Write(f, op, P))
<1>1. /\ DOMAIN op.new \subseteq Paths
      /\ op.new \in [DOMAIN op.new -> Contents]
  BY StoreAssumption
<1> QED
  BY <1>1 DEF Trees, Kept, Store!Write, Store!Missing

(* What one commit does: it lands on the revision its writer read, adds     *)
(* only files that revision misses, and nothing stands against it.          *)
LEMMA CommitAdds ==
    ASSUME StoreInv, NEW w \in Writers, NEW P \in SUBSET Paths,
           res[w] = "pending", view[w].read, view[w].head = head,
           Store!Settled(view[w].files, req[w]) = "none", Batch(w, P)
    PROVE  /\ req[w] \in Ops /\ view[w].files = files
           /\ P \subseteq Store!Missing(files, req[w])
           /\ ~Store!Stands(files, req[w])
           /\ Store!Settled(files, req[w]) = "none"
           /\ Store!Write(files, req[w], P) \in Trees
           /\ Kept(files, Store!Write(files, req[w], P))
<1>1. req[w] \in Ops /\ files \in Trees
  BY DEF StoreInv, StoreTypes
<1>2. view[w].files = files
  BY DEF StoreInv, ViewsArePast
<1>3. P \subseteq Store!Missing(files, req[w])
  BY <1>2 DEF Batch
<1>4. ~Store!Stands(files, req[w])
  BY <1>2 DEF Store!Settled
<1> QED
  BY <1>1, <1>2, <1>3, <1>4, WriteKeeps

(* A commit leaves alone what a file that stands forbids: whoever writes    *)
(* such a file does so under the same condition (ensure_events_unless_cancelled, *)
(* and the resolution with the cleanups it names).                          *)
LEMMA CommitRespects ==
    ASSUME NEW f \in Trees, NEW op \in Ops, NEW other \in Ops,
           NEW P \in SUBSET Store!Missing(f, op),
           ~Store!Stands(f, op), Store!Stands(f, other)
    PROVE  \A p \in DOMAIN other.new : Store!Write(f, op, P)[p] = f[p]
<1>1. DOMAIN other.new \subseteq Paths
  BY StoreAssumption
<1>2. DOMAIN other.new \cap DOMAIN op.new = {}
  <2>1. SUFFICES ASSUME DOMAIN other.new \cap DOMAIN op.new # {}
                 PROVE  FALSE
    OBVIOUS
  <2>2. other.unless # {}
    BY DEF Store!Stands
  <2>3. op.unless = other.unless
    BY <2>1, <2>2, StoreAssumption
  <2> QED
    BY <2>3 DEF Store!Stands
<1>3. P \cap DOMAIN other.new = {}
  BY <1>2 DEF Store!Missing
<1> QED
  BY <1>1, <1>3 DEF Store!Write

-----------------------------------------------------------------------------
(* A new store has no files, and nobody has read it.                        *)
LEMMA StoreStarts == Init => StoreInv
<1> SUFFICES ASSUME Init PROVE StoreInv
  OBVIOUS
<1>1. [p \in Paths |-> Absent] \in Trees
  BY DEF Trees
<1>2. NoView \in Views /\ ~NoView.read
  BY <1>1 DEF NoView, Views
<1>3. StoreTypes
  BY <1>1, <1>2 DEF Init, StoreTypes, Store!Results
<1>4. \A w \in Writers : ~view[w].read
  BY <1>2 DEF Init
<1> QED
  BY <1>3, <1>4 DEF StoreInv, ViewsArePast, Undisturbed

(* A step that changes no file and leaves every view as it was, or gives up *)
(* the view, keeps what is known of the views.                              *)
LEMMA ViewsStand ==
    ASSUME StoreInv, files' = files, head' = head,
           NEW w \in Writers, view' = [view EXCEPT ![w] = NoView] \/ view' = view
    PROVE  ViewsArePast' /\ Undisturbed'
<1>1. view \in [Writers -> Views] /\ ~NoView.read
  BY DEF StoreInv, StoreTypes, NoView
<1>2. \A v \in Writers : view'[v] = view[v] \/ ~view'[v].read
  BY <1>1
<1>3. ViewsArePast'
  <2> SUFFICES ASSUME NEW v \in Writers, view'[v].read
               PROVE  /\ view'[v].head <= head'
                      /\ view'[v].head = head' => view'[v].files = files'
                      /\ Kept(view'[v].files, files')
    BY DEF ViewsArePast, Kept
  <2> QED
    BY <1>2 DEF StoreInv, ViewsArePast
<1>4. Undisturbed'
  <2> SUFFICES ASSUME NEW v \in Writers, NEW op \in Ops, view'[v].read,
                      Store!Stands(view'[v].files, op)
               PROVE  \A p \in DOMAIN op.new : files'[p] = view'[v].files[p]
    BY DEF Undisturbed, Store!Stands
  <2> QED
    BY <1>2 DEF StoreInv, Undisturbed
<1> QED
  BY <1>3, <1>4

(* Every step of a writer keeps the views pasts of main, whoever commits    *)
(* between a writer's read and its commit.                                  *)
LEMMA StoreStep == StoreInv /\ [Next]_vars => StoreInv'
<1> SUFFICES ASSUME StoreInv, [Next]_vars PROVE StoreInv'
  OBVIOUS
<1>0. StoreTypes /\ ViewsArePast /\ Undisturbed
  BY DEF StoreInv
<1>n. NoView \in Views /\ ~NoView.read
  BY DEF NoView, Views, Trees
<1>1. ASSUME NEW w \in Writers, NEW op \in Ops, Request(w, op)
      PROVE  StoreInv'
  <2>1. StoreTypes'
    BY <1>0, <1>1, <1>n DEF Request, Answer, StoreTypes, Store!Results
  <2> QED
    BY <1>1, <2>1, ViewsStand DEF Request, StoreInv
<1>2. ASSUME NEW w \in Writers, ReadHead(w)
      PROVE  StoreInv'
  <2>1. Revision \in Views /\ Revision.files = files /\ Revision.head = head
    BY <1>0 DEF Revision, Views, StoreTypes
  <2>2. StoreTypes'
    BY <1>0, <1>2, <2>1 DEF ReadHead, StoreTypes
  <2>3. \A v \in Writers : view'[v] = IF v = w THEN Revision ELSE view[v]
    BY <1>0, <1>2 DEF ReadHead, StoreTypes
  <2>4. files' = files /\ head' = head /\ head \in Nat
    BY <1>0, <1>2 DEF ReadHead, StoreTypes
  <2>5. ViewsArePast'
    BY <1>0, <2>1, <2>3, <2>4 DEF ViewsArePast, Kept
  <2>6. Undisturbed'
    <3> SUFFICES ASSUME NEW v \in Writers, NEW op \in Ops, view'[v].read,
                        Store!Stands(view'[v].files, op)
                 PROVE  \A p \in DOMAIN op.new : files'[p] = view'[v].files[p]
      BY DEF Undisturbed, Store!Stands
    <3> QED
      BY <1>0, <2>1, <2>3, <2>4 DEF Undisturbed
  <2> QED
    BY <2>2, <2>5, <2>6 DEF StoreInv
<1>3. ASSUME NEW w \in Writers, Settle(w)
      PROVE  StoreInv'
  <2>1. Store!Settled(view[w].files, req[w]) \in Store!Results \ {"pending"}
    BY DEF Store!Settled, Store!Results
  <2>2. StoreTypes'
    BY <1>0, <1>3, <2>1 DEF Settle, Answer, StoreTypes
  <2> QED
    BY <1>3, <2>2, ViewsStand DEF Settle, StoreInv
<1>4. ASSUME NEW w \in Writers, Commit(w)
      PROVE  StoreInv'
  <2>1. PICK P \in SUBSET Paths :
          /\ Batch(w, P)
          /\ files' = Store!Write(files, req[w], P)
          /\ head' = head + 1
          /\ view' = [view EXCEPT ![w] = [head |-> head + 1, files |-> files', read |-> TRUE]]
          /\ \/ Answer(w, IF P = Store!Missing(view[w].files, req[w])
                          THEN "created" ELSE "pending")
             \/ Answer(w, "raised")
    BY <1>4 DEF Commit
  <2>2. /\ req[w] \in Ops /\ view[w].files = files
        /\ P \subseteq Store!Missing(files, req[w])
        /\ ~Store!Stands(files, req[w])
        /\ files' \in Trees /\ Kept(files, files')
    BY <1>4, <2>1, CommitAdds DEF Commit
  <2>3. req' = req /\ head \in Nat /\ files \in Trees
    BY <1>0, <1>4 DEF Commit, StoreTypes
  <2>4. [head |-> head + 1, files |-> files', read |-> TRUE] \in Views
    BY <2>2, <2>3 DEF Views
  <2>5. res' \in [Writers -> Store!Results]
    BY <1>0, <2>1 DEF Answer, StoreTypes, Store!Results
  <2>6. \A v \in Writers : res'[v] = "pending" => res[v] = "pending"
    BY <1>0, <1>4, <2>1 DEF Answer, StoreTypes, Commit
  <2>7. view' \in [Writers -> Views]
    BY <1>0, <2>1, <2>4 DEF StoreTypes
  <2>8. StoreTypes'
    BY <1>0, <2>1, <2>2, <2>3, <2>5, <2>6, <2>7 DEF StoreTypes
  <2>9. \A v \in Writers :
           \/ v = w /\ view'[v].files = files' /\ view'[v].head = head'
           \/ v # w /\ view'[v] = view[v]
    BY <1>0, <2>1 DEF StoreTypes
  <2>10. ViewsArePast'
    <3> SUFFICES ASSUME NEW v \in Writers, view'[v].read
                 PROVE  /\ view'[v].head <= head'
                        /\ view'[v].head = head' => view'[v].files = files'
                        /\ Kept(view'[v].files, files')
      BY DEF ViewsArePast, Kept
    <3>1. CASE v = w
      BY <2>1, <2>3, <2>9, <3>1 DEF Kept
    <3>2. CASE v # w
      <4>1. view'[v] = view[v] /\ view[v].head \in Nat /\ view[v].head <= head
        BY <1>0, <2>9, <3>2 DEF ViewsArePast, StoreTypes, Views
      <4>2. view[v].head < head'
        BY <2>1, <2>3, <4>1
      <4>3. Kept(view[v].files, files)
        BY <1>0, <4>1 DEF ViewsArePast
      <4>4. Kept(view[v].files, files')
        BY <2>2, <4>3 DEF Kept
      <4> QED
        BY <2>1, <2>3, <4>1, <4>2, <4>4
    <3> QED
      BY <3>1, <3>2
  <2>11. Undisturbed'
    <3> SUFFICES ASSUME NEW v \in Writers, NEW op \in Ops, view'[v].read,
                        Store!Stands(view'[v].files, op)
                 PROVE  \A p \in DOMAIN op.new : files'[p] = view'[v].files[p]
      BY DEF Undisturbed, Store!Stands
    <3>1. CASE v = w
      BY <2>9, <3>1
    <3>2. CASE v # w
      <4>1. view'[v] = view[v]
        BY <2>9, <3>2
      <4>2. \A p \in DOMAIN op.new : files[p] = view[v].files[p]
        BY <1>0, <4>1 DEF Undisturbed
      <4>3. Kept(view[v].files, files)
        BY <1>0, <4>1 DEF ViewsArePast
      <4>4. op.unless \subseteq Paths
        BY StoreAssumption
      <4>5. Store!Stands(files, op)
        BY <4>1, <4>3, <4>4 DEF Store!Stands, Kept
      <4>6. \A p \in DOMAIN op.new : files'[p] = files[p]
        BY <2>1, <2>2, <2>3, <4>5, CommitRespects
      <4> QED
        BY <4>1, <4>2, <4>6
    <3> QED
      BY <3>1, <3>2
  <2> QED
    BY <2>8, <2>10, <2>11 DEF StoreInv
<1>5. ASSUME NEW w \in Writers, ParentConflict(w)
      PROVE  StoreInv'
  <2>1. StoreTypes'
    BY <1>0, <1>5, <1>n DEF ParentConflict, StoreTypes
  <2> QED
    BY <1>5, <2>1, ViewsStand DEF ParentConflict, StoreInv
<1>6. ASSUME NEW w \in Writers, Fail(w)
      PROVE  StoreInv'
  <2>1. StoreTypes'
    BY <1>0, <1>6 DEF Fail, Answer, StoreTypes, Store!Results
  <2> QED
    BY <1>6, <2>1, ViewsStand DEF Fail, StoreInv
<1>7. CASE UNCHANGED vars
  BY <1>0, <1>7 DEF vars, StoreInv, StoreTypes, ViewsArePast, Undisturbed, Kept,
                    Store!Stands
<1> QED
  BY <1>1, <1>2, <1>3, <1>4, <1>5, <1>6, <1>7 DEF Next

-----------------------------------------------------------------------------
(* Each step of the store is a step of the atomic store, or invisible to    *)
(* its callers: a read and a refused commit are stutters, an answer and a   *)
(* commit happen at once.                                                   *)
LEMMA StepsAreAtomic == StoreInv /\ [Next]_vars => [Store!ANext]_(Store!aVars)
<1> SUFFICES ASSUME StoreInv, [Next]_vars PROVE [Store!ANext]_(Store!aVars)
  OBVIOUS
<1>0. StoreTypes /\ ViewsArePast /\ Undisturbed
  BY DEF StoreInv
<1>1. ASSUME NEW w \in Writers, NEW op \in Ops, Request(w, op)
      PROVE  Store!ARequest(w, op)
  BY <1>1 DEF Request, Answer, Store!ARequest
<1>2. ASSUME NEW w \in Writers, ReadHead(w) \/ ParentConflict(w)
      PROVE  UNCHANGED Store!aVars
  BY <1>2 DEF ReadHead, ParentConflict, Store!aVars
<1>3. ASSUME NEW w \in Writers, Settle(w)
      PROVE  Store!AAnswer(w)
  <2>1. /\ res[w] = "pending" /\ view[w].read
        /\ Store!Settled(view[w].files, req[w]) # "none"
        /\ res' = [res EXCEPT ![w] = Store!Settled(view[w].files, req[w])]
        /\ UNCHANGED <<files, req>>
    BY <1>3 DEF Settle, Answer
  <2>2. req[w] \in Ops /\ files \in Trees /\ view[w].files \in Trees
    BY <1>0, <2>1 DEF StoreTypes, Views
  <2>3. Store!Settled(files, req[w]) = Store!Settled(view[w].files, req[w])
    <3>1. Kept(view[w].files, files)
      BY <1>0, <2>1 DEF ViewsArePast
    <3>2. Store!Stands(view[w].files, req[w]) =>
             \A p \in DOMAIN req[w].new : files[p] = view[w].files[p]
      BY <1>0, <2>1, <2>2 DEF Undisturbed
    <3> QED
      BY <2>1, <2>2, <3>1, <3>2, SettledStays
  <2> QED
    BY <2>1, <2>3 DEF Store!AAnswer
<1>4. ASSUME NEW w \in Writers, Commit(w)
      PROVE  Store!AWrite(w) \/ Store!APart(w)
  <2>1. PICK P \in SUBSET Paths :
          /\ Batch(w, P)
          /\ files' = Store!Write(files, req[w], P)
          /\ \/ res' = [res EXCEPT ![w] = IF P = Store!Missing(view[w].files, req[w])
                                          THEN "created" ELSE "pending"]
             \/ res' = [res EXCEPT ![w] = "raised"]
    BY <1>4 DEF Commit, Answer
  <2>2. /\ res[w] = "pending" /\ req' = req
        /\ view[w].files = files
        /\ P \subseteq Store!Missing(files, req[w])
        /\ Store!Settled(files, req[w]) = "none"
    BY <1>4, <2>1, CommitAdds DEF Commit
  <2>3. CASE P = Store!Missing(files, req[w])
    BY <2>1, <2>2, <2>3 DEF Store!AWrite
  <2>4. CASE P # Store!Missing(files, req[w])
    <3>1. req[w].kind = "observe"
      BY <2>1, <2>2, <2>4 DEF Batch
    <3>2. \E r \in {"pending", "raised"} : res' = [res EXCEPT ![w] = r]
      BY <2>1, <2>2, <2>4
    <3> QED
      BY <2>1, <2>2, <3>1, <3>2 DEF Store!APart
  <2> QED
    BY <2>3, <2>4
<1>5. ASSUME NEW w \in Writers, Fail(w)
      PROVE  Store!AFail(w)
  BY <1>5 DEF Fail, Answer, Store!AFail
<1>6. CASE UNCHANGED vars
  BY <1>6 DEF vars, Store!aVars
<1> QED
  BY <1>1, <1>2, <1>3, <1>4, <1>5, <1>6 DEF Next, Store!ANext

(* HubCampaignStore is an atomic store: reading a head, looking at its      *)
(* files and committing with that head as parent, and beginning again when  *)
(* the commit is refused, gives every caller what one indivisible request   *)
(* would, for any number of writers and whatever calls fail.                *)
THEOREM CommitsAreAtomic == Spec => StoreIsAtomic
<1>1. Init => Store!AInit
  BY DEF Init, Store!AInit
<1>2. Spec => []StoreInv
  BY StoreStarts, StoreStep, PTL DEF Spec
<1> QED
  BY <1>1, <1>2, StepsAreAtomic, PTL DEF Spec, StoreIsAtomic, Store!ASpec

-----------------------------------------------------------------------------
(* The finalisation of the evidence: the invariant *)

(* What a worker's manifest covers, and what a finaliser's covers.          *)
WorkerManifest(t) == Executions(t) \cup {<<t, "lock">>, <<t, "summary">>}
RecoveredManifest(t) == WorkerManifest(t) \cup {<<t, "recovery">>}
LastExecution(t) == {<<t, ExecNames[Len(execs[t])]>>}

(* The worker got as far as the trial's manifest.                           *)
Worked(t) == bucket[<<t, "checksums">>] = WorkerManifest(t)

(* The one execution a finaliser may complete the trial with.               *)
Recoverable(t) == Ending(t, "none") = {} /\ Cardinality(Ending(t, "ok")) = 1

(* The content every object of a trial has once it is there.                *)
TrialContent(t, k) ==
    CASE k = "lock" -> {}
      [] k = "marker" -> {}
      [] k = "recovery" -> Ending(t, "ok")
      [] k = "summary" -> IF Worked(t) THEN LastExecution(t) ELSE Ending(t, "ok")
      [] k = "checksums" -> IF Worked(t) THEN WorkerManifest(t) ELSE RecoveredManifest(t)

TrialWrite(t, k) == << <<t, k>>, TrialContent(t, k) >>

(* The files of a finished trial.                                           *)
FilesOf(t) == IF Worked(t) THEN TrialFiles \ {"recovery"} ELSE TrialFiles

(* Every trial of the run can be judged.                                    *)
Judged ==
    \A t \in AllTrials :
        /\ execs[t] # <<>> /\ Ending(t, "none") = {}
        /\ t \in scored /\ ~ Worked(t) => Recoverable(t)

RunSelected ==
    UNION {IF t \in scored THEN TrialContent(t, "summary") ELSE LastExecution(t) : t \in AllTrials}

RunCovers ==
    AllExecutions \cup {<<"run", k>> : k \in {"lock", "verification", "summary", "envelope"}}
      \cup UNION {{<<t, k>> : k \in FilesOf(t)} : t \in scored}

(* The content every object of the run has once it is there.                *)
RunContent(k) ==
    CASE k = "lock" -> {}
      [] k = "marker" -> {}
      [] k = "verification" -> RunSelected
      [] k = "summary" ->
           RunSelected \cup AllExecutions
             \cup {<<"quality", IF scored = AllTrials THEN "clean" ELSE "degraded">>}
      [] k = "envelope" -> AllExecutions
      [] k = "checksums" -> RunCovers

RunWrite(k) == << <<"run", k>>, RunContent(k) >>

(* The writes that come before an object: a trial's manifest after what it  *)
(* covers, its marker after the manifest, the run's facts after the trials, *)
(* its manifest and marker after those, and a terminal marker after the     *)
(* summary with its decision.                                               *)
Needs(p) ==
    CASE p[2] = "checksums" /\ p[1] \in AllTrials ->
           IF Worked(p[1]) THEN {}
           ELSE {TrialWrite(p[1], k) : k \in {"recovery", "lock", "summary"}}
      [] p[2] = "marker" /\ p[1] \in AllTrials ->
           {TrialWrite(p[1], k) : k \in {"lock", "summary", "checksums"}}
      [] p[1] = "run" /\ p[2] \in {"verification", "summary", "envelope"} ->
           {TrialWrite(t, "marker") : t \in scored}
      [] p[1] = "run" /\ p[2] = "checksums" ->
           {RunWrite(k) : k \in {"verification", "summary", "envelope"}}
      [] p[1] = "run" /\ p[2] = "marker" -> {RunWrite("checksums")}
      [] p[1] = "campaign" /\ p[2] \in Statuses ->
           {<< <<"campaign", "summary">>, {<<"campaign", p[2]>>} >>}
      [] OTHER -> {}

Done(w) == bucket[w[1]] = w[2]

(* A write that some pass may make.                                         *)
TrialWriteOK(w) ==
    \E t \in scored, k \in TrialFiles :
        /\ w = TrialWrite(t, k)
        /\ Worked(t) => k = "marker"
        /\ ~ Worked(t) => Recoverable(t)
RunWriteOK(w) ==
    \E k \in RunFiles \ {"lock"} : runDone /\ Judged /\ w = RunWrite(k)
CampaignWriteOK(w) ==
    \E s \in Statuses :
        \/ w = << <<"campaign", "summary">>, {<<"campaign", s>>} >>
        \/ w = << <<"campaign", s>>, {} >>
WriteOK(w) == TrialWriteOK(w) \/ RunWriteOK(w) \/ CampaignWriteOK(w)

(* Every write of a plan is one of those, and comes after what it needs.    *)
PlanOK(todo) ==
    \A i \in DOMAIN todo : todo[i] # Failure =>
        /\ WriteOK(todo[i])
        /\ \A r \in Needs(todo[i][1]) : Done(r) \/ \E j \in 1..(i - 1) : todo[j] = r

(* An object that is there has its content and came after what it needs.    *)
TrialsOK ==
    \A t \in AllTrials, k \in TrialFiles : bucket[<<t, k>>] # NoObject =>
        /\ t \in scored /\ k \in FilesOf(t)
        /\ Done(TrialWrite(t, k))
        /\ Worked(t) => execs[t] # <<>> /\ Last(execs[t]) = "ok"
        /\ ~ Worked(t) => Recoverable(t)
RunOK ==
    \A k \in RunFiles : bucket[<<"run", k>>] # NoObject =>
        (k # "lock" => Judged) /\ Done(RunWrite(k))
CampaignOK ==
    /\ \A s \in Statuses : bucket[<<"campaign", s>>] \in {NoObject, {}}
    /\ \/ bucket[<<"campaign", "summary">>] = NoObject
       \/ \E s \in Statuses : bucket[<<"campaign", "summary">>] = {<<"campaign", s>>}
OrderOK == \A p \in Path : bucket[p] # NoObject => \A r \in Needs(p) : Done(r)
ClaimsOK ==
    \A f \in Finalizers : pass[f].at = "put" =>
        LET p == Head(pass[f].todo)[1]
        IN  /\ pass[f].todo # <<>> /\ Head(pass[f].todo) # Failure
            /\ claim[p] = f /\ bucket[p] = NoObject
PlansOK == \A f \in Finalizers : PlanOK(pass[f].todo)

(* The types, and what never changes.                                       *)
Steps == (Path \X SUBSET Entries) \cup {Failure}
SealingTypes ==
    /\ scored \subseteq AllTrials /\ execs \in [AllTrials -> Histories]
    /\ runDone \in BOOLEAN /\ decision \in Statuses
    /\ bucket \in [Path -> (SUBSET Entries) \cup {NoObject}]
    /\ bucket[<<"run", "lock">>] = {}
    /\ claim \in [Path -> Finalizers \cup {Nobody, Gone}]
    /\ pass \in [Finalizers -> [at : {"idle", "claim", "put"}, todo : Seq(Steps)]]
    /\ conflicts \subseteq Path /\ faults \in 0..MaxFaults

SealingInv ==
    /\ SealingTypes /\ TrialsOK /\ RunOK /\ CampaignOK /\ OrderOK
    /\ ClaimsOK /\ PlansOK /\ PassesAgree

-----------------------------------------------------------------------------
(* Sequences *)

(* A nonempty set of naturals has a smallest element.                       *)
LEMMA Smallest ==
    ASSUME NEW S, S \subseteq Nat, S # {}
    PROVE  \E n \in S : \A m \in S : n <= m
  <1> DEFINE R == OpToRel(<, Nat)
  <1>1. IsWellFoundedOn(R, Nat)
    BY NatLessThanWellFounded
  <1>2. \A x, y \in Nat : x < y => <<x, y>> \in R
    BY DEF OpToRel
  <1> HIDE DEF R
  <1>3. PICK x \in S : \A y \in S : ~ (<<y, x>> \in R)
    BY <1>1, WFMin
  <1>4. ASSUME NEW y \in S PROVE x <= y
    <2>1. x \in Nat /\ y \in Nat
      BY <1>3
    <2>2. ~ (y < x)
      BY <1>2, <1>3, <2>1
    <2>3. QED
      BY <2>1, <2>2
  <1>5. QED
    BY <1>4

Joined(g, ss, k) ==
    \A i \in 1..k : g[i] = IF i = 1 THEN ss[i] ELSE g[i - 1] \o ss[i]

(* The prefixes of a sequence of sequences can be joined one by one.        *)
LEMMA JoinedExists ==
    ASSUME NEW S, NEW n \in Nat, NEW ss \in [1..n -> Seq(S)]
    PROVE  \E g \in [1..n -> Seq(S)] : Joined(g, ss, n)
  <1> DEFINE Bad == {k \in 0..n : ~ \E g \in [1..k -> Seq(S)] : Joined(g, ss, k)}
  <1>1. SUFFICES ASSUME Bad # {} PROVE FALSE
    OBVIOUS
  <1>2. PICK b \in Bad : \A m \in Bad : b <= m
    <2>1. Bad \subseteq Nat
      OBVIOUS
    <2> HIDE DEF Bad
    <2>2. QED
      BY <1>1, <2>1, Smallest
  <1>b. b \in 0..n /\ \A m \in 0..n : m < b => m \notin Bad
    <2>1. b \in 0..n /\ \A m \in Bad : m \in 0..n
      OBVIOUS
    <2> HIDE DEF Bad
    <2>2. QED
      BY <1>2, <2>1
  <1>3. CASE b = 0
    <2>1. [i \in 1..0 |-> <<>>] \in [1..0 -> Seq(S)] /\ Joined([i \in 1..0 |-> <<>>], ss, 0)
      BY DEF Joined
    <2>2. QED
      BY <1>2, <1>3, <2>1
  <1>4. CASE b # 0
    <2>1. b - 1 \in 0..n /\ b - 1 \notin Bad
      <3> HIDE DEF Bad
      <3> QED
        BY <1>b, <1>4
    <2>2. PICK g \in [1..(b - 1) -> Seq(S)] : Joined(g, ss, b - 1)
      BY <2>1
    <2> DEFINE h == [i \in 1..b |-> IF i = b
                                    THEN IF i = 1 THEN ss[i] ELSE g[i - 1] \o ss[i]
                                    ELSE g[i]]
    <2>3. \A i \in 1..b : ss[i] \in Seq(S) /\ (i # 1 => g[i - 1] \in Seq(S))
      BY <1>2, <1>4
    <2>4. h \in [1..b -> Seq(S)]
      BY <2>3
    <2>5. Joined(h, ss, b)
      <3> SUFFICES ASSUME NEW i \in 1..b
                   PROVE  h[i] = IF i = 1 THEN ss[i] ELSE h[i - 1] \o ss[i]
        BY DEF Joined
      <3>1. i \in Nat /\ b \in Nat /\ b # 0
        BY <1>b, <1>4
      <3>2. i # 1 => i - 1 \in 1..b /\ i - 1 # b
        BY <3>1
      <3>3. i # b => i \in 1..(b - 1) /\ g[i] = IF i = 1 THEN ss[i] ELSE g[i - 1] \o ss[i]
        <4>1. i # b => i \in 1..(b - 1)
          BY <3>1
        <4>2. QED
          BY <2>2, <4>1 DEF Joined
      <3>4. QED
        BY <3>2, <3>3
    <2>6. QED
      BY <1>2, <2>4, <2>5
  <1>5. QED
    BY <1>3, <1>4

(* FlattenSeq joins them all.                                               *)
LEMMA FlattenJoins ==
    ASSUME NEW S, NEW ss \in Seq(Seq(S)), Len(ss) # 0
    PROVE  \E g \in [1..Len(ss) -> Seq(S)] : Joined(g, ss, Len(ss)) /\ FlattenSeq(ss) = g[Len(ss)]
  <1> DEFINE n == Len(ss)
             F == CHOOSE f : f = [i \in 1..Len(ss) |->
                                    IF i = 1 THEN ss[i] ELSE f[i - 1] \o ss[i]]
  <1>1. n \in Nat /\ ss \in [1..n -> Seq(S)]
    OBVIOUS
  <1>2. PICK g \in [1..n -> Seq(S)] : Joined(g, ss, n)
    BY <1>1, JoinedExists
  <1>3. g = [i \in 1..Len(ss) |-> IF i = 1 THEN ss[i] ELSE g[i - 1] \o ss[i]]
    BY <1>2 DEF Joined
  <1>4. F = [i \in 1..Len(ss) |-> IF i = 1 THEN ss[i] ELSE F[i - 1] \o ss[i]]
    BY <1>3
  <1>5. FlattenSeq(ss) = F[Len(ss)]
    BY DEF FlattenSeq
  <1> HIDE DEF F
  <1>6. Joined(F, ss, n) /\ DOMAIN F = 1..n
    BY <1>4 DEF Joined
  <1>7. \A i \in 1..n : F[i] \in Seq(S)
    <2> DEFINE Bad == {k \in 1..n : F[k] \notin Seq(S)}
    <2>1. SUFFICES ASSUME Bad # {} PROVE FALSE
      OBVIOUS
    <2>2. PICK b \in Bad : \A m \in Bad : b <= m
      <3>1. Bad \subseteq Nat
        OBVIOUS
      <3> HIDE DEF Bad
      <3>2. QED
        BY <2>1, <3>1, Smallest
    <2>3. b # 1 => b - 1 \in 1..n /\ F[b - 1] \in Seq(S)
      BY <2>2
    <2>4. F[b] \in Seq(S)
      <3>1. F[b] = IF b = 1 THEN ss[b] ELSE F[b - 1] \o ss[b]
        BY <1>6, <2>2 DEF Joined
      <3>2. ss[b] \in Seq(S)
        BY <1>1, <2>2
      <3>3. QED
        BY <2>3, <3>1, <3>2
    <2>5. QED
      BY <2>2, <2>4
  <1>8. F \in [1..n -> Seq(S)]
    BY <1>6, <1>7, <1>4
  <1>9. QED
    BY <1>5, <1>6, <1>8

(* What a joined prefix holds: the elements of the parts, in their order.   *)
HoldsParts(q, ss, k) ==
    /\ \A i \in DOMAIN q : \E a \in 1..k : \E c \in DOMAIN ss[a] :
         /\ q[i] = ss[a][c]
         /\ \A d \in 1..(c - 1) : \E j \in 1..(i - 1) : q[j] = ss[a][d]
    /\ \A a \in 1..k : \A c \in DOMAIN ss[a] : \E i \in DOMAIN q : q[i] = ss[a][c]

(* One more part.                                                           *)
LEMMA HoldsOneMore ==
    ASSUME NEW S, NEW n \in Nat, NEW ss \in [1..n -> Seq(S)], NEW k \in 1..n,
           NEW q \in Seq(S), HoldsParts(q, ss, k - 1)
    PROVE  HoldsParts(q \o ss[k], ss, k)
  <1> DEFINE r == q \o ss[k]
  <1>0. ss[k] \in Seq(S) /\ Len(ss[k]) \in Nat /\ Len(q) \in Nat
    OBVIOUS
  <1>1. /\ DOMAIN r = 1..(Len(q) + Len(ss[k]))
        /\ \A i \in 1..Len(q) : i \in DOMAIN r /\ r[i] = q[i]
        /\ \A c \in 1..Len(ss[k]) : Len(q) + c \in DOMAIN r /\ r[Len(q) + c] = ss[k][c]
    BY <1>0
  <1> HIDE DEF r
  <1>2. ASSUME NEW i \in DOMAIN r
        PROVE  \E a \in 1..k : \E c \in DOMAIN ss[a] :
                 /\ r[i] = ss[a][c]
                 /\ \A d \in 1..(c - 1) : \E j \in 1..(i - 1) : r[j] = ss[a][d]
    <2>1. CASE i \in 1..Len(q)
      <3>1. PICK a \in 1..(k - 1) : \E c \in DOMAIN ss[a] :
              /\ q[i] = ss[a][c]
              /\ \A d \in 1..(c - 1) : \E j \in 1..(i - 1) : q[j] = ss[a][d]
        <4>1. i \in DOMAIN q
          BY <2>1, <1>0
        <4>2. QED
          BY <4>1 DEF HoldsParts
      <3>2. PICK c \in DOMAIN ss[a] :
              /\ q[i] = ss[a][c]
              /\ \A d \in 1..(c - 1) : \E j \in 1..(i - 1) : q[j] = ss[a][d]
        BY <3>1
      <3>3. \A j \in 1..(i - 1) : j \in 1..Len(q) /\ r[j] = q[j]
        BY <1>0, <1>1, <2>1
      <3>4. \A d \in 1..(c - 1) : \E j \in 1..(i - 1) : r[j] = ss[a][d]
        BY <3>2, <3>3
      <3>5. a \in 1..k /\ r[i] = ss[a][c]
        BY <1>1, <2>1, <3>2
      <3>6. QED
        BY <3>2, <3>4, <3>5
    <2>2. CASE i \notin 1..Len(q)
      <3> DEFINE c == i - Len(q)
      <3>1. c \in 1..Len(ss[k]) /\ i = Len(q) + c
        BY <1>0, <1>1, <2>2
      <3>2. c \in DOMAIN ss[k] /\ r[i] = ss[k][c]
        BY <1>0, <1>1, <3>1
      <3>3. ASSUME NEW d \in 1..(c - 1) PROVE \E j \in 1..(i - 1) : r[j] = ss[k][d]
        <4>1. d \in 1..Len(ss[k]) /\ Len(q) + d \in 1..(i - 1)
          BY <1>0, <3>1
        <4>2. r[Len(q) + d] = ss[k][d]
          BY <1>1, <4>1
        <4>3. QED
          BY <4>1, <4>2
      <3>4. k \in 1..k
        OBVIOUS
      <3> HIDE DEF c
      <3>5. QED
        BY <3>2, <3>3, <3>4
    <2>3. QED
      BY <2>1, <2>2
  <1>3. ASSUME NEW a \in 1..k, NEW c \in DOMAIN ss[a] PROVE \E i \in DOMAIN r : r[i] = ss[a][c]
    <2>1. CASE a = k
      <3>1. c \in 1..Len(ss[k])
        BY <1>0, <2>1
      <3>2. QED
        BY <1>1, <2>1, <3>1
    <2>2. CASE a # k
      <3>1. a \in 1..(k - 1)
        BY <2>2
      <3>2. PICK i \in DOMAIN q : q[i] = ss[a][c]
        BY <3>1 DEF HoldsParts
      <3>3. i \in 1..Len(q)
        OBVIOUS
      <3>4. QED
        BY <1>1, <3>2, <3>3
    <2>3. QED
      BY <2>1, <2>2
  <1>4. QED
    BY <1>2, <1>3 DEF HoldsParts, r

(* A flattened sequence holds its parts.                                    *)
LEMMA FlattenHolds ==
    ASSUME NEW S, NEW ss \in Seq(Seq(S))
    PROVE  FlattenSeq(ss) \in Seq(S) /\ HoldsParts(FlattenSeq(ss), ss, Len(ss))
  <1> DEFINE n == Len(ss)
  <1>1. n \in Nat /\ ss \in [1..n -> Seq(S)]
    OBVIOUS
  <1>2. CASE n = 0
    <2>1. FlattenSeq(ss) = ss /\ ss = <<>>
      BY <1>2 DEF FlattenSeq
    <2>2. QED
      BY <1>2, <2>1 DEF HoldsParts
  <1>3. CASE n # 0
    <2>1. PICK g \in [1..n -> Seq(S)] : Joined(g, ss, n) /\ FlattenSeq(ss) = g[n]
      BY <1>3, FlattenJoins
    <2> DEFINE Bad == {k \in 1..n : ~ HoldsParts(g[k], ss, k)}
    <2>2. Bad = {}
      <3>1. SUFFICES ASSUME Bad # {} PROVE FALSE
        OBVIOUS
      <3>2. PICK b \in Bad : \A m \in Bad : b <= m
        <4>1. Bad \subseteq Nat
          BY <1>1
        <4> HIDE DEF Bad
        <4>2. QED
          BY <3>1, <4>1, Smallest
      <3>3. b \in 1..n /\ ~ HoldsParts(g[b], ss, b)
        OBVIOUS
      <3>4. CASE b = 1
        <4>1. g[1] = ss[1] /\ ss[1] \in Seq(S)
          BY <1>1, <2>1, <3>3, <3>4 DEF Joined
        <4>2. HoldsParts(<<>>, ss, 1 - 1)
          BY DEF HoldsParts
        <4>3. <<>> \o ss[1] = ss[1] /\ <<>> \in Seq(S)
          BY <4>1
        <4>4. HoldsParts(<<>> \o ss[1], ss, 1)
          BY <1>1, <3>3, <3>4, <4>2, <4>3, HoldsOneMore
        <4>5. QED
          BY <3>3, <3>4, <4>1, <4>3, <4>4
      <3>5. CASE b # 1
        <4>1. b - 1 \in 1..n /\ b - 1 < b
          BY <3>3, <3>5
        <4>2. HoldsParts(g[b - 1], ss, b - 1)
          BY <3>2, <4>1, <3>3, <1>1
        <4>3. g[b] = g[b - 1] \o ss[b] /\ g[b - 1] \in Seq(S)
          BY <2>1, <3>3, <3>5, <4>1 DEF Joined
        <4>4. HoldsParts(g[b - 1] \o ss[b], ss, b)
          BY <1>1, <3>3, <4>2, <4>3, HoldsOneMore
        <4>5. QED
          BY <3>3, <4>3, <4>4
      <3>6. QED
        BY <3>4, <3>5
    <2>3. n \in 1..n
      BY <1>1, <1>3
    <2>4. QED
      BY <2>1, <2>2, <2>3
  <1>4. QED
    BY <1>2, <1>3

-----------------------------------------------------------------------------
(* Names and contents *)

(* A trial's directory is none of the others.                               *)
LEMMA TrialNames ==
    /\ \A t \in AllTrials : t \notin {"run", "campaign", "quality", "nothing"}
    /\ \A t \in AllTrials, k \in TrialFiles : <<t, k>> \in Path
    /\ \A k \in RunFiles : <<"run", k>> \in Path
    /\ \A s \in Statuses : <<"campaign", s>> \in Path
    /\ <<"campaign", "summary">> \in Path
  <1>1. \A t \in AllTrials : t \notin {"run", "campaign", "quality", "nothing"}
    BY SealingAssumption
  <1>2. QED
    BY <1>1 DEF Path

(* A path is a file of a trial, of the run or of the campaign.              *)
LEMMA PathKinds ==
    ASSUME NEW p \in Path
    PROVE  \/ \E t \in AllTrials, k \in TrialFiles : p = <<t, k>>
           \/ \E k \in RunFiles : p = <<"run", k>>
           \/ p = <<"campaign", "summary">>
           \/ \E s \in Statuses : p = <<"campaign", s>>
  BY DEF Path

(* Executions are named after their trial and are no files of it.           *)
LEMMA ExecutionNamesOf ==
    ASSUME execs \in [AllTrials -> Histories], NEW t \in AllTrials
    PROVE  /\ \A e \in Executions(t) :
                \E n \in ToSet(ExecNames) : e = <<t, n>> /\ n \notin TrialFiles
           /\ \A m : Ending(t, m) \subseteq Executions(t)
           /\ execs[t] # <<>> => LastExecution(t) \subseteq Executions(t)
           /\ execs[t] # <<>> /\ Last(execs[t]) = "ok" => LastExecution(t) \subseteq Ending(t, "ok")
           /\ \A e \in Executions(t) : e \in Entries
  <1>1. execs[t] \in Seq({"ok", "failed", "none"}) /\ Len(execs[t]) <= Len(ExecNames)
    BY SealingAssumption
  <1>2. Len(execs[t]) \in Nat /\ DOMAIN execs[t] = 1..Len(execs[t])
    BY <1>1
  <1>3. Len(ExecNames) \in Nat /\ DOMAIN ExecNames = 1..Len(ExecNames)
    BY SealingAssumption
  <1>4. \A i \in DOMAIN execs[t] :
          /\ i \in DOMAIN ExecNames
          /\ ExecNames[i] \in ToSet(ExecNames)
          /\ ExecNames[i] \notin TrialFiles
    <2>1. \A i \in DOMAIN execs[t] : i \in DOMAIN ExecNames
      BY <1>1, <1>2, <1>3
    <2>2. \A i \in DOMAIN ExecNames : ExecNames[i] \in ToSet(ExecNames)
      BY DEF ToSet
    <2>3. QED
      BY <2>1, <2>2, SealingAssumption
  <1>5. execs[t] # <<>> => Len(execs[t]) \in DOMAIN execs[t]
    BY <1>1, <1>2
  <1>6. \A e \in Executions(t) : \E n \in ToSet(ExecNames) : e = <<t, n>> /\ n \notin TrialFiles
    BY <1>4 DEF Executions
  <1>7. \A m : Ending(t, m) \subseteq Executions(t)
    BY DEF Ending, Executions
  <1>8. execs[t] # <<>> => LastExecution(t) \subseteq Executions(t)
    BY <1>5 DEF Executions, LastExecution
  <1>9. execs[t] # <<>> /\ Last(execs[t]) = "ok" => LastExecution(t) \subseteq Ending(t, "ok")
    BY <1>5 DEF Ending, LastExecution, Last
  <1>10. \A e \in Executions(t) : e \in Entries
    BY <1>6 DEF Entries
  <1>11. QED
    BY <1>6, <1>7, <1>8, <1>9, <1>10

(* The same, from the types of the state.                                   *)
LEMMA ExecutionNames ==
    ASSUME SealingTypes, NEW t \in AllTrials
    PROVE  /\ \A e \in Executions(t) :
                \E n \in ToSet(ExecNames) : e = <<t, n>> /\ n \notin TrialFiles
           /\ \A m : Ending(t, m) \subseteq Executions(t)
           /\ execs[t] # <<>> => LastExecution(t) \subseteq Executions(t)
           /\ execs[t] # <<>> /\ Last(execs[t]) = "ok" => LastExecution(t) \subseteq Ending(t, "ok")
           /\ \A e \in Executions(t) : e \in Entries
  <1>1. execs \in [AllTrials -> Histories]
    BY DEF SealingTypes
  <1>2. QED
    BY <1>1, ExecutionNamesOf

(* What is not there refers to what no object refers to.                    *)
LEMMA ObjectsAreThere ==
    /\ \A c \in SUBSET Entries : c # NoObject
    /\ <<"nothing", "nothing">> \notin Entries
    /\ {} # NoObject
    /\ \A s \in Statuses : {<<"campaign", s>>} # NoObject
  <1>1. \A t \in AllTrials : t # "nothing"
    BY SealingAssumption
  <1>2. <<"nothing", "nothing">> \notin Entries
    BY <1>1 DEF Entries
  <1>3. QED
    BY <1>2 DEF NoObject

(* A finished trial's contents are contents.                                *)
LEMMA TrialContents ==
    ASSUME SealingTypes, NEW t \in AllTrials, NEW k \in TrialFiles, Worked(t) => execs[t] # <<>>
    PROVE  TrialContent(t, k) \subseteq Entries
  <1>1. Executions(t) \subseteq Entries
    BY ExecutionNames
  <1>2. Ending(t, "ok") \subseteq Entries
    BY <1>1, ExecutionNames
  <1>3. Worked(t) => LastExecution(t) \subseteq Entries
    BY <1>1, ExecutionNames
  <1>4. {<<t, "lock">>, <<t, "summary">>, <<t, "recovery">>} \subseteq Entries
    BY DEF Entries, TrialFiles
  <1>5. WorkerManifest(t) \subseteq Entries /\ RecoveredManifest(t) \subseteq Entries
    BY <1>1, <1>4 DEF WorkerManifest, RecoveredManifest
  <1>6. QED
    BY <1>2, <1>3, <1>5 DEF TrialContent, TrialFiles

(* So are the run's, once every trial can be judged.                        *)
LEMMA RunContents ==
    ASSUME SealingTypes, Judged, NEW k \in RunFiles
    PROVE  RunContent(k) \subseteq Entries
  <1>1. AllExecutions \subseteq Entries
    BY ExecutionNames DEF AllExecutions
  <1>2. RunSelected \subseteq Entries
    <2>1. ASSUME NEW t \in AllTrials
          PROVE  /\ t \in scored => TrialContent(t, "summary") \subseteq Entries
                 /\ LastExecution(t) \subseteq Entries
      <3>1. execs[t] # <<>>
        BY DEF Judged
      <3>2. QED
        BY <3>1, TrialContents, ExecutionNames DEF TrialFiles
    <2>2. QED
      BY <2>1 DEF RunSelected
  <1>3. RunCovers \subseteq Entries
    <2>1. \A t \in scored : \A j \in FilesOf(t) : <<t, j>> \in Entries
      BY DEF SealingTypes, FilesOf, Entries
    <2>2. \A j \in {"lock", "verification", "summary", "envelope"} : <<"run", j>> \in Entries
      BY DEF Entries, RunFiles
    <2>3. QED
      BY <1>1, <2>1, <2>2 DEF RunCovers
  <1>4. {<<"quality", IF scored = AllTrials THEN "clean" ELSE "degraded">>} \subseteq Entries
    BY DEF Entries
  <1>5. QED
    BY <1>1, <1>2, <1>3, <1>4 DEF RunContent, RunFiles

-----------------------------------------------------------------------------
(* Steps that keep the evidence and who made the manifests keep what every  *)
(* object has to be.                                                        *)

SameWorked == UNCHANGED evidence /\ \A t \in AllTrials : Worked(t)' <=> Worked(t)

(* The contents of a trial.                                                 *)
LEMMA TrialsStay ==
    ASSUME SameWorked, NEW t \in AllTrials
    PROVE  /\ \A k \in TrialFiles : TrialContent(t, k)' = TrialContent(t, k)
           /\ \A k \in TrialFiles : TrialWrite(t, k)' = TrialWrite(t, k)
           /\ FilesOf(t)' = FilesOf(t)
           /\ Recoverable(t)' <=> Recoverable(t)
           /\ Ending(t, "none")' = Ending(t, "none")
           /\ Executions(t)' = Executions(t)
           /\ LastExecution(t)' = LastExecution(t)
  <1>1. execs' = execs /\ (Worked(t)' <=> Worked(t))
    BY DEF SameWorked, evidence
  <1>2. Executions(t)' = Executions(t) /\ LastExecution(t)' = LastExecution(t)
    BY <1>1 DEF Executions, LastExecution
  <1>3. Ending(t, "ok")' = Ending(t, "ok") /\ Ending(t, "none")' = Ending(t, "none")
    BY <1>1 DEF Ending
  <1>4. WorkerManifest(t)' = WorkerManifest(t) /\ RecoveredManifest(t)' = RecoveredManifest(t)
    BY <1>2 DEF WorkerManifest, RecoveredManifest
  <1>5. \A k \in TrialFiles : TrialContent(t, k)' = TrialContent(t, k)
    BY <1>1, <1>2, <1>3, <1>4 DEF TrialContent, TrialFiles
  <1>6. \A k \in TrialFiles : TrialWrite(t, k)' = TrialWrite(t, k)
    BY <1>5 DEF TrialWrite
  <1>7. FilesOf(t)' = FilesOf(t)
    BY <1>1 DEF FilesOf
  <1>8. Recoverable(t)' <=> Recoverable(t)
    BY <1>3 DEF Recoverable
  <1>9. QED
    BY <1>2, <1>3, <1>5, <1>6, <1>7, <1>8

(* The contents of the run.                                                 *)
LEMMA RunStays ==
    ASSUME SameWorked, scored \subseteq AllTrials
    PROVE  /\ Judged' <=> Judged
           /\ \A k \in RunFiles : RunWrite(k)' = RunWrite(k)
  <1>1. execs' = execs /\ scored' = scored /\ runDone' = runDone
    BY DEF SameWorked, evidence
  <1>2. Judged' <=> Judged
    BY <1>1, TrialsStay DEF Judged, SameWorked
  <1>3. AllExecutions' = AllExecutions
    BY TrialsStay DEF AllExecutions
  <1>4. RunSelected' = RunSelected
    <2>1. \A t \in AllTrials :
            (IF t \in scored THEN TrialContent(t, "summary") ELSE LastExecution(t))'
             = IF t \in scored THEN TrialContent(t, "summary") ELSE LastExecution(t)
      BY <1>1, TrialsStay DEF TrialFiles
    <2>2. QED
      BY <1>1, <2>1 DEF RunSelected
  <1>5. RunCovers' = RunCovers
    <2>1. \A t \in scored : FilesOf(t)' = FilesOf(t)
      BY TrialsStay
    <2>2. QED
      BY <1>1, <1>3, <2>1 DEF RunCovers
  <1>6. \A k \in RunFiles : RunContent(k)' = RunContent(k)
    BY <1>1, <1>3, <1>4, <1>5 DEF RunContent, RunFiles
  <1>7. QED
    BY <1>2, <1>6 DEF RunWrite

(* What an object needs.                                                    *)
LEMMA NeedsStay ==
    ASSUME SameWorked, scored \subseteq AllTrials, NEW p \in Path
    PROVE  Needs(p)' = Needs(p)
  <1>1. scored' = scored
    BY DEF SameWorked, evidence
  <1>2. CASE \E t \in AllTrials, k \in TrialFiles : p = <<t, k>>
    <2>1. PICK t \in AllTrials, k \in TrialFiles : p = <<t, k>>
      BY <1>2
    <2>2. t # "run" /\ t # "campaign"
      BY TrialNames
    <2>3. Worked(t)' <=> Worked(t)
      BY DEF SameWorked
    <2>4. \A j \in TrialFiles : TrialWrite(t, j)' = TrialWrite(t, j)
      BY TrialsStay
    <2>5. QED
      BY <2>1, <2>2, <2>3, <2>4 DEF Needs, TrialFiles
  <1>3. CASE \E k \in RunFiles : p = <<"run", k>>
    <2>1. PICK k \in RunFiles : p = <<"run", k>>
      BY <1>3
    <2>2. "run" \notin AllTrials
      BY TrialNames
    <2>3. \A t \in scored : TrialWrite(t, "marker")' = TrialWrite(t, "marker")
      BY TrialsStay DEF TrialFiles
    <2>4. \A j \in RunFiles : RunWrite(j)' = RunWrite(j)
      BY RunStays
    <2>5. QED
      BY <1>1, <2>1, <2>2, <2>3, <2>4 DEF Needs, RunFiles
  <1>4. CASE p = <<"campaign", "summary">> \/ \E s \in Statuses : p = <<"campaign", s>>
    <2>1. "campaign" \notin AllTrials
      BY TrialNames
    <2>2. QED
      BY <1>4, <2>1 DEF Needs, Statuses
  <1>5. QED
    BY <1>2, <1>3, <1>4, PathKinds

(* The writes a pass may make.                                              *)
LEMMA WritesStay ==
    ASSUME SameWorked, scored \subseteq AllTrials, NEW w
    PROVE  WriteOK(w)' <=> WriteOK(w)
  <1>1. scored' = scored /\ runDone' = runDone
    BY DEF SameWorked, evidence
  <1>2. TrialWriteOK(w)' <=> TrialWriteOK(w)
    <2>1. \A t \in scored : /\ Worked(t)' <=> Worked(t)
                            /\ Recoverable(t)' <=> Recoverable(t)
                            /\ \A k \in TrialFiles : TrialWrite(t, k)' = TrialWrite(t, k)
      BY TrialsStay DEF SameWorked
    <2>2. QED
      BY <1>1, <2>1 DEF TrialWriteOK
  <1>3. RunWriteOK(w)' <=> RunWriteOK(w)
    <2>1. \A k \in RunFiles : RunWrite(k)' = RunWrite(k)
      BY RunStays
    <2>2. QED
      BY <1>1, <2>1, RunStays DEF RunWriteOK
  <1>4. QED
    BY <1>2, <1>3 DEF WriteOK, CampaignWriteOK

(* No content is the content of what is not there.                          *)
LEMMA ContentsAreThere ==
    /\ \A t \in AllTrials, k \in TrialFiles : TrialContent(t, k) # NoObject
    /\ scored \subseteq AllTrials => \A k \in RunFiles : RunContent(k) # NoObject
  <1> DEFINE n == <<"nothing", "nothing">>
  <1>1. ASSUME NEW t \in AllTrials
        PROVE  /\ n \notin Executions(t) /\ n \notin LastExecution(t) /\ n \notin Ending(t, "ok")
               /\ \A k : <<t, k>> # n
    <2>1. t # "nothing"
      BY TrialNames
    <2>2. QED
      BY <2>1 DEF Executions, LastExecution, Ending
  <1>2. \A t \in AllTrials : n \notin WorkerManifest(t) /\ n \notin RecoveredManifest(t)
    BY <1>1 DEF WorkerManifest, RecoveredManifest
  <1>3. \A t \in AllTrials, k \in TrialFiles : n \notin TrialContent(t, k)
    BY <1>1, <1>2 DEF TrialContent, TrialFiles
  <1>4. n \notin AllExecutions
    BY <1>1 DEF AllExecutions
  <1>5. n \notin RunSelected
    BY <1>1, <1>3 DEF RunSelected, TrialFiles
  <1>6. scored \subseteq AllTrials => n \notin RunCovers
    <2>1. scored \subseteq AllTrials =>
            \A t \in scored : n \notin {<<t, k>> : k \in FilesOf(t)}
      BY <1>1
    <2>2. QED
      BY <1>4, <2>1 DEF RunCovers
  <1>7. scored \subseteq AllTrials => \A k \in RunFiles : n \notin RunContent(k)
    BY <1>4, <1>5, <1>6 DEF RunContent, RunFiles
  <1>8. n \in NoObject
    BY DEF NoObject
  <1>9. QED
    BY <1>3, <1>7, <1>8

(* What an object needs is a write of a content to a path.                  *)
LEMMA NeedsAreWrites ==
    ASSUME SealingTypes, NEW p \in Path, NEW r \in Needs(p)
    PROVE  r = <<r[1], r[2]>> /\ r[1] \in Path /\ r[2] # NoObject
  <1>1. scored \subseteq AllTrials
    BY DEF SealingTypes
  <1>2. \A t \in AllTrials, k \in TrialFiles :
          LET w == TrialWrite(t, k) IN w = <<w[1], w[2]>> /\ w[1] \in Path /\ w[2] # NoObject
    BY ContentsAreThere, TrialNames DEF TrialWrite
  <1>3. \A k \in RunFiles :
          LET w == RunWrite(k) IN w = <<w[1], w[2]>> /\ w[1] \in Path /\ w[2] # NoObject
    BY <1>1, ContentsAreThere, TrialNames DEF RunWrite
  <1>4. CASE \E t \in AllTrials, k \in TrialFiles : p = <<t, k>>
    <2>1. PICK t \in AllTrials, k \in TrialFiles : p = <<t, k>>
      BY <1>4
    <2>2. t # "run" /\ t # "campaign"
      BY TrialNames
    <2>3. \E j \in TrialFiles : r = TrialWrite(t, j)
      BY <2>1, <2>2 DEF Needs, TrialFiles
    <2>4. QED
      BY <1>2, <2>3
  <1>5. CASE \E k \in RunFiles : p = <<"run", k>>
    <2>1. PICK k \in RunFiles : p = <<"run", k>>
      BY <1>5
    <2>2. "run" \notin AllTrials
      BY TrialNames
    <2>3. (\E t \in scored : r = TrialWrite(t, "marker")) \/ \E j \in RunFiles : r = RunWrite(j)
      BY <2>1, <2>2 DEF Needs, RunFiles
    <2>4. QED
      BY <1>1, <1>2, <1>3, <2>3 DEF TrialFiles
  <1>6. CASE p = <<"campaign", "summary">> \/ \E s \in Statuses : p = <<"campaign", s>>
    <2>1. "campaign" \notin AllTrials
      BY TrialNames
    <2>2. \E s \in Statuses : r = << <<"campaign", "summary">>, {<<"campaign", s>>} >>
      BY <1>6, <2>1 DEF Needs, Statuses
    <2>3. QED
      BY <2>2, TrialNames, ObjectsAreThere
  <1>7. QED
    BY <1>4, <1>5, <1>6, PathKinds

(* The writes of a pass are contents at paths.                              *)
LEMMA WritesAreWrites ==
    ASSUME SealingTypes, TrialsOK, NEW w, WriteOK(w)
    PROVE  w \in Path \X SUBSET Entries /\ w = <<w[1], w[2]>> /\ w[2] # NoObject
  <1>1. scored \subseteq AllTrials
    BY DEF SealingTypes
  <1>2. CASE TrialWriteOK(w)
    <2>1. PICK t \in scored, k \in TrialFiles : w = TrialWrite(t, k)
      BY <1>2 DEF TrialWriteOK
    <2>2. Worked(t) => execs[t] # <<>>
      <3>1. Worked(t) => bucket[<<t, "checksums">>] # NoObject
        BY <1>1, ContentsAreThere DEF Worked, TrialContent, TrialFiles
      <3>2. QED
        BY <1>1, <3>1 DEF TrialsOK, TrialFiles
    <2>3. TrialContent(t, k) \subseteq Entries
      BY <1>1, <2>2, TrialContents
    <2>4. QED
      BY <1>1, <2>1, <2>3, TrialNames, ObjectsAreThere DEF TrialWrite
  <1>3. CASE RunWriteOK(w)
    <2>1. PICK k \in RunFiles : Judged /\ w = RunWrite(k)
      BY <1>3 DEF RunWriteOK
    <2>2. RunContent(k) \subseteq Entries
      BY <2>1, RunContents
    <2>3. QED
      BY <2>1, <2>2, TrialNames, ObjectsAreThere DEF RunWrite
  <1>4. CASE CampaignWriteOK(w)
    <2>1. \A s \in Statuses : <<"campaign", s>> \in Entries
      BY DEF Entries
    <2>2. QED
      BY <1>4, <2>1, TrialNames, ObjectsAreThere DEF CampaignWriteOK
  <1>5. QED
    BY <1>2, <1>3, <1>4 DEF WriteOK

-----------------------------------------------------------------------------
(* Writing an object *)

(* The step of a Put: an object that a pass may write appears, after what   *)
(* it needs.                                                                *)
Grows(w) ==
    /\ UNCHANGED evidence
    /\ WriteOK(w) /\ bucket[w[1]] = NoObject /\ \A r \in Needs(w[1]) : Done(r)
    /\ bucket' = [bucket EXCEPT ![w[1]] = w[2]]
SameBucket == UNCHANGED evidence /\ bucket' = bucket

(* A finaliser's manifest is never taken for a worker's.                    *)
LEMMA ManifestsDiffer ==
    ASSUME SealingTypes, NEW t \in AllTrials
    PROVE  RecoveredManifest(t) # WorkerManifest(t)
  <1>1. <<t, "recovery">> \notin Executions(t)
    BY ExecutionNames DEF TrialFiles
  <1>2. QED
    BY <1>1 DEF RecoveredManifest, WorkerManifest

(* Which trials a worker finished does not change.                          *)
LEMMA WorkedStays ==
    ASSUME SealingTypes, TrialsOK, NEW w, Grows(w) \/ SameBucket
    PROVE  SameWorked
  <1>1. execs' = execs /\ UNCHANGED evidence
    BY DEF Grows, SameBucket, evidence
  <1>2. \A t \in AllTrials : WorkerManifest(t)' = WorkerManifest(t)
    BY <1>1 DEF WorkerManifest, Executions
  <1>3. CASE SameBucket
    BY <1>1, <1>2, <1>3 DEF SameBucket, SameWorked, Worked
  <1>4. CASE Grows(w)
    <2>1. w \in Path \X SUBSET Entries /\ w = <<w[1], w[2]>> /\ w[1] \in Path
      BY <1>4, WritesAreWrites DEF Grows
    <2>2. ASSUME NEW t \in AllTrials PROVE Worked(t)' <=> Worked(t)
      <3>1. <<t, "checksums">> \in Path
        BY TrialNames DEF TrialFiles
      <3>2. CASE w[1] # <<t, "checksums">>
        <4>1. bucket'[<<t, "checksums">>] = bucket[<<t, "checksums">>]
          BY <1>4, <2>1, <3>1, <3>2 DEF Grows, SealingTypes
        <4>2. QED
          BY <1>2, <4>1 DEF Worked
      <3>3. CASE w[1] = <<t, "checksums">>
        <4>1. TrialWriteOK(w)
          <5>1. t # "run" /\ t # "campaign"
            BY TrialNames
          <5>2. QED
            BY <1>4, <3>3, <5>1 DEF Grows, WriteOK, RunWriteOK, RunWrite, CampaignWriteOK
        <4>2. w = TrialWrite(t, "checksums") /\ ~ Worked(t)
          BY <3>3, <4>1 DEF TrialWriteOK, TrialWrite
        <4>3. w[2] = RecoveredManifest(t)
          BY <4>2 DEF TrialWrite, TrialContent
        <4>4. bucket'[<<t, "checksums">>] = RecoveredManifest(t)
          BY <1>4, <3>1, <3>3, <4>3 DEF Grows, SealingTypes
        <4>5. QED
          BY <1>2, <4>2, <4>4, ManifestsDiffer DEF Worked
      <3>4. QED
        BY <3>2, <3>3
    <2>3. QED
      BY <1>1, <2>2 DEF SameWorked
  <1>5. QED
    BY <1>3, <1>4

(* What has been written stays.                                             *)
LEMMA DoneStays ==
    ASSUME SealingTypes, TrialsOK, NEW w, Grows(w) \/ SameBucket,
           NEW p \in Path
    PROVE  /\ bucket[p] # NoObject => bucket'[p] = bucket[p]
           /\ \A r \in Needs(p) : Done(r) => bucket'[r[1]] = r[2]
  <1>1. \A q \in Path : bucket[q] # NoObject => bucket'[q] = bucket[q]
    <2>1. CASE SameBucket
      BY <2>1 DEF SameBucket
    <2>2. CASE Grows(w)
      <3>1. w[1] \in Path /\ bucket[w[1]] = NoObject
        BY <2>2, WritesAreWrites DEF Grows
      <3>2. QED
        BY <2>2, <3>1 DEF Grows, SealingTypes
    <2>3. QED
      BY <2>1, <2>2
  <1>2. \A r \in Needs(p) : r[1] \in Path /\ r[2] # NoObject
    BY NeedsAreWrites
  <1>3. QED
    BY <1>1, <1>2 DEF Done

(* A plan stays a plan.                                                     *)
LEMMA PlansStay ==
    ASSUME SealingTypes, TrialsOK, NEW w, Grows(w) \/ SameBucket,
           NEW todo \in Seq(Steps), PlanOK(todo)
    PROVE  PlanOK(todo)'
  <1>1. SameWorked /\ scored \subseteq AllTrials
    BY WorkedStays DEF SealingTypes
  <1> SUFFICES ASSUME NEW i \in DOMAIN todo, todo[i] # Failure
               PROVE  /\ WriteOK(todo[i])'
                      /\ \A r \in Needs(todo[i][1])' :
                           Done(r)' \/ \E j \in 1..(i - 1) : todo[j] = r
    BY DEF PlanOK
  <1>2. /\ WriteOK(todo[i])
        /\ \A r \in Needs(todo[i][1]) : Done(r) \/ \E j \in 1..(i - 1) : todo[j] = r
    BY DEF PlanOK
  <1>3. todo[i][1] \in Path
    BY <1>2, WritesAreWrites
  <1>4. WriteOK(todo[i])'
    BY <1>1, <1>2, WritesStay
  <1>5. Needs(todo[i][1])' = Needs(todo[i][1])
    BY <1>1, <1>3, NeedsStay
  <1>6. \A r \in Needs(todo[i][1]) : Done(r) => bucket'[r[1]] = r[2]
    BY <1>3, DoneStays
  <1>7. QED
    BY <1>2, <1>4, <1>5, <1>6 DEF Done

(* A write is of a file of a trial, of the run or of the campaign.          *)
LEMMA WriteKinds ==
    ASSUME SealingTypes, NEW w, WriteOK(w)
    PROVE  /\ \A t \in AllTrials, k \in TrialFiles : w[1] = <<t, k>> =>
                /\ TrialWriteOK(w) /\ t \in scored /\ w = TrialWrite(t, k)
                /\ Worked(t) => k = "marker"
                /\ ~ Worked(t) => Recoverable(t)
           /\ \A k \in RunFiles : w[1] = <<"run", k>> =>
                k # "lock" /\ Judged /\ w = RunWrite(k)
           /\ \A s \in Statuses : w[1] = <<"campaign", s>> => w[2] = {}
           /\ w[1] = <<"campaign", "summary">> => \E s \in Statuses : w[2] = {<<"campaign", s>>}
  <1>1. /\ \A t \in AllTrials : t # "run" /\ t # "campaign"
        /\ scored \subseteq AllTrials
    BY TrialNames DEF SealingTypes
  <1>2. CASE TrialWriteOK(w)
    <2>1. PICK t \in scored, k \in TrialFiles :
            /\ w = TrialWrite(t, k)
            /\ Worked(t) => k = "marker"
            /\ ~ Worked(t) => Recoverable(t)
      BY <1>2 DEF TrialWriteOK
    <2>2. w[1] = <<t, k>> /\ t # "run" /\ t # "campaign"
      BY <1>1, <2>1 DEF TrialWrite
    <2>3. QED
      BY <1>2, <2>1, <2>2
  <1>3. CASE RunWriteOK(w)
    <2>1. PICK k \in RunFiles \ {"lock"} : Judged /\ w = RunWrite(k)
      BY <1>3 DEF RunWriteOK
    <2>2. w[1] = <<"run", k>>
      BY <2>1 DEF RunWrite
    <2>3. QED
      BY <1>1, <2>1, <2>2
  <1>4. CASE CampaignWriteOK(w)
    BY <1>1, <1>4 DEF CampaignWriteOK, Statuses
  <1>5. QED
    BY <1>2, <1>3, <1>4 DEF WriteOK

(* What is in the Bucket stays as it has to be.                             *)
LEMMA BucketKept ==
    ASSUME SealingTypes, TrialsOK, RunOK, CampaignOK, OrderOK, NEW w, Grows(w) \/ SameBucket
    PROVE  /\ bucket' \in [Path -> (SUBSET Entries) \cup {NoObject}]
           /\ bucket'[<<"run", "lock">>] = {}
           /\ TrialsOK' /\ RunOK' /\ CampaignOK' /\ OrderOK'
  <1>0. SameWorked /\ scored \subseteq AllTrials /\ scored' = scored /\ execs' = execs
    BY WorkedStays DEF SealingTypes, SameWorked, evidence
  <1>1. \A p \in Path :
          \/ bucket'[p] = bucket[p]
          \/ Grows(w) /\ p = w[1] /\ bucket'[p] = w[2]
    BY DEF Grows, SameBucket, SealingTypes
  <1>2. Grows(w) => w \in Path \X SUBSET Entries /\ WriteOK(w) /\ bucket[w[1]] = NoObject
    BY WritesAreWrites DEF Grows
  <1>3. bucket' \in [Path -> (SUBSET Entries) \cup {NoObject}]
    BY <1>2 DEF Grows, SameBucket, SealingTypes
  <1>4. bucket'[<<"run", "lock">>] = {}
    <2>1. <<"run", "lock">> \in Path /\ bucket[<<"run", "lock">>] # NoObject
      BY TrialNames, ObjectsAreThere DEF SealingTypes, RunFiles
    <2>2. QED
      BY <2>1, DoneStays DEF SealingTypes
  <1>5. TrialsOK'
    <2> SUFFICES ASSUME NEW t \in AllTrials, NEW k \in TrialFiles, bucket'[<<t, k>>] # NoObject
                 PROVE  /\ t \in scored /\ k \in FilesOf(t)
                        /\ bucket'[<<t, k>>] = TrialContent(t, k)
                        /\ Worked(t) => execs[t] # <<>> /\ Last(execs[t]) = "ok"
                        /\ ~ Worked(t) => Recoverable(t)
      <3>1. \A t1 \in AllTrials, k1 \in TrialFiles :
              /\ FilesOf(t1)' = FilesOf(t1)
              /\ TrialWrite(t1, k1)' = TrialWrite(t1, k1)
              /\ Recoverable(t1)' <=> Recoverable(t1)
              /\ Worked(t1)' <=> Worked(t1)
        BY <1>0, TrialsStay DEF SameWorked
      <3>2. QED
        BY <1>0, <3>1 DEF TrialsOK, Done, TrialWrite
    <2>1. <<t, k>> \in Path
      BY TrialNames
    <2>2. CASE bucket'[<<t, k>>] = bucket[<<t, k>>]
      BY <2>2 DEF TrialsOK, Done, TrialWrite
    <2>3. CASE Grows(w) /\ <<t, k>> = w[1] /\ bucket'[<<t, k>>] = w[2]
      <3>1. /\ t \in scored /\ w = TrialWrite(t, k)
            /\ Worked(t) => k = "marker"
            /\ ~ Worked(t) => Recoverable(t)
        BY <1>2, <2>3, WriteKinds
      <3>2. Worked(t) => execs[t] # <<>> /\ Last(execs[t]) = "ok"
        <4>1. Worked(t) => bucket[<<t, "checksums">>] # NoObject
          BY ContentsAreThere DEF Worked, TrialContent, TrialFiles
        <4>2. QED
          BY <4>1 DEF TrialsOK, TrialFiles
      <3>3. QED
        BY <2>3, <3>1, <3>2 DEF TrialWrite, FilesOf
    <2>4. QED
      BY <1>1, <2>1, <2>2, <2>3
  <1>6. RunOK'
    <2>1. ASSUME NEW k \in RunFiles, bucket'[<<"run", k>>] # NoObject
          PROVE  (k # "lock" => Judged) /\ bucket'[<<"run", k>>] = RunContent(k)
      <3>1. <<"run", k>> \in Path
        BY TrialNames
      <3>2. CASE bucket'[<<"run", k>>] = bucket[<<"run", k>>]
        BY <2>1, <3>2 DEF RunOK, Done, RunWrite
      <3>3. CASE Grows(w) /\ <<"run", k>> = w[1] /\ bucket'[<<"run", k>>] = w[2]
        BY <1>2, <3>3, WriteKinds DEF RunWrite
      <3>4. QED
        BY <1>1, <3>1, <3>2, <3>3
    <2>2. \A k \in RunFiles : RunWrite(k)' = RunWrite(k)
      BY <1>0, RunStays
    <2>3. Judged' <=> Judged
      BY <1>0, RunStays
    <2>4. QED
      BY <2>1, <2>2, <2>3 DEF RunOK, Done, RunWrite
  <1>7. CampaignOK'
    <2>1. \A s \in Statuses : bucket'[<<"campaign", s>>] \in {NoObject, {}}
      <3> SUFFICES ASSUME NEW s \in Statuses PROVE bucket'[<<"campaign", s>>] \in {NoObject, {}}
        OBVIOUS
      <3>1. <<"campaign", s>> \in Path
        BY TrialNames
      <3>2. QED
        BY <1>1, <1>2, <3>1, WriteKinds DEF CampaignOK
    <2>2. \/ bucket'[<<"campaign", "summary">>] = NoObject
          \/ \E s \in Statuses : bucket'[<<"campaign", "summary">>] = {<<"campaign", s>>}
      <3>1. <<"campaign", "summary">> \in Path
        BY TrialNames
      <3>2. QED
        BY <1>1, <1>2, <3>1, WriteKinds DEF CampaignOK
    <2>3. QED
      BY <2>1, <2>2 DEF CampaignOK
  <1>8. OrderOK'
    <2>1. ASSUME NEW p \in Path, bucket'[p] # NoObject, NEW r \in Needs(p)
          PROVE  bucket'[r[1]] = r[2]
      <3>1. CASE bucket[p] # NoObject
        BY <3>1, DoneStays DEF OrderOK
      <3>2. CASE bucket[p] = NoObject
        <4>1. Grows(w) /\ p = w[1]
          BY <1>1, <2>1, <3>2
        <4>2. Done(r)
          BY <4>1 DEF Grows
        <4>3. QED
          BY <4>2, DoneStays
      <3>3. QED
        BY <3>1, <3>2
    <2>2. \A p \in Path : Needs(p)' = Needs(p)
      BY <1>0, NeedsStay
    <2>3. QED
      BY <2>1, <2>2 DEF OrderOK, Done
  <1>9. QED
    BY <1>3, <1>4, <1>5, <1>6, <1>7, <1>8

-----------------------------------------------------------------------------
(* The plan of a pass *)

(* The listing after some writes.                                           *)
LEMMA AfterWrites ==
    ASSUME NEW v, NEW writes, NEW p \in DOMAIN v, NEW c,
           \A i \in DOMAIN writes : writes[i][1] = p => writes[i][2] = c
    PROVE  After(v, writes)[p] = IF \E i \in DOMAIN writes : writes[i][1] = p THEN c ELSE v[p]
  <1> DEFINE hits == {i \in DOMAIN writes : writes[i][1] = p}
  <1>1. After(v, writes)[p] = IF hits = {} THEN v[p] ELSE writes[CHOOSE i \in hits : TRUE][2]
    BY DEF After
  <1>2. hits # {} => (CHOOSE i \in hits : TRUE) \in hits
    OBVIOUS
  <1>3. QED
    BY <1>1, <1>2

(* A trial's manifest lists its executions and the files that are there.    *)
LEMMA ManifestLists ==
    ASSUME SealingTypes, NEW t \in AllTrials, NEW u,
           NEW F \in SUBSET {"recovery", "lock", "summary"},
           \A k \in {"recovery", "lock", "summary"} : u[<<t, k>>] # NoObject <=> k \in F
    PROVE  TrialManifest(u, t) = Executions(t) \cup {<<t, k>> : k \in F}
  <1>1. \A p \in Path : p[1] = t => \E k \in TrialFiles : p = <<t, k>>
    BY TrialNames, PathKinds
  <1>2. \A k \in TrialFiles : <<t, k>> \in Path
    BY TrialNames
  <1>3. \A s \in AllTrials : \A e \in Executions(s) :
          e[1] = s /\ e # <<s, "checksums">> /\ e # <<s, "marker">>
    BY ExecutionNames DEF TrialFiles
  <1>4. ASSUME NEW e \in TrialManifest(u, t) PROVE e \in Executions(t) \cup {<<t, k>> : k \in F}
    <2>1. e \in Listed(u) /\ e[1] = t /\ e # <<t, "checksums">> /\ e # <<t, "marker">>
      BY DEF TrialManifest
    <2>2. CASE e \in Path /\ u[e] # NoObject
      <3>1. PICK k \in TrialFiles : e = <<t, k>>
        BY <1>1, <2>1, <2>2
      <3>2. k \in {"recovery", "lock", "summary"}
        BY <2>1, <3>1 DEF TrialFiles
      <3>3. QED
        BY <2>2, <3>1, <3>2
    <2>3. CASE \E s \in AllTrials : e \in Executions(s)
      BY <1>3, <2>1, <2>3
    <2>4. QED
      BY <2>1, <2>2, <2>3 DEF Listed
  <1>5. ASSUME NEW e \in Executions(t) PROVE e \in TrialManifest(u, t)
    BY <1>3, <1>5 DEF TrialManifest, Listed
  <1>6. ASSUME NEW k \in F PROVE <<t, k>> \in TrialManifest(u, t)
    <2>1. <<t, k>> \in Path /\ u[<<t, k>>] # NoObject /\ k # "checksums" /\ k # "marker"
      BY <1>2 DEF TrialFiles
    <2>2. QED
      BY <2>1 DEF TrialManifest, Listed
  <1>7. QED
    BY <1>4, <1>5, <1>6

(* A manifest taken when the note, the lock and the summary are there.      *)
LEMMA ManifestIsComplete ==
    ASSUME SealingTypes, NEW t \in AllTrials, NEW u,
           \A k \in {"recovery", "lock", "summary"} : u[<<t, k>>] # NoObject
    PROVE  TrialManifest(u, t) = RecoveredManifest(t)
  <1>1. TrialManifest(u, t) = Executions(t) \cup {<<t, k>> : k \in {"recovery", "lock", "summary"}}
    BY ManifestLists
  <1>2. QED
    BY <1>1 DEF RecoveredManifest, WorkerManifest

(* The writes that finish a trial: each comes after what it needs, and they *)
(* bring every file of the trial that is not there.                         *)
Finishes(ws, t) ==
    /\ execs[t] # <<>> /\ Ending(t, "none") = {}
    /\ t \in scored /\ ~ Worked(t) => Recoverable(t)
    /\ \A i \in DOMAIN ws : \E k \in FilesOf(t) :
         /\ ws[i] = TrialWrite(t, k) /\ t \in scored
         /\ Worked(t) => k = "marker"
         /\ \A r \in Needs(<<t, k>>) : Done(r) \/ \E j \in 1..(i - 1) : ws[j] = r
    /\ t \in scored => \A k \in FilesOf(t) :
         Done(TrialWrite(t, k)) \/ \E i \in DOMAIN ws : ws[i] = TrialWrite(t, k)

(* The envelope of a trial whose manifest is not there.                     *)
LEMMA EnvelopeFinishes ==
    ASSUME SealingTypes, TrialsOK, NEW t \in scored, Recoverable(t), execs[t] # <<>>,
           bucket[<<t, "checksums">>] = NoObject,
           NEW summarised \in BOOLEAN, summarised <=> bucket[<<t, "summary">>] # NoObject
    PROVE  LET ws == TrialEnvelope(bucket, t, Ending(t, "ok"), summarised)
           IN  ws \in Seq({TrialWrite(t, k) : k \in TrialFiles}) /\ Finishes(ws, t)
  <1>1. t \in AllTrials /\ ~ Worked(t)
    BY ContentsAreThere DEF SealingTypes, Worked, TrialContent, TrialFiles
  <1>2. /\ TrialWrite(t, "recovery") = << <<t, "recovery">>, Ending(t, "ok") >>
        /\ TrialWrite(t, "lock") = << <<t, "lock">>, {} >>
        /\ TrialWrite(t, "summary") = << <<t, "summary">>, Ending(t, "ok") >>
        /\ TrialWrite(t, "checksums") = << <<t, "checksums">>, RecoveredManifest(t) >>
        /\ TrialWrite(t, "marker") = << <<t, "marker">>, {} >>
    BY <1>1 DEF TrialWrite, TrialContent
  <1>3. \A k \in TrialFiles : <<t, k>> \in DOMAIN bucket
    BY <1>1, TrialNames DEF SealingTypes
  <1>4. \A k \in TrialFiles : bucket[<<t, k>>] # NoObject => Done(TrialWrite(t, k))
    BY <1>1 DEF TrialsOK
  <1>5. FilesOf(t) = TrialFiles
    BY <1>1 DEF FilesOf
  <1>6. t \notin {"run", "campaign"}
    BY <1>1, TrialNames
  <1>7. /\ Needs(<<t, "recovery">>) = {} /\ Needs(<<t, "lock">>) = {}
        /\ Needs(<<t, "summary">>) = {}
        /\ Needs(<<t, "checksums">>) =
             {TrialWrite(t, "recovery"), TrialWrite(t, "lock"), TrialWrite(t, "summary")}
        /\ Needs(<<t, "marker">>) =
             {TrialWrite(t, "lock"), TrialWrite(t, "summary"), TrialWrite(t, "checksums")}
    BY <1>1, <1>6 DEF Needs
  <1> DEFINE L == IF bucket[<<t, "lock">>] = NoObject THEN << TrialWrite(t, "lock") >> ELSE <<>>
             U == IF summarised THEN <<>> ELSE << TrialWrite(t, "summary") >>
             missing == << TrialWrite(t, "recovery") >> \o L \o U
             ws == missing \o << TrialWrite(t, "checksums"), TrialWrite(t, "marker") >>
  <1>m. /\ bucket[<<t, "lock">>] = NoObject /\ summarised =>
             /\ Len(missing) = 2 /\ DOMAIN missing = 1..2
             /\ missing[1] = TrialWrite(t, "recovery")
             /\ missing[2] = TrialWrite(t, "lock")
        /\ bucket[<<t, "lock">>] = NoObject /\ ~ summarised =>
             /\ Len(missing) = 3 /\ DOMAIN missing = 1..3
             /\ missing[1] = TrialWrite(t, "recovery")
             /\ missing[2] = TrialWrite(t, "lock")
             /\ missing[3] = TrialWrite(t, "summary")
        /\ bucket[<<t, "lock">>] # NoObject /\ summarised =>
             /\ Len(missing) = 1 /\ DOMAIN missing = 1..1
             /\ missing[1] = TrialWrite(t, "recovery")
        /\ bucket[<<t, "lock">>] # NoObject /\ ~ summarised =>
             /\ Len(missing) = 2 /\ DOMAIN missing = 1..2
             /\ missing[1] = TrialWrite(t, "recovery")
             /\ missing[2] = TrialWrite(t, "summary")
    OBVIOUS
  <1>s. missing \in Seq({TrialWrite(t, k) : k \in TrialFiles})
    BY DEF TrialFiles
  <1>v. /\ DOMAIN ws = 1..(Len(missing) + 2)
        /\ \A i \in 1..Len(missing) : ws[i] = missing[i]
        /\ ws[Len(missing) + 1] = TrialWrite(t, "checksums")
        /\ ws[Len(missing) + 2] = TrialWrite(t, "marker")
    <2> HIDE DEF missing
    <2> QED
      BY <1>s
  <1>w. /\ bucket[<<t, "lock">>] = NoObject /\ summarised =>
             /\ DOMAIN ws = 1..4
             /\ ws[1] = TrialWrite(t, "recovery")
             /\ ws[2] = TrialWrite(t, "lock")
             /\ ws[3] = TrialWrite(t, "checksums")
             /\ ws[4] = TrialWrite(t, "marker")
        /\ bucket[<<t, "lock">>] = NoObject /\ ~ summarised =>
             /\ DOMAIN ws = 1..5
             /\ ws[1] = TrialWrite(t, "recovery")
             /\ ws[2] = TrialWrite(t, "lock")
             /\ ws[3] = TrialWrite(t, "summary")
             /\ ws[4] = TrialWrite(t, "checksums")
             /\ ws[5] = TrialWrite(t, "marker")
        /\ bucket[<<t, "lock">>] # NoObject /\ summarised =>
             /\ DOMAIN ws = 1..3
             /\ ws[1] = TrialWrite(t, "recovery")
             /\ ws[2] = TrialWrite(t, "checksums")
             /\ ws[3] = TrialWrite(t, "marker")
        /\ bucket[<<t, "lock">>] # NoObject /\ ~ summarised =>
             /\ DOMAIN ws = 1..4
             /\ ws[1] = TrialWrite(t, "recovery")
             /\ ws[2] = TrialWrite(t, "summary")
             /\ ws[3] = TrialWrite(t, "checksums")
             /\ ws[4] = TrialWrite(t, "marker")
    <2> HIDE DEF missing, ws
    <2>1. CASE bucket[<<t, "lock">>] = NoObject /\ summarised
      <3>1. Len(missing) = 2 /\ missing[1] = TrialWrite(t, "recovery")
            /\ missing[2] = TrialWrite(t, "lock")
        BY <1>m, <2>1
      <3>2. /\ DOMAIN ws = 1..4
            /\ ws[1] = TrialWrite(t, "recovery")
            /\ ws[2] = TrialWrite(t, "lock")
            /\ ws[3] = TrialWrite(t, "checksums")
            /\ ws[4] = TrialWrite(t, "marker")
        BY <1>v, <3>1
      <3>3. QED
        BY <2>1, <3>2
    <2>2. CASE bucket[<<t, "lock">>] = NoObject /\ ~ summarised
      <3>1. Len(missing) = 3 /\ missing[1] = TrialWrite(t, "recovery")
            /\ missing[2] = TrialWrite(t, "lock")
            /\ missing[3] = TrialWrite(t, "summary")
        BY <1>m, <2>2
      <3>2. /\ DOMAIN ws = 1..5
            /\ ws[1] = TrialWrite(t, "recovery")
            /\ ws[2] = TrialWrite(t, "lock")
            /\ ws[3] = TrialWrite(t, "summary")
            /\ ws[4] = TrialWrite(t, "checksums")
            /\ ws[5] = TrialWrite(t, "marker")
        BY <1>v, <3>1
      <3>3. QED
        BY <2>2, <3>2
    <2>3. CASE bucket[<<t, "lock">>] # NoObject /\ summarised
      <3>1. Len(missing) = 1 /\ missing[1] = TrialWrite(t, "recovery")
        BY <1>m, <2>3
      <3>2. /\ DOMAIN ws = 1..3
            /\ ws[1] = TrialWrite(t, "recovery")
            /\ ws[2] = TrialWrite(t, "checksums")
            /\ ws[3] = TrialWrite(t, "marker")
        BY <1>v, <3>1
      <3>3. QED
        BY <2>3, <3>2
    <2>4. CASE bucket[<<t, "lock">>] # NoObject /\ ~ summarised
      <3>1. Len(missing) = 2 /\ missing[1] = TrialWrite(t, "recovery")
            /\ missing[2] = TrialWrite(t, "summary")
        BY <1>m, <2>4
      <3>2. /\ DOMAIN ws = 1..4
            /\ ws[1] = TrialWrite(t, "recovery")
            /\ ws[2] = TrialWrite(t, "summary")
            /\ ws[3] = TrialWrite(t, "checksums")
            /\ ws[4] = TrialWrite(t, "marker")
        BY <1>v, <3>1
      <3>3. QED
        BY <2>4, <3>2
    <2>5. QED
      BY <2>1, <2>2, <2>3, <2>4
  <1>8. TrialManifest(After(bucket, missing), t) = RecoveredManifest(t)
    <2>1. ASSUME NEW k \in {"recovery", "lock", "summary"}
          PROVE  After(bucket, missing)[<<t, k>>] # NoObject
      <3>1. /\ DOMAIN missing \subseteq Nat
            /\ \A i \in DOMAIN missing :
                 \E j \in {"recovery", "lock", "summary"} : missing[i] = TrialWrite(t, j)
        OBVIOUS
      <3>2. bucket[<<t, k>>] # NoObject \/ \E i \in DOMAIN missing : missing[i] = TrialWrite(t, k)
        <4> HIDE DEF missing
        <4>1. /\ 1 \in DOMAIN missing /\ missing[1] = TrialWrite(t, "recovery")
              /\ bucket[<<t, "lock">>] = NoObject =>
                   2 \in DOMAIN missing /\ missing[2] = TrialWrite(t, "lock")
          BY <1>m
        <4>2. bucket[<<t, "summary">>] = NoObject =>
                \E i \in {2, 3} : i \in DOMAIN missing /\ missing[i] = TrialWrite(t, "summary")
          BY <1>m
        <4>3. QED
          BY <4>1, <4>2
      <3>3. TrialContent(t, k) # NoObject /\ <<t, k>> \in DOMAIN bucket
        BY <1>1, <1>3, ContentsAreThere DEF TrialFiles
      <3>4. \A i \in DOMAIN missing : missing[i][1] = <<t, k>> => missing[i][2] = TrialContent(t, k)
        BY <3>1 DEF TrialWrite
      <3> HIDE DEF missing
      <3>5. CASE \E i \in DOMAIN missing : missing[i] = TrialWrite(t, k)
        <4>1. \E i \in DOMAIN missing : missing[i][1] = <<t, k>>
          BY <3>5 DEF TrialWrite
        <4>2. After(bucket, missing)[<<t, k>>] = TrialContent(t, k)
          BY <3>3, <3>4, <4>1, AfterWrites
        <4>3. QED
          BY <3>3, <4>2
      <3>6. CASE ~ \E i \in DOMAIN missing : missing[i] = TrialWrite(t, k)
        <4>1. \A i \in DOMAIN missing : missing[i][1] # <<t, k>>
          BY <3>1, <3>6 DEF TrialWrite
        <4>2. After(bucket, missing)[<<t, k>>] = bucket[<<t, k>>]
          BY <3>3, <3>4, <4>1, AfterWrites
        <4>3. QED
          BY <3>2, <3>6, <4>2
      <3>7. QED
        BY <3>5, <3>6
    <2> HIDE DEF missing
    <2>2. QED
      BY <1>1, <2>1, ManifestIsComplete
  <1>9. TrialEnvelope(bucket, t, Ending(t, "ok"), summarised) = ws
    BY <1>2, <1>8 DEF TrialEnvelope
  <1>10. ws \in Seq({TrialWrite(t, k) : k \in TrialFiles})
    BY DEF TrialFiles
  <1>11. Finishes(ws, t)
    <2>1. ASSUME NEW i \in DOMAIN ws
          PROVE  \E k \in FilesOf(t) :
                   /\ ws[i] = TrialWrite(t, k)
                   /\ \A r \in Needs(<<t, k>>) : Done(r) \/ \E j \in 1..(i - 1) : ws[j] = r
      <3> HIDE DEF ws
      <3>1. CASE bucket[<<t, "lock">>] = NoObject /\ summarised
        BY <1>4, <1>5, <1>7, <1>w, <3>1 DEF TrialFiles
      <3>2. CASE bucket[<<t, "lock">>] = NoObject /\ ~ summarised
        BY <1>4, <1>5, <1>7, <1>w, <3>2 DEF TrialFiles
      <3>3. CASE bucket[<<t, "lock">>] # NoObject /\ summarised
        BY <1>4, <1>5, <1>7, <1>w, <3>3 DEF TrialFiles
      <3>4. CASE bucket[<<t, "lock">>] # NoObject /\ ~ summarised
        BY <1>4, <1>5, <1>7, <1>w, <3>4 DEF TrialFiles
      <3>5. QED
        BY <3>1, <3>2, <3>3, <3>4
    <2>2. ASSUME NEW k \in TrialFiles
          PROVE  Done(TrialWrite(t, k)) \/ \E i \in DOMAIN ws : ws[i] = TrialWrite(t, k)
      <3> HIDE DEF ws
      <3>1. bucket[<<t, k>>] # NoObject => Done(TrialWrite(t, k))
        BY <1>4
      <3>2. 1 \in DOMAIN ws /\ ws[1] = TrialWrite(t, "recovery")
        BY <1>w
      <3>3. bucket[<<t, "lock">>] = NoObject =>
              2 \in DOMAIN ws /\ ws[2] = TrialWrite(t, "lock")
        BY <1>w
      <3>4. bucket[<<t, "summary">>] = NoObject =>
              \E i \in {2, 3} : i \in DOMAIN ws /\ ws[i] = TrialWrite(t, "summary")
        BY <1>w
      <3>5. \E i \in {2, 3, 4} : i \in DOMAIN ws /\ ws[i] = TrialWrite(t, "checksums")
        BY <1>w
      <3>6. \E i \in {3, 4, 5} : i \in DOMAIN ws /\ ws[i] = TrialWrite(t, "marker")
        BY <1>w
      <3>7. QED
        BY <3>1, <3>2, <3>3, <3>4, <3>5, <3>6 DEF TrialFiles
    <2> HIDE DEF ws
    <2>3. QED
      BY <1>1, <1>5, <2>1, <2>2 DEF Finishes, Recoverable
  <1> HIDE DEF ws
  <1>12. QED
    BY <1>9, <1>10, <1>11

(* A trial that has a finaliser's or a worker's file was executed.          *)
LEMMA ExecutedTrials ==
    ASSUME SealingTypes, NEW t \in AllTrials, Recoverable(t)
    PROVE  execs[t] # <<>>
  <1>1. Ending(t, "ok") # {}
    <2>1. Cardinality({}) = 0
      BY FS_EmptySet
    <2>2. QED
      BY <2>1 DEF Recoverable
  <1>2. QED
    BY <1>1 DEF Ending

(* What a pass writes for a trial finishes it, or is a refusal.             *)
LEMMA TrialIsFinished ==
    ASSUME SealingTypes, TrialsOK, OrderOK, NEW t \in AllTrials
    PROVE  LET ws == TrialWrites(bucket, t)
           IN  /\ ws \in Seq({TrialWrite(t, k) : k \in TrialFiles} \cup {Failure})
               /\ ws = <<Failure>> \/ Finishes(ws, t)
  <1> DEFINE ws == TrialWrites(bucket, t)
             A == {TrialWrite(t, k) : k \in TrialFiles}
             Goal == /\ ws \in Seq(A \cup {Failure})
                     /\ ws = <<Failure>> \/ Finishes(ws, t)
             summary == bucket[<<t, "summary">>]
             marked == bucket[<<t, "marker">>] # NoObject
             won == Ending(t, "ok")
  <1>0. ws = <<Failure>> => Goal
    OBVIOUS
  <1>1. CASE t \notin scored
    <2>1. CASE ws = <<Failure>>
      BY <1>0, <2>1
    <2>2. CASE ws # <<Failure>>
      <3>1. ws = <<>> /\ execs[t] # <<>> /\ Ending(t, "none") = {}
        BY <1>1, <2>2 DEF TrialWrites, FailedTrial
      <3>2. QED
        BY <1>1, <3>1 DEF Finishes
    <2>3. QED
      BY <2>1, <2>2
  <1>2. CASE t \in scored
    <2>0. ws = CompleteTrial(bucket, t)
      BY <1>2 DEF TrialWrites
    <2>1. \A k \in TrialFiles : bucket[<<t, k>>] # NoObject =>
            /\ k \in FilesOf(t) /\ Done(TrialWrite(t, k))
            /\ Worked(t) => execs[t] # <<>>
            /\ ~ Worked(t) => Recoverable(t)
      BY DEF TrialsOK
    <2>2. <<t, "checksums">> \in Path /\ <<t, "marker">> \in Path
      BY TrialNames DEF TrialFiles
    <2>3. t # "run" /\ t # "campaign"
      BY TrialNames
    <2>4. /\ ~ Worked(t) => \A k \in {"recovery", "lock", "summary"} :
                              TrialWrite(t, k) \in Needs(<<t, "checksums">>)
          /\ Needs(<<t, "marker">>) = {TrialWrite(t, k) : k \in {"lock", "summary", "checksums"}}
      BY <2>3 DEF Needs
    <2>5. \A k \in {"lock", "summary", "checksums"} : TrialWrite(t, k) \in Needs(<<t, "marker">>)
      BY <2>4
    <2>6. bucket[<<t, "checksums">>] # NoObject /\ ~ Worked(t) => Done(TrialWrite(t, "recovery"))
      BY <2>2, <2>4 DEF OrderOK
    <2>7. CASE Ending(t, "none") # {} \/ (marked /\ summary = NoObject)
      <3>1. ws = <<Failure>>
        BY <2>0, <2>7 DEF CompleteTrial
      <3>2. QED
        BY <1>0, <3>1
    <2>8. CASE Ending(t, "none") = {} /\ summary # NoObject /\ marked
      <3>1. ws = <<>> \/ ws = <<Failure>>
        BY <2>0, <2>8 DEF CompleteTrial
      <3>2. ASSUME NEW k \in FilesOf(t) PROVE Done(TrialWrite(t, k))
        <4>1. \A j \in {"lock", "summary", "checksums"} : Done(TrialWrite(t, j))
          BY <2>2, <2>5, <2>8 DEF OrderOK
        <4>2. Done(TrialWrite(t, "marker"))
          BY <2>1, <2>8 DEF TrialFiles
        <4>3. k = "recovery" => ~ Worked(t)
          BY DEF FilesOf
        <4>4. bucket[<<t, "checksums">>] # NoObject
          <5>1. TrialContent(t, "checksums") # NoObject
            BY ContentsAreThere DEF TrialFiles
          <5>2. QED
            BY <4>1, <5>1 DEF Done, TrialWrite
        <4>5. k \in TrialFiles
          BY DEF FilesOf
        <4>6. QED
          BY <2>6, <4>1, <4>2, <4>3, <4>4, <4>5 DEF TrialFiles
      <3>3. execs[t] # <<>> /\ (~ Worked(t) => Recoverable(t))
        BY <2>1, <2>8, ExecutedTrials DEF TrialFiles
      <3>4. ws = <<>> => Finishes(ws, t)
        BY <2>8, <3>2, <3>3 DEF Finishes
      <3>5. ws = <<>> => Goal
        BY <3>4
      <3>6. QED
        BY <1>0, <3>1, <3>5
    <2>9. CASE Ending(t, "none") = {} /\ ~ marked /\ bucket[<<t, "checksums">>] # NoObject
      <3>1. \/ ws = <<Failure>>
            \/ /\ ws = << <<<<t, "marker">>, {}>> >>
               /\ summary # NoObject /\ bucket[<<t, "lock">>] # NoObject
        BY <2>0, <2>9 DEF CompleteTrial, TrialEnvelope, MarkerOnly
      <3>2. TrialWrite(t, "marker") = << <<t, "marker">>, {} >>
        BY DEF TrialWrite, TrialContent
      <3>3. CASE ws = << TrialWrite(t, "marker") >>
                 /\ summary # NoObject /\ bucket[<<t, "lock">>] # NoObject
        <4>1. \A j \in {"lock", "summary", "checksums"} : Done(TrialWrite(t, j))
          BY <2>1, <2>9, <3>3 DEF TrialFiles
        <4>2. /\ execs[t] # <<>> /\ (~ Worked(t) => Recoverable(t))
              /\ "marker" \in FilesOf(t)
          BY <2>1, <3>3, ExecutedTrials DEF TrialFiles, FilesOf
        <4>3. DOMAIN ws = {1} /\ ws[1] = TrialWrite(t, "marker")
          BY <3>3
        <4>4. \A r \in Needs(<<t, "marker">>) : Done(r)
          BY <2>4, <4>1
        <4>5. ASSUME NEW k \in FilesOf(t)
              PROVE  Done(TrialWrite(t, k)) \/ \E i \in DOMAIN ws : ws[i] = TrialWrite(t, k)
          <5>1. k \in TrialFiles /\ (k = "recovery" => ~ Worked(t))
            BY DEF FilesOf
          <5>2. QED
            BY <2>6, <2>9, <4>1, <4>3, <5>1 DEF TrialFiles
        <4>6. Finishes(ws, t)
          <5> HIDE DEF ws
          <5> QED
            BY <1>2, <2>9, <4>2, <4>3, <4>4, <4>5 DEF Finishes
        <4>7. ws \in Seq({TrialWrite(t, k) : k \in TrialFiles} \cup {Failure})
          <5>1. TrialWrite(t, "marker") \in {TrialWrite(t, k) : k \in TrialFiles}
            BY DEF TrialFiles
          <5> HIDE DEF ws
          <5>2. QED
            BY <3>3, <5>1
        <4>8. QED
          BY <4>6, <4>7
      <3>4. QED
        BY <1>0, <3>1, <3>2, <3>3
    <2>10. CASE Ending(t, "none") = {} /\ ~ marked /\ bucket[<<t, "checksums">>] = NoObject
      <3>1. ~ Worked(t)
        BY <2>10, ContentsAreThere DEF Worked, TrialContent, TrialFiles
      <3>2. \/ ws = <<Failure>>
            \/ summary # NoObject /\ ws = TrialEnvelope(bucket, t, won, TRUE)
            \/ /\ summary = NoObject /\ Cardinality(won) = 1
               /\ ws = TrialEnvelope(bucket, t, won, FALSE)
        BY <2>0, <2>10 DEF CompleteTrial
      <3>3. CASE ws # <<Failure>>
        <4>1. Recoverable(t)
          BY <2>1, <2>10, <3>1, <3>2, <3>3 DEF Recoverable, TrialFiles
        <4>2. execs[t] # <<>>
          BY <4>1, ExecutedTrials
        <4>3. ws \in Seq(A) /\ Finishes(ws, t)
          <5>1. CASE summary # NoObject
            BY <1>2, <2>10, <3>2, <3>3, <4>1, <4>2, <5>1, EnvelopeFinishes
          <5>2. CASE summary = NoObject
            BY <1>2, <2>10, <3>2, <3>3, <4>1, <4>2, <5>2, EnvelopeFinishes
          <5>3. QED
            BY <5>1, <5>2
        <4>4. ws \in Seq(A) => ws \in Seq(A \cup {Failure})
          <5> HIDE DEF ws, A
          <5> QED
            OBVIOUS
        <4>5. Goal
          <5> HIDE DEF ws, A
          <5> QED
            BY <4>3, <4>4
        <4>6. QED
          BY <4>5
      <3>4. QED
        BY <1>0, <3>3
    <2>11. QED
      BY <2>7, <2>8, <2>9, <2>10
  <1>3. QED
    BY <1>1, <1>2

(* A sequence is one over any set that has its elements.                    *)
LEMMA Retyped ==
    ASSUME NEW A, NEW S, NEW s \in Seq(A), \A i \in DOMAIN s : s[i] \in S
    PROVE  s \in Seq(S)
  <1>1. \A i \in 1..Len(s) : s[i] \in S
    OBVIOUS
  <1>2. QED
    BY <1>1

(* A plan is made of steps, and so is every beginning of it.                *)
LEMMA PlanIsTyped ==
    ASSUME SealingTypes, TrialsOK, NEW S, NEW ws \in Seq(S), PlanOK(ws)
    PROVE  ws \in Seq(Steps)
  <1>1. \A i \in 1..Len(ws) : ws[i] \in Steps
    <2> SUFFICES ASSUME NEW i \in 1..Len(ws), ws[i] # Failure PROVE ws[i] \in Path \X SUBSET Entries
      BY DEF Steps
    <2>1. i \in DOMAIN ws
      OBVIOUS
    <2>2. WriteOK(ws[i])
      BY <2>1 DEF PlanOK
    <2>3. QED
      BY <2>2, WritesAreWrites
  <1>2. QED
    BY <1>1

(* A beginning of a plan is a plan (TrialsWrites cuts at a refusal).        *)
LEMMA PlanBegins ==
    ASSUME NEW S, NEW ws \in Seq(S), PlanOK(ws), NEW m \in 1..Len(ws)
    PROVE  SubSeq(ws, 1, m) \in Seq(S) /\ PlanOK(SubSeq(ws, 1, m))
  <1> DEFINE s == SubSeq(ws, 1, m)
  <1>1. s \in Seq(S) /\ DOMAIN s = 1..m /\ \A i \in 1..m : s[i] = ws[i]
    OBVIOUS
  <1> HIDE DEF s
  <1>2. DOMAIN ws = 1..Len(ws)
    OBVIOUS
  <1>3. ASSUME NEW i \in 1..m, s[i] # Failure
        PROVE  /\ WriteOK(s[i])
               /\ \A r \in Needs(s[i][1]) : Done(r) \/ \E j \in 1..(i - 1) : s[j] = r
    <2>1. i \in DOMAIN ws /\ s[i] = ws[i] /\ \A j \in 1..(i - 1) : s[j] = ws[j]
      BY <1>1, <1>2
    <2>2. QED
      BY <1>3, <2>1 DEF PlanOK
  <1>4. PlanOK(s)
    BY <1>1, <1>3 DEF PlanOK
  <1>5. QED
    BY <1>1, <1>4 DEF s

(* The writes of all trials, when none is refused.                          *)
AllFinished(ws) ==
    /\ Judged
    /\ \A i \in DOMAIN ws : \E t \in scored : \E k \in FilesOf(t) : ws[i] = TrialWrite(t, k)
    /\ \A t \in scored : \A k \in FilesOf(t) :
         Done(TrialWrite(t, k)) \/ \E i \in DOMAIN ws : ws[i] = TrialWrite(t, k)

(* What a pass writes for its trials is a plan that ends in a refusal or    *)
(* finishes every scored trial.                                             *)
LEMMA TrialsAreFinished ==
    ASSUME SealingTypes, TrialsOK, OrderOK
    PROVE  LET ws == TrialsWrites(bucket)
           IN  /\ ws \in Seq(Steps) /\ PlanOK(ws)
               /\ (ws # <<>> /\ Last(ws) = Failure) \/ AllFinished(ws)
  <1> DEFINE parts == [i \in DOMAIN Trials |-> TrialWrites(bucket, Trials[i])]
             all == FlattenSeq(parts)
             bad == {i \in DOMAIN all : all[i] = Failure}
             S == {TrialWrite(t, k) : t \in AllTrials, k \in TrialFiles} \cup {Failure}
             n == Len(Trials)
  <1>1. /\ n \in Nat /\ DOMAIN Trials = 1..n
        /\ \A a \in 1..n : Trials[a] \in AllTrials
        /\ \A t \in AllTrials : \E a \in 1..n : t = Trials[a]
    <2>1. Trials \in Seq(AllTrials)
      BY SealingAssumption
    <2>2. AllTrials = {Trials[i] : i \in DOMAIN Trials}
      BY DEF AllTrials, ToSet
    <2> HIDE DEF parts, all, bad, S
    <2>3. n \in Nat /\ DOMAIN Trials = 1..n
      BY <2>1
    <2>4. QED
      BY <2>2, <2>3
  <1>2. ASSUME NEW a \in 1..n
        PROVE  /\ parts[a] \in Seq(S)
               /\ parts[a] = <<Failure>> \/ Finishes(parts[a], Trials[a])
    <2> DEFINE t == Trials[a]
               A == {TrialWrite(t, k) : k \in TrialFiles} \cup {Failure}
    <2>1. t \in AllTrials /\ parts[a] = TrialWrites(bucket, t)
      BY <1>1
    <2>2. TrialWrites(bucket, t) \in Seq(A)
      BY <2>1, TrialIsFinished
    <2>3. TrialWrites(bucket, t) = <<Failure>> \/ Finishes(TrialWrites(bucket, t), t)
      BY <2>1, TrialIsFinished
    <2>4. A \subseteq S
      BY <2>1
    <2>5. TrialWrites(bucket, t) \in Seq(S)
      <3> HIDE DEF A, S, t
      <3> QED
        BY <2>2, <2>4
    <2>6. QED
      <3> HIDE DEF S, parts
      <3> QED
        BY <2>1, <2>3, <2>5
  <1>3. parts \in Seq(Seq(S)) /\ Len(parts) = n /\ DOMAIN parts = 1..n
    <2>1. parts = [i \in 1..n |-> parts[i]]
      BY <1>1
    <2> HIDE DEF S, parts
    <2>2. QED
      BY <1>1, <1>2, <2>1
  <1>4. all \in Seq(S) /\ HoldsParts(all, parts, n)
    <2> HIDE DEF S, parts
    <2> QED
      BY <1>3, FlattenHolds
  <1>5. TrialsWrites(bucket) =
          IF bad = {} THEN all ELSE SubSeq(all, 1, CHOOSE i \in bad : \A j \in bad : i <= j)
    BY DEF TrialsWrites
  <1> HIDE DEF parts, all, S
  <1>6. ASSUME NEW i \in DOMAIN all, all[i] # Failure
        PROVE  \E a \in 1..n : \E c \in DOMAIN parts[a] :
                 /\ all[i] = parts[a][c] /\ Finishes(parts[a], Trials[a])
                 /\ \A d \in 1..(c - 1) : \E j \in 1..(i - 1) : all[j] = parts[a][d]
    <2>1. PICK a \in 1..n : \E c \in DOMAIN parts[a] :
            /\ all[i] = parts[a][c]
            /\ \A d \in 1..(c - 1) : \E j \in 1..(i - 1) : all[j] = parts[a][d]
      BY <1>4 DEF HoldsParts
    <2>2. PICK c \in DOMAIN parts[a] :
            /\ all[i] = parts[a][c]
            /\ \A d \in 1..(c - 1) : \E j \in 1..(i - 1) : all[j] = parts[a][d]
      BY <2>1
    <2>3. parts[a] # <<Failure>>
      <3>1. ASSUME parts[a] = <<Failure>> PROVE FALSE
        <4>1. c = 1 /\ parts[a][c] = Failure
          BY <2>2, <3>1
        <4>2. QED
          BY <1>6, <2>2, <4>1
      <3>2. QED
        BY <3>1
    <2>4. QED
      BY <1>2, <2>2, <2>3
  <1>7. PlanOK(all)
    <2> SUFFICES ASSUME NEW i \in DOMAIN all, all[i] # Failure
                 PROVE  /\ WriteOK(all[i])
                        /\ \A r \in Needs(all[i][1]) : Done(r) \/ \E j \in 1..(i - 1) : all[j] = r
      BY DEF PlanOK
    <2>1. PICK a \in 1..n, c \in Nat :
                 /\ c \in DOMAIN parts[a]
                 /\ all[i] = parts[a][c] /\ Finishes(parts[a], Trials[a])
                 /\ \A d \in 1..(c - 1) : \E j \in 1..(i - 1) : all[j] = parts[a][d]
      <3>1. \A a \in 1..n : DOMAIN parts[a] \subseteq Nat
        <4> SUFFICES ASSUME NEW a \in 1..n PROVE DOMAIN parts[a] \subseteq Nat
          OBVIOUS
        <4>1. parts[a] \in Seq(S)
          BY <1>2
        <4>2. QED
          BY <4>1
      <3>2. QED
        BY <1>6, <3>1
    <2>2. PICK k \in FilesOf(Trials[a]) :
            /\ all[i] = TrialWrite(Trials[a], k) /\ Trials[a] \in scored
            /\ Worked(Trials[a]) => k = "marker"
            /\ \A r \in Needs(<<Trials[a], k>>) :
                 Done(r) \/ \E j \in 1..(c - 1) : parts[a][j] = r
      <3>1. \E k \in FilesOf(Trials[a]) :
              /\ parts[a][c] = TrialWrite(Trials[a], k) /\ Trials[a] \in scored
              /\ Worked(Trials[a]) => k = "marker"
              /\ \A r \in Needs(<<Trials[a], k>>) :
                   Done(r) \/ \E j \in 1..(c - 1) : parts[a][j] = r
        <4> DEFINE ws == parts[a]
                   t == Trials[a]
        <4>1. c \in DOMAIN ws /\ Finishes(ws, t)
          BY <2>1
        <4> HIDE DEF ws, t
        <4>2. \E k \in FilesOf(t) :
              /\ ws[c] = TrialWrite(t, k) /\ t \in scored
              /\ Worked(t) => k = "marker"
              /\ \A r \in Needs(<<t, k>>) : Done(r) \/ \E j \in 1..(c - 1) : ws[j] = r
          BY <4>1 DEF Finishes
        <4>3. QED
          BY <4>2 DEF ws, t
      <3>2. QED
        BY <2>1, <3>1
    <2>3. k \in TrialFiles
      BY DEF FilesOf
    <2>4. ~ Worked(Trials[a]) => Recoverable(Trials[a])
      BY <2>1, <2>2 DEF Finishes
    <2>5. WriteOK(all[i])
      BY <2>2, <2>3, <2>4 DEF WriteOK, TrialWriteOK
    <2>6. all[i][1] = <<Trials[a], k>>
      BY <2>2 DEF TrialWrite
    <2>7. \A r \in Needs(<<Trials[a], k>>) : Done(r) \/ \E j \in 1..(i - 1) : all[j] = r
      BY <2>1, <2>2
    <2>8. QED
      BY <2>5, <2>6, <2>7
  <1>8. CASE bad = {}
    <2>1. TrialsWrites(bucket) = all
      BY <1>5, <1>8
    <2>2. \A a \in 1..n : Finishes(parts[a], Trials[a])
      <3> SUFFICES ASSUME NEW a \in 1..n, parts[a] = <<Failure>> PROVE FALSE
        BY <1>2
      <3>1. 1 \in DOMAIN parts[a] /\ parts[a][1] = Failure
        OBVIOUS
      <3>2. PICK i \in DOMAIN all : all[i] = parts[a][1]
        BY <1>4, <3>1 DEF HoldsParts
      <3>3. QED
        BY <1>8, <3>1, <3>2
    <2>3. \A t \in AllTrials : \E a \in 1..n : t = Trials[a] /\ Finishes(parts[a], t)
      BY <1>1, <2>2
    <2>4. Judged
      BY <2>3 DEF Judged, Finishes
    <2>5. ASSUME NEW i \in DOMAIN all
          PROVE  \E t \in scored : \E k \in FilesOf(t) : all[i] = TrialWrite(t, k)
      <3>1. all[i] # Failure
        BY <1>8
      <3>2. PICK a \in 1..n : \E c \in DOMAIN parts[a] :
              all[i] = parts[a][c] /\ Finishes(parts[a], Trials[a])
        BY <1>6, <3>1
      <3>3. \A c \in DOMAIN parts[a] : Trials[a] \in scored
              /\ \E k \in FilesOf(Trials[a]) : parts[a][c] = TrialWrite(Trials[a], k)
        BY <3>2 DEF Finishes
      <3>4. QED
        BY <3>2, <3>3
    <2>6. ASSUME NEW t \in scored, NEW k \in FilesOf(t)
          PROVE  Done(TrialWrite(t, k)) \/ \E i \in DOMAIN all : all[i] = TrialWrite(t, k)
      <3>1. t \in AllTrials
        BY DEF SealingTypes
      <3>2. PICK a \in 1..n : t = Trials[a] /\ Finishes(parts[a], t)
        BY <2>3, <3>1
      <3>3. Done(TrialWrite(t, k)) \/ \E c \in DOMAIN parts[a] : parts[a][c] = TrialWrite(t, k)
        BY <3>2 DEF Finishes
      <3>4. QED
        BY <1>4, <3>3 DEF HoldsParts
    <2>7. AllFinished(all)
      BY <2>4, <2>5, <2>6 DEF AllFinished
    <2>8. all \in Seq(Steps)
      BY <1>4, <1>7, PlanIsTyped
    <2>9. QED
      BY <1>7, <2>1, <2>7, <2>8
  <1>9. CASE bad # {}
    <2> DEFINE m == CHOOSE i \in bad : \A j \in bad : i <= j
    <2>1. bad \subseteq Nat
      BY <1>4
    <2>2. m \in bad
      <3> HIDE DEF bad
      <3>1. \E i \in bad : \A j \in bad : i <= j
        BY <1>9, <2>1, Smallest
      <3>2. QED
        BY <3>1
    <2>3. TrialsWrites(bucket) = SubSeq(all, 1, m)
      BY <1>5, <1>9
    <2> HIDE DEF m
    <2>4. m \in 1..Len(all) /\ all[m] = Failure
      BY <1>4, <2>2
    <2>5. SubSeq(all, 1, m) \in Seq(S) /\ PlanOK(SubSeq(all, 1, m))
      BY <1>4, <1>7, <2>4, PlanBegins
    <2>6. SubSeq(all, 1, m) # <<>> /\ Last(SubSeq(all, 1, m)) = Failure
      BY <1>4, <2>4 DEF Last
    <2>7. SubSeq(all, 1, m) \in Seq(Steps)
      BY <2>5, PlanIsTyped
    <2>8. QED
      BY <2>3, <2>5, <2>6, <2>7
  <1>10. QED
    BY <1>8, <1>9

(* A plan goes on with what comes after its needs.                          *)
LEMMA PlanGoesOn ==
    ASSUME NEW S, NEW a \in Seq(S), NEW b \in Seq(S), PlanOK(a),
           \A i \in DOMAIN b : b[i] # Failure =>
             /\ WriteOK(b[i])
             /\ \A r \in Needs(b[i][1]) : \/ Done(r)
                                          \/ \E j \in DOMAIN a : a[j] = r
                                          \/ \E j \in 1..(i - 1) : b[j] = r
    PROVE  a \o b \in Seq(S) /\ PlanOK(a \o b)
  <1> DEFINE s == a \o b
  <1>1. Len(a) \in Nat /\ Len(b) \in Nat /\ DOMAIN a = 1..Len(a) /\ DOMAIN b = 1..Len(b)
    OBVIOUS
  <1>2. /\ s \in Seq(S) /\ DOMAIN s = 1..(Len(a) + Len(b))
        /\ \A i \in 1..Len(a) : s[i] = a[i]
        /\ \A i \in 1..Len(b) : s[Len(a) + i] = b[i]
    OBVIOUS
  <1> HIDE DEF s
  <1>3. ASSUME NEW i \in DOMAIN s, s[i] # Failure
        PROVE  /\ WriteOK(s[i])
               /\ \A r \in Needs(s[i][1]) : Done(r) \/ \E j \in 1..(i - 1) : s[j] = r
    <2>1. CASE i \in 1..Len(a)
      <3>1. s[i] = a[i] /\ \A j \in 1..(i - 1) : s[j] = a[j]
        BY <1>1, <1>2, <2>1
      <3>2. i \in DOMAIN a /\ a[i] # Failure
        BY <1>1, <1>3, <2>1, <3>1
      <3>3. QED
        BY <3>1, <3>2 DEF PlanOK
    <2>2. CASE i \notin 1..Len(a)
      <3> DEFINE c == i - Len(a)
      <3>1. c \in 1..Len(b) /\ i = Len(a) + c /\ c \in DOMAIN b
        BY <1>1, <1>2, <2>2
      <3>2. s[i] = b[c]
        BY <1>2, <3>1
      <3>3. \A j \in DOMAIN a : j \in 1..(i - 1) /\ s[j] = a[j]
        BY <1>1, <1>2, <3>1
      <3>4. \A j \in 1..(c - 1) : Len(a) + j \in 1..(i - 1) /\ s[Len(a) + j] = b[j]
        BY <1>1, <1>2, <3>1
      <3> HIDE DEF c
      <3>5. /\ WriteOK(b[c])
            /\ \A r \in Needs(b[c][1]) : \/ Done(r)
                                         \/ \E j \in DOMAIN a : a[j] = r
                                         \/ \E j \in 1..(c - 1) : b[j] = r
        BY <1>3, <3>1, <3>2
      <3>6. ASSUME NEW r \in Needs(b[c][1]) PROVE Done(r) \/ \E j \in 1..(i - 1) : s[j] = r
        <4>1. CASE \E j \in DOMAIN a : a[j] = r
          BY <3>3, <4>1
        <4>2. CASE \E j \in 1..(c - 1) : b[j] = r
          <5>1. PICK j \in 1..(c - 1) : b[j] = r
            BY <4>2
          <5>2. Len(a) + j \in 1..(i - 1) /\ s[Len(a) + j] = r
            BY <3>4, <5>1
          <5>3. QED
            BY <5>2
        <4>3. QED
          BY <3>5, <4>1, <4>2
      <3>7. QED
        BY <3>2, <3>5, <3>6
    <2>3. QED
      BY <2>1, <2>2
  <1>4. PlanOK(s)
    BY <1>3 DEF PlanOK
  <1>5. QED
    BY <1>2, <1>4 DEF s

(* The listing in which every trial is complete.                            *)
LEMMA TrialsAfter ==
    ASSUME SealingTypes, TrialsOK, NEW ws, AllFinished(ws)
    PROVE  LET u == After(bucket, ws)
           IN  /\ DOMAIN u = Path
               /\ \A t \in scored : \A k \in FilesOf(t) : u[<<t, k>>] = TrialContent(t, k)
               /\ \A t \in AllTrials, k \in TrialFiles :
                    u[<<t, k>>] # NoObject => t \in scored /\ k \in FilesOf(t)
               /\ \A p \in Path : p[1] \notin AllTrials => u[p] = bucket[p]
  <1> DEFINE u == After(bucket, ws)
  <1>1. DOMAIN bucket = Path /\ scored \subseteq AllTrials
    BY DEF SealingTypes
  <1>2. DOMAIN u = Path
    BY <1>1 DEF After
  <1>3. \A i \in DOMAIN ws : \E t \in scored : \E k \in FilesOf(t) :
          ws[i] = << <<t, k>>, TrialContent(t, k) >>
    BY DEF AllFinished, TrialWrite
  <1>4. ASSUME NEW t \in AllTrials, NEW k \in TrialFiles
        PROVE  u[<<t, k>>] = IF \E i \in DOMAIN ws : ws[i][1] = <<t, k>>
                             THEN TrialContent(t, k) ELSE bucket[<<t, k>>]
    <2>1. <<t, k>> \in DOMAIN bucket
      BY <1>1, TrialNames
    <2>2. \A i \in DOMAIN ws : ws[i][1] = <<t, k>> => ws[i][2] = TrialContent(t, k)
      BY <1>3
    <2>3. QED
      BY <2>1, <2>2, AfterWrites
  <1>5. ASSUME NEW t \in scored, NEW k \in FilesOf(t) PROVE u[<<t, k>>] = TrialContent(t, k)
    <2>1. t \in AllTrials /\ k \in TrialFiles
      BY <1>1 DEF FilesOf
    <2>2. \/ bucket[<<t, k>>] = TrialContent(t, k)
          \/ \E i \in DOMAIN ws : ws[i][1] = <<t, k>>
      BY DEF AllFinished, Done, TrialWrite
    <2>3. QED
      BY <1>4, <2>1, <2>2
  <1>6. ASSUME NEW t \in AllTrials, NEW k \in TrialFiles, u[<<t, k>>] # NoObject
        PROVE  t \in scored /\ k \in FilesOf(t)
    <2>1. CASE \E i \in DOMAIN ws : ws[i][1] = <<t, k>>
      <3>1. PICK i \in DOMAIN ws : ws[i][1] = <<t, k>>
        BY <2>1
      <3>2. PICK s \in scored : \E j \in FilesOf(s) : ws[i] = << <<s, j>>, TrialContent(s, j) >>
        BY <1>3
      <3>3. QED
        BY <3>1, <3>2
    <2>2. CASE ~ \E i \in DOMAIN ws : ws[i][1] = <<t, k>>
      <3>1. bucket[<<t, k>>] # NoObject
        BY <1>4, <1>6, <2>2
      <3>2. QED
        BY <3>1 DEF TrialsOK
    <2>3. QED
      BY <2>1, <2>2
  <1>7. ASSUME NEW p \in Path, p[1] \notin AllTrials PROVE u[p] = bucket[p]
    <2>1. ASSUME NEW i \in DOMAIN ws PROVE ws[i][1] # p
      <3>1. PICK t \in scored : \E k \in FilesOf(t) : ws[i] = << <<t, k>>, TrialContent(t, k) >>
        BY <1>3
      <3>2. ws[i][1][1] = t /\ t \in AllTrials
        BY <1>1, <3>1
      <3>3. QED
        BY <1>7, <3>2
    <2>2. QED
      BY <1>1, <2>1, AfterWrites
  <1> HIDE DEF u
  <1>8. QED
    BY <1>2, <1>5, <1>6, <1>7 DEF u

(* The run's manifest, taken when the trials are finished and the run's     *)
(* facts are there.                                                         *)
LEMMA RunManifestCovers ==
    ASSUME scored \subseteq AllTrials, SealingTypes, NEW x,
           \A k \in {"lock", "verification", "summary", "envelope"} : x[<<"run", k>>] # NoObject,
           \A t \in AllTrials, k \in TrialFiles :
             x[<<t, k>>] # NoObject <=> t \in scored /\ k \in FilesOf(t)
    PROVE  RunManifest(x) = RunCovers
  <1>1. ASSUME NEW e \in RunManifest(x) PROVE e \in RunCovers
    <2>1. e \in Listed(x) /\ e[1] # "campaign" /\ e # <<"run", "checksums">>
          /\ e # <<"run", "marker">>
      BY DEF RunManifest
    <2>2. CASE e \in AllExecutions
      BY <2>2 DEF RunCovers
    <2>3. CASE e \in Path /\ x[e] # NoObject
      <3>1. CASE \E t \in AllTrials, k \in TrialFiles : e = <<t, k>>
        <4>1. PICK t \in AllTrials, k \in TrialFiles : e = <<t, k>>
          BY <3>1
        <4>2. t \in scored /\ k \in FilesOf(t)
          BY <2>3, <4>1
        <4>3. QED
          BY <4>1, <4>2 DEF RunCovers
      <3>2. CASE \E k \in RunFiles : e = <<"run", k>>
        BY <2>1, <3>2 DEF RunCovers, RunFiles
      <3>3. QED
        BY <2>1, <2>3, <3>1, <3>2, PathKinds
    <2>4. QED
      BY <2>1, <2>2, <2>3 DEF Listed, AllExecutions
  <1>2. ASSUME NEW e \in RunCovers PROVE e \in RunManifest(x)
    <2>1. CASE e \in AllExecutions
      <3>1. e \in Listed(x)
        BY <2>1 DEF Listed, AllExecutions
      <3>2. PICK t \in AllTrials : e \in Executions(t)
        BY <2>1 DEF AllExecutions
      <3>3. e[1] = t /\ t # "campaign" /\ t # "run"
        BY <3>2, ExecutionNames, TrialNames
      <3>4. QED
        BY <3>1, <3>3 DEF RunManifest
    <2>2. CASE \E k \in {"lock", "verification", "summary", "envelope"} : e = <<"run", k>>
      <3>1. PICK k \in {"lock", "verification", "summary", "envelope"} : e = <<"run", k>>
        BY <2>2
      <3>2. e \in Path /\ x[e] # NoObject
        BY <3>1, TrialNames DEF RunFiles
      <3>3. QED
        BY <3>1, <3>2 DEF RunManifest, Listed
    <2>3. CASE \E t \in scored : \E k \in FilesOf(t) : e = <<t, k>>
      <3>1. PICK t \in scored : \E k \in FilesOf(t) : e = <<t, k>>
        BY <2>3
      <3>2. PICK k \in FilesOf(t) : e = <<t, k>>
        BY <3>1
      <3>3. t \in AllTrials /\ k \in TrialFiles /\ t # "campaign" /\ t # "run"
        BY TrialNames DEF FilesOf
      <3>4. e \in Path /\ x[e] # NoObject
        BY <3>2, <3>3, TrialNames
      <3>5. QED
        BY <3>2, <3>3, <3>4 DEF RunManifest, Listed
    <2>4. QED
      BY <2>1, <2>2, <2>3 DEF RunCovers
  <1>3. QED
    BY <1>1, <1>2

(* What the pass writes for the run over that listing is the run's content. *)
LEMMA RunIsWritten ==
    ASSUME SealingTypes, TrialsOK, NEW ws, AllFinished(ws)
    PROVE  LET rs == RunWrites(After(bucket, ws))
           IN  /\ rs \in Seq({RunWrite(k) : k \in RunFiles}) /\ DOMAIN rs = 1..5
               /\ rs[1] = RunWrite("verification") /\ rs[2] = RunWrite("summary")
               /\ rs[3] = RunWrite("envelope") /\ rs[4] = RunWrite("checksums")
               /\ rs[5] = RunWrite("marker")
  <1> DEFINE u == After(bucket, ws)
             facts == RunFacts(u)
             x == After(u, facts)
  <1>1. /\ DOMAIN u = Path /\ scored \subseteq AllTrials
        /\ \A t \in scored : \A k \in FilesOf(t) : u[<<t, k>>] = TrialContent(t, k)
        /\ \A t \in AllTrials, k \in TrialFiles :
             u[<<t, k>>] # NoObject => t \in scored /\ k \in FilesOf(t)
        /\ \A p \in Path : p[1] \notin AllTrials => u[p] = bucket[p]
    BY TrialsAfter DEF SealingTypes
  <1> HIDE DEF u
  <1>2. Selected(u) = RunSelected
    <2>1. \A t \in scored : u[<<t, "summary">>] = TrialContent(t, "summary")
      BY <1>1 DEF FilesOf, TrialFiles
    <2>2. \A t \in AllTrials :
            (IF t \in scored THEN u[<<t, "summary">>] ELSE {<<t, ExecNames[Len(execs[t])]>>})
             = IF t \in scored THEN TrialContent(t, "summary") ELSE LastExecution(t)
      BY <2>1 DEF LastExecution
    <2>3. QED
      BY <2>2 DEF Selected, RunSelected
  <1>3. /\ DOMAIN facts = 1..3 /\ facts[1] = RunWrite("verification")
        /\ facts[2] = RunWrite("summary") /\ facts[3] = RunWrite("envelope")
        /\ Len(facts) = 3 /\ facts \in Seq({RunWrite(k) : k \in RunFiles})
    <2>1. facts = << RunWrite("verification"), RunWrite("summary"), RunWrite("envelope") >>
      BY <1>2 DEF RunFacts, RunEvidence, RunWrite, RunContent
    <2> HIDE DEF facts
    <2>2. QED
      BY <2>1 DEF RunFiles
  <1> HIDE DEF facts
  <1>4. \A i \in DOMAIN facts : \E k \in {"verification", "summary", "envelope"} :
          facts[i] = << <<"run", k>>, RunContent(k) >>
    BY <1>3 DEF RunWrite
  <1>5. ASSUME NEW p \in Path, \A k \in {"verification", "summary", "envelope"} : p # <<"run", k>>
        PROVE  x[p] = u[p]
    <2>1. \A i \in DOMAIN facts : facts[i][1] # p
      BY <1>4, <1>5
    <2>2. QED
      BY <1>1, <2>1, AfterWrites
  <1>6. ASSUME NEW k \in {"verification", "summary", "envelope"}
        PROVE  x[<<"run", k>>] # NoObject
    <2>1. <<"run", k>> \in DOMAIN u /\ RunContent(k) # NoObject
      BY <1>1, TrialNames, ContentsAreThere DEF RunFiles
    <2>2. \A i \in DOMAIN facts : facts[i][1] = <<"run", k>> => facts[i][2] = RunContent(k)
      BY <1>4
    <2>3. \E i \in DOMAIN facts : facts[i][1] = <<"run", k>>
      BY <1>3 DEF RunWrite
    <2>4. x[<<"run", k>>] = RunContent(k)
      <3> DEFINE c == RunContent(k)
                 p == <<"run", k>>
      <3> HIDE DEF c, p
      <3>1. After(u, facts)[p] = IF \E i \in DOMAIN facts : facts[i][1] = p THEN c ELSE u[p]
        BY <2>1, <2>2, AfterWrites DEF c, p
      <3>2. QED
        BY <2>3, <3>1 DEF c, p
    <2>5. QED
      BY <2>1, <2>4
  <1>7. x[<<"run", "lock">>] # NoObject
    <2>1. <<"run", "lock">> \in Path /\ "run" \notin AllTrials
      BY TrialNames DEF RunFiles
    <2>2. x[<<"run", "lock">>] = {}
      BY <1>1, <1>5, <2>1 DEF SealingTypes
    <2>3. QED
      BY <2>2, ObjectsAreThere
  <1>8. ASSUME NEW t \in AllTrials, NEW k \in TrialFiles
        PROVE  x[<<t, k>>] # NoObject <=> t \in scored /\ k \in FilesOf(t)
    <2>1. <<t, k>> \in Path /\ t # "run"
      BY TrialNames
    <2>2. x[<<t, k>>] = u[<<t, k>>]
      BY <1>5, <2>1
    <2>3. TrialContent(t, k) # NoObject
      BY ContentsAreThere
    <2>4. QED
      BY <1>1, <2>2, <2>3
  <1> HIDE DEF x
  <1>9. RunManifest(x) = RunCovers
    BY <1>1, <1>6, <1>7, <1>8, RunManifestCovers
  <1>10. RunWrites(u) = facts \o << RunWrite("checksums"), RunWrite("marker") >>
    BY <1>9 DEF RunWrites, RunWrite, RunContent, x, facts
  <1>11. /\ RunWrite("checksums") \in {RunWrite(k) : k \in RunFiles}
         /\ RunWrite("marker") \in {RunWrite(k) : k \in RunFiles}
    BY DEF RunFiles
  <1> DEFINE rs == facts \o << RunWrite("checksums"), RunWrite("marker") >>
  <1>12. /\ rs \in Seq({RunWrite(k) : k \in RunFiles}) /\ DOMAIN rs = 1..5
         /\ rs[1] = RunWrite("verification") /\ rs[2] = RunWrite("summary")
         /\ rs[3] = RunWrite("envelope") /\ rs[4] = RunWrite("checksums")
         /\ rs[5] = RunWrite("marker")
    <2> DEFINE A == {RunWrite(k) : k \in RunFiles}
               c == RunWrite("checksums")
               m == RunWrite("marker")
    <2>1. facts \in Seq(A) /\ Len(facts) = 3 /\ c \in A /\ m \in A
      BY <1>3, <1>11
    <2> HIDE DEF A, c, m
    <2>2. LET q == facts \o <<c, m>>
          IN  /\ q \in Seq(A) /\ DOMAIN q = 1..5 /\ q[4] = c /\ q[5] = m
              /\ q[1] = facts[1] /\ q[2] = facts[2] /\ q[3] = facts[3]
      <3> DEFINE q == facts \o <<c, m>>
      <3>1. /\ q \in Seq(A) /\ DOMAIN q = 1..(Len(facts) + 2)
            /\ \A i \in 1..Len(facts) : q[i] = facts[i]
            /\ q[Len(facts) + 1] = c /\ q[Len(facts) + 2] = m
        <4>1. <<c, m>> \in Seq(A)
          BY <2>1
        <4>2. q \in Seq(A)
          BY <2>1, <4>1
        <4>3. facts \in Seq(A)
          BY <2>1
        <4>4. DOMAIN q = 1..(Len(facts) + 2) /\ \A i \in 1..Len(facts) : q[i] = facts[i]
          BY <4>3
        <4>5. q[Len(facts) + 1] = c /\ q[Len(facts) + 2] = m
          BY <4>3
        <4>6. QED
          BY <4>2, <4>4, <4>5
      <3> HIDE DEF q
      <3>2. /\ q \in Seq(A) /\ DOMAIN q = 1..5 /\ q[4] = c /\ q[5] = m
            /\ q[1] = facts[1] /\ q[2] = facts[2] /\ q[3] = facts[3]
        BY <2>1, <3>1
      <3>3. QED
        BY <3>2 DEF q
    <2>3. QED
      BY <1>3, <2>2 DEF A, c, m
  <1> HIDE DEF rs
  <1>13. QED
    BY <1>10, <1>12 DEF rs, u

(* Everything a pass may write and the order it writes it in: a plan made   *)
(* from any listing is a plan.                                              *)
LEMMA PlanIsMade ==
    ASSUME SealingTypes, TrialsOK, OrderOK, NEW d \in Statuses
    PROVE  Plan(bucket, d) \in Seq(Steps) /\ PlanOK(Plan(bucket, d))
  <1> DEFINE cs == CampaignWrites(d)
             ws == TrialsWrites(bucket)
             rs == RunWrites(After(bucket, ws))
  <1>1. /\ DOMAIN cs = 1..2
        /\ cs[1] = << <<"campaign", "summary">>, {<<"campaign", d>>} >>
        /\ cs[2] = << <<"campaign", d>>, {} >>
    BY DEF CampaignWrites
  <1>2. /\ Needs(<<"campaign", "summary">>) = {}
        /\ Needs(<<"campaign", d>>) = {<< <<"campaign", "summary">>, {<<"campaign", d>>} >>}
    <2>1. "campaign" \notin AllTrials
      BY TrialNames
    <2>2. QED
      BY <2>1 DEF Needs, Statuses
  <1>3. \A i \in 1..2 : CampaignWriteOK(cs[i]) /\ WriteOK(cs[i])
    BY <1>1 DEF CampaignWriteOK, WriteOK
  <1>4. cs \in Seq(Steps)
    <2>1. cs[1] \in Steps /\ cs[2] \in Steps
      BY <1>3, WritesAreWrites DEF Steps
    <2> DEFINE first == << <<"campaign", "summary">>, {<<"campaign", d>>} >>
               second == << <<"campaign", d>>, {} >>
    <2>2. cs = <<first, second>> /\ first \in Steps /\ second \in Steps
      BY <1>1, <2>1 DEF CampaignWrites
    <2> HIDE DEF cs, first, second
    <2>3. QED
      BY <2>2
  <1> HIDE DEF cs
  <1>5. \A i \in DOMAIN cs : cs[i] # Failure =>
          /\ WriteOK(cs[i])
          /\ \A r \in Needs(cs[i][1]) : \E j \in 1..(i - 1) : cs[j] = r
    <2>1. \A r \in Needs(cs[1][1]) : FALSE
      BY <1>1, <1>2
    <2>2. \A r \in Needs(cs[2][1]) : r = cs[1] /\ 1 \in 1..(2 - 1)
      BY <1>1, <1>2
    <2>3. QED
      BY <1>1, <1>3, <2>1, <2>2
  <1>6. CASE ~ runDone
    <2>1. Plan(bucket, d) = cs
      BY <1>6 DEF Plan, cs
    <2>2. PlanOK(cs)
      BY <1>5 DEF PlanOK
    <2>3. QED
      BY <1>4, <2>1, <2>2
  <1>7. CASE runDone
    <2>1. ws \in Seq(Steps) /\ PlanOK(ws) /\ ((ws # <<>> /\ Last(ws) = Failure) \/ AllFinished(ws))
      BY TrialsAreFinished
    <2>2. Plan(bucket, d) = IF ws # <<>> /\ Last(ws) = Failure THEN ws ELSE ws \o rs \o cs
      BY <1>7 DEF Plan, cs
    <2> HIDE DEF ws
    <2>3. CASE ws # <<>> /\ Last(ws) = Failure
      BY <2>1, <2>2, <2>3
    <2>4. CASE ~ (ws # <<>> /\ Last(ws) = Failure)
      <3>1. AllFinished(ws) /\ Judged
        BY <2>1, <2>4 DEF AllFinished
      <3>2. /\ rs \in Seq({RunWrite(k) : k \in RunFiles}) /\ DOMAIN rs = 1..5
            /\ rs[1] = RunWrite("verification") /\ rs[2] = RunWrite("summary")
            /\ rs[3] = RunWrite("envelope") /\ rs[4] = RunWrite("checksums")
            /\ rs[5] = RunWrite("marker")
        BY <3>1, RunIsWritten
      <3> HIDE DEF rs
      <3>3. \A i \in 1..5 : WriteOK(rs[i])
        <4>1. \A k \in RunFiles \ {"lock"} : WriteOK(RunWrite(k))
          BY <1>7, <3>1 DEF WriteOK, RunWriteOK
        <4>2. QED
          BY <3>2, <4>1 DEF RunFiles
      <3>4. rs \in Seq(Steps)
        <4>1. \A i \in 1..5 : rs[i] \in Steps
          BY <3>3, WritesAreWrites DEF Steps
        <4> DEFINE A == {RunWrite(k) : k \in RunFiles}
        <4>2. rs \in Seq(A)
          BY <3>2
        <4> HIDE DEF A
        <4>3. QED
          BY <3>2, <4>1, <4>2, Retyped
      <3>5. \A k \in RunFiles : RunWrite(k)[1] = <<"run", k>>
        BY DEF RunWrite
      <3>6. /\ \A k \in {"verification", "summary", "envelope"} :
                 Needs(<<"run", k>>) = {TrialWrite(t, "marker") : t \in scored}
            /\ Needs(<<"run", "checksums">>) =
                 {RunWrite(k) : k \in {"verification", "summary", "envelope"}}
            /\ Needs(<<"run", "marker">>) = {RunWrite("checksums")}
        <4>1. "run" \notin AllTrials
          BY TrialNames
        <4>2. QED
          BY <4>1 DEF Needs
      <3>7. \A t \in scored : \/ Done(TrialWrite(t, "marker"))
                              \/ \E j \in DOMAIN ws : ws[j] = TrialWrite(t, "marker")
        BY <3>1 DEF AllFinished, FilesOf, TrialFiles
      <3>8. ASSUME NEW i \in DOMAIN rs, NEW r \in Needs(rs[i][1])
            PROVE  \/ Done(r)
                   \/ \E j \in DOMAIN ws : ws[j] = r
                   \/ \E j \in 1..(i - 1) : rs[j] = r
        <4>1. CASE i \in 1..3
          <5>1. \E k \in {"verification", "summary", "envelope"} : rs[i][1] = <<"run", k>>
            BY <3>2, <3>5, <4>1 DEF RunFiles
          <5>2. \E t \in scored : r = TrialWrite(t, "marker")
            BY <3>6, <5>1
          <5>3. QED
            BY <3>7, <5>2
        <4>2. CASE i = 4
          <5>1. rs[i][1] = <<"run", "checksums">>
            BY <3>2, <3>5, <4>2 DEF RunFiles
          <5>2. \E k \in {"verification", "summary", "envelope"} : r = RunWrite(k)
            BY <3>6, <5>1
          <5>3. QED
            BY <3>2, <4>2, <5>2
        <4>3. CASE i = 5
          <5>1. rs[i][1] = <<"run", "marker">>
            BY <3>2, <3>5, <4>3 DEF RunFiles
          <5>2. r = RunWrite("checksums")
            BY <3>6, <5>1
          <5>3. QED
            BY <3>2, <4>3, <5>2
        <4>4. QED
          BY <3>2, <4>1, <4>2, <4>3
      <3>9. ws \o rs \in Seq(Steps) /\ PlanOK(ws \o rs)
        BY <2>1, <3>2, <3>3, <3>4, <3>8, PlanGoesOn
      <3>10. (ws \o rs) \o cs \in Seq(Steps) /\ PlanOK((ws \o rs) \o cs)
        BY <1>4, <1>5, <3>9, PlanGoesOn
      <3>11. QED
        BY <2>2, <2>4, <3>10
    <2>5. QED
      BY <2>3, <2>4
  <1>8. QED
    BY <1>6, <1>7 DEF SealingTypes

-----------------------------------------------------------------------------
(* The invariant *)

(* The files a worker leaves come in its order.                             *)
LEMMA WorkerLeaves ==
    ASSUME NEW n \in 0..4
    PROVE  /\ ToSet(SubSeq(WorkerOrder, 1, n)) \subseteq TrialFiles \ {"recovery"}
           /\ "checksums" \in ToSet(SubSeq(WorkerOrder, 1, n)) <=> n > 0
           /\ "marker" \in ToSet(SubSeq(WorkerOrder, 1, n)) =>
                {"lock", "summary", "checksums"} \subseteq ToSet(SubSeq(WorkerOrder, 1, n))
  <1> DEFINE s == SubSeq(WorkerOrder, 1, n)
  <1>1. /\ WorkerOrder \in Seq(TrialFiles) /\ Len(WorkerOrder) = 4
        /\ WorkerOrder[1] = "checksums" /\ WorkerOrder[2] = "summary"
        /\ WorkerOrder[3] = "lock" /\ WorkerOrder[4] = "marker"
    BY DEF WorkerOrder, TrialFiles
  <1>2. DOMAIN s = 1..n /\ \A i \in 1..n : s[i] = WorkerOrder[i]
    BY <1>1
  <1> HIDE DEF s
  <1>3. ToSet(s) = {WorkerOrder[i] : i \in 1..n}
    BY <1>2 DEF ToSet
  <1>4. \A i \in 1..n : i \in {1, 2, 3, 4} /\ WorkerOrder[i] # "recovery"
    BY <1>1
  <1>5. ToSet(s) \subseteq TrialFiles \ {"recovery"}
    BY <1>1, <1>3, <1>4
  <1>6. "checksums" \in ToSet(s) <=> n > 0
    <2>1. n > 0 => 1 \in 1..n
      OBVIOUS
    <2>2. n = 0 => 1..n = {}
      OBVIOUS
    <2>3. QED
      BY <1>1, <1>3, <2>1, <2>2
  <1>7. "marker" \in ToSet(s) => {"lock", "summary", "checksums"} \subseteq ToSet(s)
    <2>1. ASSUME "marker" \in ToSet(s) PROVE {"lock", "summary", "checksums"} \subseteq ToSet(s)
      <3>1. PICK i \in 1..n : WorkerOrder[i] = "marker"
        BY <1>3, <2>1
      <3>2. i = 4
        BY <1>1, <1>4, <3>1
      <3>3. 1 \in 1..n /\ 2 \in 1..n /\ 3 \in 1..n
        BY <3>2
      <3>4. QED
        BY <1>1, <1>3, <3>3
    <2>2. QED
      BY <2>1
  <1>8. QED
    BY <1>5, <1>6, <1>7 DEF s

(* The evidence a worker Job leaves, wherever it stopped, satisfies it.     *)
LEMMA SealingStarts == SealingInit => SealingInv
  <1> SUFFICES ASSUME SealingInit PROVE SealingInv
    OBVIOUS
  <1>1. /\ execs \in [AllTrials -> Histories] /\ scored \subseteq AllTrials
        /\ runDone \in BOOLEAN /\ decision \in Statuses
        /\ claim = [p \in Path |-> Nobody] /\ pass = [f \in Finalizers |-> Idle]
        /\ conflicts = {} /\ faults = 0
    BY DEF SealingInit, Statuses
  <1>2. PICK n \in [AllTrials -> 0..Len(WorkerOrder)] :
         /\ \A t \in AllTrials :
              /\ t \in scored => execs[t] # <<>>
              /\ n[t] > 0 => t \in scored /\ Last(execs[t]) = "ok"
         /\ bucket = [p \in Path |->
                        IF p[1] \in AllTrials
                        THEN IF n[p[1]] = 0 THEN NoObject ELSE Left(p[1], n[p[1]])[p[2]]
                        ELSE IF p = <<"run", "lock">> THEN {} ELSE NoObject]
    BY DEF SealingInit
  <1> DEFINE Files(t) == ToSet(SubSeq(WorkerOrder, 1, n[t]))
  <1>3. Len(WorkerOrder) = 4
    BY DEF WorkerOrder
  <1>4. \A t \in AllTrials :
          /\ Files(t) \subseteq TrialFiles \ {"recovery"}
          /\ "checksums" \in Files(t) <=> n[t] > 0
          /\ "marker" \in Files(t) => {"lock", "summary", "checksums"} \subseteq Files(t)
    BY <1>2, <1>3, WorkerLeaves
  <1>5. \A t \in AllTrials : \A e : e \in Files(t) => n[t] > 0
    <2> SUFFICES ASSUME NEW t \in AllTrials, n[t] = 0 PROVE Files(t) = {}
      BY <1>2, <1>3
    <2>1. SubSeq(WorkerOrder, 1, 0) = <<>>
      BY DEF WorkerOrder
    <2>2. QED
      BY <2>1 DEF ToSet
  <1> HIDE DEF Files
  <1>6. ASSUME NEW t \in AllTrials, NEW k \in TrialFiles
        PROVE  bucket[<<t, k>>] = IF k \notin Files(t) THEN NoObject
                                  ELSE IF k = "checksums" THEN WorkerManifest(t)
                                  ELSE IF k = "summary" THEN LastExecution(t) ELSE {}
    <2>1. <<t, k>> \in Path /\ n[t] \in 0..4
      BY <1>2, <1>3, TrialNames
    <2>2. bucket[<<t, k>>] = IF n[t] = 0 THEN NoObject ELSE Left(t, n[t])[k]
      BY <1>2, <2>1
    <2>3. Left(t, n[t])[k] = IF k \notin Files(t) THEN NoObject
                                  ELSE IF k = "checksums" THEN WorkerManifest(t)
                                  ELSE IF k = "summary" THEN LastExecution(t) ELSE {}
      BY DEF Left, Files, WorkerManifest, LastExecution
    <2>4. n[t] = 0 => k \notin Files(t)
      BY <1>5, <2>1
    <2>5. QED
      BY <2>2, <2>3, <2>4
  <1>7. \A p \in Path : p[1] \notin AllTrials =>
          bucket[p] = IF p = <<"run", "lock">> THEN {} ELSE NoObject
    BY <1>2
  <1>8. ASSUME NEW t \in AllTrials
        PROVE  /\ Worked(t) <=> n[t] > 0
               /\ WorkerManifest(t) # NoObject
               /\ n[t] > 0 => t \in scored /\ execs[t] # <<>> /\ Last(execs[t]) = "ok"
    <2>1. WorkerManifest(t) # NoObject
      <3>1. <<t, "lock">> # <<"nothing", "nothing">> /\ <<t, "lock">> \in WorkerManifest(t)
        BY DEF WorkerManifest
      <3>2. QED
        BY <3>1 DEF NoObject
    <2>2. "checksums" \in TrialFiles
      BY DEF TrialFiles
    <2>3. bucket[<<t, "checksums">>] = IF n[t] > 0 THEN WorkerManifest(t) ELSE NoObject
      BY <1>4, <1>6, <2>2
    <2>4. QED
      BY <1>2, <2>1, <2>3 DEF Worked
  <1>9. ASSUME NEW t \in AllTrials, n[t] > 0, NEW k \in Files(t)
        PROVE  /\ k \in FilesOf(t) /\ k \in TrialFiles
               /\ bucket[<<t, k>>] = TrialContent(t, k)
               /\ TrialContent(t, k) \subseteq Entries
    <2>1. k \in TrialFiles \ {"recovery"} /\ Worked(t)
      BY <1>4, <1>8, <1>9
    <2>2. bucket[<<t, k>>] = TrialContent(t, k)
      BY <1>6, <2>1 DEF TrialContent, TrialFiles
    <2>3. LastExecution(t) \subseteq Entries /\ Executions(t) \subseteq Entries
      BY <1>1, <1>8, <1>9, ExecutionNamesOf
    <2>4. <<t, "lock">> \in Entries /\ <<t, "summary">> \in Entries
      BY DEF Entries, TrialFiles
    <2>5. TrialContent(t, k) \subseteq Entries
      BY <2>1, <2>3, <2>4 DEF TrialContent, TrialFiles, WorkerManifest
    <2>6. QED
      BY <2>1, <2>2, <2>5 DEF FilesOf
  <1>10. TrialsOK
    <2> SUFFICES ASSUME NEW t \in AllTrials, NEW k \in TrialFiles, bucket[<<t, k>>] # NoObject
                 PROVE  /\ t \in scored /\ k \in FilesOf(t)
                        /\ Done(TrialWrite(t, k))
                        /\ Worked(t) => execs[t] # <<>> /\ Last(execs[t]) = "ok"
                        /\ ~ Worked(t) => Recoverable(t)
      BY DEF TrialsOK
    <2>1. k \in Files(t) /\ n[t] > 0
      BY <1>5, <1>6
    <2>2. QED
      BY <1>8, <1>9, <2>1 DEF Done, TrialWrite
  <1>11. \A p \in Path : bucket[p] # NoObject /\ p[1] \notin AllTrials => p = <<"run", "lock">>
    BY <1>7
  <1>12. \A k : <<"run", k>>[1] \notin AllTrials /\ <<"campaign", k>>[1] \notin AllTrials
    BY TrialNames
  <1>13. RunOK
    <2>1. ASSUME NEW k \in RunFiles, bucket[<<"run", k>>] # NoObject
          PROVE  k = "lock" /\ Done(RunWrite(k))
      <3>1. k = "lock"
        BY <1>11, <1>12, <2>1, TrialNames
      <3>2. bucket[<<"run", k>>] = {}
        BY <1>7, <1>12, <3>1, TrialNames DEF RunFiles
      <3>3. QED
        BY <3>1, <3>2 DEF Done, RunWrite, RunContent
    <2>2. QED
      BY <2>1 DEF RunOK
  <1>14. CampaignOK
    <2>1. \A k : <<"campaign", k>> \in Path => bucket[<<"campaign", k>>] = NoObject
      BY <1>7, <1>12
    <2>2. QED
      BY <2>1, TrialNames DEF CampaignOK
  <1>15. OrderOK
    <2> SUFFICES ASSUME NEW p \in Path, bucket[p] # NoObject, NEW r \in Needs(p) PROVE Done(r)
      BY DEF OrderOK
    <2>1. CASE p[1] \notin AllTrials
      <3>1. p = <<"run", "lock">> /\ "run" \notin AllTrials
        BY <1>11, <1>12, <2>1
      <3>2. Needs(p) = {}
        BY <3>1 DEF Needs
      <3>3. QED
        BY <3>2
    <2>2. CASE p[1] \in AllTrials
      <3>1. PICK t \in AllTrials, k \in TrialFiles : p = <<t, k>>
        BY <2>2, TrialNames, PathKinds
      <3>2. k \in Files(t) /\ n[t] > 0 /\ Worked(t)
        BY <1>5, <1>6, <1>8, <3>1
      <3>3. t # "run" /\ t # "campaign"
        BY TrialNames
      <3>4. k = "marker" /\ \E j \in {"lock", "summary", "checksums"} : r = TrialWrite(t, j)
        BY <3>1, <3>2, <3>3 DEF Needs
      <3>5. PICK j \in {"lock", "summary", "checksums"} : r = TrialWrite(t, j)
        BY <3>4
      <3>6. j \in Files(t)
        BY <1>4, <3>2, <3>4, <3>5
      <3>7. QED
        BY <1>9, <3>2, <3>5, <3>6 DEF Done, TrialWrite
    <2>3. QED
      BY <2>1, <2>2
  <1>16. bucket \in [Path -> (SUBSET Entries) \cup {NoObject}] /\ bucket[<<"run", "lock">>] = {}
    <2>1. ASSUME NEW p \in Path PROVE bucket[p] \in (SUBSET Entries) \cup {NoObject}
      <3>1. CASE p[1] \notin AllTrials
        BY <1>7, <3>1
      <3>2. CASE p[1] \in AllTrials
        <4>1. PICK t \in AllTrials, k \in TrialFiles : p = <<t, k>>
          BY <3>2, TrialNames, PathKinds
        <4>2. k \in Files(t) => n[t] > 0 /\ bucket[p] \subseteq Entries
          BY <1>5, <1>9, <4>1
        <4>3. k \notin Files(t) => bucket[p] = NoObject
          BY <1>6, <4>1
        <4>4. QED
          BY <4>2, <4>3
      <3>3. QED
        BY <3>1, <3>2
    <2>2. bucket = [p \in Path |-> bucket[p]]
      BY <1>2
    <2>3. <<"run", "lock">> \in Path
      BY TrialNames DEF RunFiles
    <2>4. QED
      BY <1>7, <1>12, <2>1, <2>2, <2>3
  <1>17. SealingTypes
    <2>1. pass \in [Finalizers -> [at : {"idle", "claim", "put"}, todo : Seq(Steps)]]
      BY <1>1 DEF Idle
    <2>2. faults \in 0..MaxFaults
      BY <1>1, SealingAssumption
    <2>3. QED
      BY <1>1, <1>16, <2>1, <2>2 DEF SealingTypes
  <1>18. ClaimsOK /\ PlansOK /\ PassesAgree
    BY <1>1 DEF ClaimsOK, PlansOK, PlanOK, PassesAgree, Idle
  <1>19. QED
    BY <1>10, <1>13, <1>14, <1>15, <1>17, <1>18 DEF SealingInv

(* A plan whose first write is done goes on with the rest.                  *)
LEMMA PlanTailStays ==
    ASSUME SealingTypes, TrialsOK, NEW w, Grows(w) \/ SameBucket,
           NEW todo \in Seq(Steps), todo # <<>>, PlanOK(todo),
           bucket'[Head(todo)[1]] = Head(todo)[2]
    PROVE  Tail(todo) \in Seq(Steps) /\ PlanOK(Tail(todo))'
  <1> DEFINE s == Tail(todo)
  <1>1. Len(todo) \in Nat /\ Len(todo) > 0 /\ DOMAIN todo = 1..Len(todo) /\ Head(todo) = todo[1]
    OBVIOUS
  <1>2. /\ s \in Seq(Steps) /\ DOMAIN s = 1..(Len(todo) - 1)
        /\ \A i \in 1..(Len(todo) - 1) : s[i] = todo[i + 1]
    BY <1>1
  <1> HIDE DEF s
  <1>3. PlanOK(todo)'
    BY PlansStay
  <1>4. ASSUME NEW i \in DOMAIN s, s[i] # Failure
        PROVE  /\ WriteOK(s[i])'
               /\ \A r \in Needs(s[i][1])' : Done(r)' \/ \E j \in 1..(i - 1) : s[j] = r
    <2>1. i + 1 \in DOMAIN todo /\ s[i] = todo[i + 1] /\ i \in Nat
      BY <1>1, <1>2
    <2>2. /\ WriteOK(todo[i + 1])'
          /\ \A r \in Needs(todo[i + 1][1])' : Done(r)' \/ \E j \in 1..((i + 1) - 1) : todo[j] = r
      BY <1>3, <1>4, <2>1 DEF PlanOK
    <2>3. ASSUME NEW r \in Needs(todo[i + 1][1])' PROVE Done(r)' \/ \E j \in 1..(i - 1) : s[j] = r
      <3>1. CASE \E j \in 1..((i + 1) - 1) : todo[j] = r
        <4>1. PICK j \in 1..i : todo[j] = r
          BY <2>1, <3>1
        <4>2. CASE j = 1
          BY <1>1, <4>1, <4>2 DEF Done
        <4>3. CASE j # 1
          <5>1. j - 1 \in 1..(i - 1) /\ s[j - 1] = todo[(j - 1) + 1] /\ (j - 1) + 1 = j
            BY <1>1, <1>2, <2>1, <4>1, <4>3
          <5>2. QED
            BY <4>1, <5>1
        <4>4. QED
          BY <4>2, <4>3
      <3>2. QED
        BY <2>2, <3>1
    <2>4. QED
      BY <2>1, <2>2, <2>3
  <1>5. PlanOK(s)'
    BY <1>4 DEF PlanOK
  <1>6. QED
    BY <1>2, <1>5 DEF s

(* What a pass is about to write.                                           *)
LEMMA HeadIsWrite ==
    ASSUME SealingTypes, TrialsOK, PlansOK, NEW f \in Finalizers,
           pass[f].todo # <<>>, Head(pass[f].todo) # Failure
    PROVE  LET w == Head(pass[f].todo)
           IN  /\ WriteOK(w) /\ w[1] \in Path /\ w = <<w[1], w[2]>> /\ w[2] # NoObject
               /\ \A r \in Needs(w[1]) : Done(r)
  <1> DEFINE todo == pass[f].todo
  <1>1. todo \in Seq(Steps) /\ todo # <<>>
    BY DEF SealingTypes
  <1>2. PlanOK(todo)
    BY DEF PlansOK
  <1> HIDE DEF todo
  <1>3. 1 \in DOMAIN todo /\ Head(todo) = todo[1] /\ 1..(1 - 1) = {}
    BY <1>1
  <1>4. WriteOK(Head(todo)) /\ \A r \in Needs(Head(todo)[1]) : Done(r)
    BY <1>2, <1>3 DEF PlanOK, todo
  <1>5. QED
    BY <1>4, WritesAreWrites DEF todo

(* Steps that leave the Bucket alone or write one object keep the           *)
(* invariant when they keep the plans and the claims of those who write.    *)
LEMMA StepKeeps ==
    ASSUME SealingInv, NEW w, Grows(w) \/ SameBucket,
           decision' \in Statuses,
           claim' \in [Path -> Finalizers \cup {Nobody, Gone}],
           pass' \in [Finalizers -> [at : {"idle", "claim", "put"}, todo : Seq(Steps)]],
           faults' \in 0..MaxFaults, ClaimsOK', PlansOK',
           conflicts' \subseteq {<<"campaign", "summary">>}
    PROVE  SealingInv'
  <1>1. SealingTypes /\ TrialsOK /\ RunOK /\ CampaignOK /\ OrderOK
    BY DEF SealingInv
  <1>2. /\ bucket' \in [Path -> (SUBSET Entries) \cup {NoObject}]
        /\ bucket'[<<"run", "lock">>] = {}
        /\ TrialsOK' /\ RunOK' /\ CampaignOK' /\ OrderOK'
    BY <1>1, BucketKept
  <1>3. execs' = execs /\ scored' = scored /\ runDone' = runDone
    BY DEF Grows, SameBucket, evidence
  <1>4. conflicts' \subseteq Path
    BY TrialNames
  <1>5. SealingTypes'
    BY <1>1, <1>2, <1>3, <1>4 DEF SealingTypes
  <1>6. QED
    BY <1>2, <1>5 DEF SealingInv, PassesAgree

(* The plans of the passes that do nothing.                                 *)
LEMMA OtherPlans ==
    ASSUME SealingTypes, TrialsOK, PlansOK, NEW w, Grows(w) \/ SameBucket,
           NEW g \in Finalizers, pass'[g].todo = pass[g].todo \/ pass'[g].todo = <<>>
    PROVE  PlanOK(pass[g].todo)'
  <1>1. CASE pass'[g].todo = <<>>
    BY <1>1 DEF PlanOK
  <1>2. CASE pass'[g].todo = pass[g].todo
    <2> DEFINE todo == pass[g].todo
    <2>1. \A x \in Seq(Steps) : PlanOK(x) => PlanOK(x)'
      BY PlansStay
    <2>2. pass[g].todo \in Seq(Steps) /\ PlanOK(pass[g].todo)
      BY DEF SealingTypes, PlansOK
    <2>3. PICK x \in Seq(Steps) : x = pass[g].todo /\ PlanOK(x)
      BY <2>2
    <2>4. PlanOK(x)' /\ x = pass'[g].todo
      BY <1>2, <2>1, <2>3
    <2>5. QED
      BY <2>4 DEF PlanOK
  <1>3. QED
    BY <1>1, <1>2

-----------------------------------------------------------------------------
(* The actions *)

(* A pass plans from its listing.                                           *)
LEMMA BeginKeeps ==
    ASSUME SealingInv, NEW f \in Finalizers, Begin(f)
    PROVE  SealingInv'
  <1>1. /\ SealingTypes /\ TrialsOK /\ OrderOK /\ ClaimsOK /\ PlansOK /\ PassesAgree
        /\ SameBucket /\ decision' = decision /\ claim' = claim /\ conflicts' = conflicts
        /\ faults' = faults
    BY DEF SealingInv, Begin, SameBucket
  <1>2. PICK x \in Seq(Steps) : x = Plan(bucket, decision) /\ PlanOK(x)
    BY <1>1, PlanIsMade DEF SealingTypes
  <1>3. pass' = [pass EXCEPT ![f] = [at |-> "claim", todo |-> x]]
    BY <1>2 DEF Begin
  <1>4. pass' \in [Finalizers -> [at : {"idle", "claim", "put"}, todo : Seq(Steps)]]
    BY <1>1, <1>3 DEF SealingTypes
  <1>5. pass'[f].todo = x /\ pass'[f].at = "claim" /\ \A g \in Finalizers \ {f} : pass'[g] = pass[g]
    BY <1>1, <1>3 DEF SealingTypes
  <1>6. PlanOK(x)'
    BY <1>1, <1>2, PlansStay
  <1>7. PlansOK'
    <2>1. PlanOK(pass[f].todo)'
      BY <1>5, <1>6 DEF PlanOK
    <2>2. \A g \in Finalizers \ {f} : PlanOK(pass[g].todo)'
      BY <1>1, <1>5, OtherPlans
    <2>3. QED
      BY <2>1, <2>2 DEF PlansOK
  <1>8. ClaimsOK'
    BY <1>1, <1>5 DEF ClaimsOK, SameBucket
  <1>9. QED
    BY <1>1, <1>4, <1>7, <1>8, StepKeeps DEF SealingTypes, PassesAgree

(* A pass that ends has nothing to write.                                   *)
LEMMA EndKeeps ==
    ASSUME SealingInv, NEW f \in Finalizers, End(f), SameBucket, decision' = decision,
           claim' \in [Path -> Finalizers \cup {Nobody, Gone}],
           \A p \in Path : claim[p] \in Finalizers \ {f} => claim'[p] = claim[p],
           conflicts' \subseteq {<<"campaign", "summary">>}, faults' \in 0..MaxFaults
    PROVE  SealingInv'
  <1>1. SealingTypes /\ TrialsOK /\ ClaimsOK /\ PlansOK
    BY DEF SealingInv
  <1>2. /\ pass' \in [Finalizers -> [at : {"idle", "claim", "put"}, todo : Seq(Steps)]]
        /\ pass'[f].todo = <<>> /\ pass'[f].at = "idle"
        /\ \A g \in Finalizers \ {f} : pass'[g] = pass[g]
    BY <1>1 DEF End, Idle, SealingTypes
  <1>3. PlansOK'
    BY <1>1, <1>2, OtherPlans DEF PlansOK
  <1>4. ClaimsOK'
    <2>1. ASSUME NEW g \in Finalizers, pass'[g].at = "put"
          PROVE  /\ g # f /\ pass'[g] = pass[g] /\ pass[g].todo # <<>>
                 /\ Head(pass[g].todo) # Failure
                 /\ claim'[Head(pass[g].todo)[1]] = g /\ bucket'[Head(pass[g].todo)[1]] = NoObject
      <3>1. g # f /\ pass'[g] = pass[g]
        BY <1>2, <2>1
      <3>2. /\ pass[g].todo # <<>> /\ Head(pass[g].todo) # Failure
            /\ claim[Head(pass[g].todo)[1]] = g /\ bucket[Head(pass[g].todo)[1]] = NoObject
        BY <1>1, <2>1, <3>1 DEF ClaimsOK
      <3>3. Head(pass[g].todo)[1] \in Path
        BY <1>1, <3>2, HeadIsWrite
      <3>4. QED
        BY <3>1, <3>2, <3>3 DEF SameBucket
    <2>2. QED
      BY <2>1 DEF ClaimsOK
  <1>5. QED
    BY <1>1, <1>2, <1>3, <1>4, StepKeeps DEF SealingTypes

(* Two passes write the same object with the same content, the campaign's   *)
(* summary apart.                                                           *)
LEMMA ContentIsFixed ==
    ASSUME SealingTypes, TrialsOK, RunOK, CampaignOK, NEW w, WriteOK(w),
           w[1] \in Path, w = <<w[1], w[2]>>, bucket[w[1]] \notin {NoObject, w[2]}
    PROVE  w[1] = <<"campaign", "summary">>
  <1>1. CASE \E t \in AllTrials, k \in TrialFiles : w[1] = <<t, k>>
    <2>1. PICK t \in AllTrials, k \in TrialFiles : w[1] = <<t, k>>
      BY <1>1
    <2>2. w = TrialWrite(t, k)
      BY <2>1, WriteKinds
    <2>3. Done(TrialWrite(t, k))
      BY <2>1 DEF TrialsOK
    <2>4. QED
      BY <2>2, <2>3 DEF Done
  <1>2. CASE \E k \in RunFiles : w[1] = <<"run", k>>
    <2>1. PICK k \in RunFiles : w[1] = <<"run", k>>
      BY <1>2
    <2>2. w = RunWrite(k)
      BY <2>1, WriteKinds
    <2>3. Done(RunWrite(k))
      BY <2>1 DEF RunOK
    <2>4. QED
      BY <2>2, <2>3 DEF Done
  <1>3. CASE \E s \in Statuses : w[1] = <<"campaign", s>>
    <2>1. PICK s \in Statuses : w[1] = <<"campaign", s>>
      BY <1>3
    <2>2. w[2] = {}
      BY <2>1, WriteKinds
    <2>3. bucket[w[1]] \in {NoObject, {}}
      BY <2>1 DEF CampaignOK
    <2>4. QED
      BY <2>2, <2>3
  <1>4. QED
    BY <1>1, <1>2, <1>3, PathKinds

(* A pass looks an object up under its claim.                               *)
LEMMA LookKeeps ==
    ASSUME SealingInv, NEW f \in Finalizers, Look(f)
    PROVE  SealingInv'
  <1> DEFINE todo == pass[f].todo
             p == Head(todo)[1]
  <1>1. /\ SealingTypes /\ TrialsOK /\ RunOK /\ CampaignOK /\ OrderOK /\ ClaimsOK /\ PlansOK
        /\ PassesAgree
    BY DEF SealingInv
  <1>2. /\ SameBucket /\ decision' = decision /\ faults' = faults
        /\ pass[f].at = "claim" /\ todo # <<>> /\ Head(todo) # Failure
    BY DEF Look, SameBucket
  <1>3. /\ WriteOK(Head(todo)) /\ p \in Path /\ Head(todo) = <<p, Head(todo)[2]>>
    BY <1>1, <1>2, HeadIsWrite
  <1>4. faults' \in 0..MaxFaults /\ conflicts \subseteq {<<"campaign", "summary">>}
        /\ claim \in [Path -> Finalizers \cup {Nobody, Gone}]
    BY <1>1, <1>2 DEF SealingTypes, PassesAgree
  <1>5. CASE End(f) /\ claim' = claim /\ conflicts' = conflicts
    BY <1>2, <1>4, <1>5, EndKeeps
  <1>6. CASE /\ End(f) /\ claim' = claim /\ conflicts' = conflicts \cup {p}
             /\ bucket[p] \notin {NoObject, Head(todo)[2]}
    <2>1. p = <<"campaign", "summary">>
      <3> DEFINE w == Head(todo)
      <3>1. /\ WriteOK(w) /\ w[1] \in Path /\ w = <<w[1], w[2]>>
            /\ bucket[w[1]] \notin {NoObject, w[2]}
        BY <1>3, <1>6
      <3> HIDE DEF w
      <3>2. w[1] = <<"campaign", "summary">>
        BY <1>1, <3>1, ContentIsFixed
      <3>3. QED
        BY <3>2 DEF w
    <2>2. conflicts' \subseteq {<<"campaign", "summary">>}
      BY <1>4, <1>6, <2>1
    <2>3. QED
      BY <1>2, <1>4, <1>6, <2>2, EndKeeps
  <1>7. CASE /\ claim[p] = Nobody /\ bucket[p] = NoObject
             /\ claim' = [claim EXCEPT ![p] = f]
             /\ pass' = [pass EXCEPT ![f].at = "put"]
             /\ conflicts' = conflicts
    <2>1. /\ pass' \in [Finalizers -> [at : {"idle", "claim", "put"}, todo : Seq(Steps)]]
          /\ pass'[f].todo = todo /\ \A g \in Finalizers : pass'[g].todo = pass[g].todo
          /\ \A g \in Finalizers \ {f} : pass'[g] = pass[g]
      BY <1>1, <1>7 DEF SealingTypes
    <2>2. /\ claim' \in [Path -> Finalizers \cup {Nobody, Gone}]
          /\ claim'[p] = f /\ \A q \in Path \ {p} : claim'[q] = claim[q]
      BY <1>3, <1>4, <1>7
    <2>3. PlansOK'
      BY <1>1, <1>2, <2>1, OtherPlans DEF PlansOK
    <2>4. ClaimsOK'
      <3>1. ASSUME NEW g \in Finalizers, pass'[g].at = "put"
            PROVE  /\ pass[g].todo # <<>> /\ Head(pass[g].todo) # Failure
                   /\ claim'[Head(pass[g].todo)[1]] = g
                   /\ bucket'[Head(pass[g].todo)[1]] = NoObject
        <4>1. CASE g = f
          BY <1>2, <1>7, <2>2, <4>1 DEF SameBucket
        <4>2. CASE g # f
          <5>1. /\ pass[g].todo # <<>> /\ Head(pass[g].todo) # Failure
                /\ claim[Head(pass[g].todo)[1]] = g /\ bucket[Head(pass[g].todo)[1]] = NoObject
            BY <1>1, <2>1, <3>1, <4>2 DEF ClaimsOK
          <5>2. Head(pass[g].todo)[1] \in Path
            BY <1>1, <5>1, HeadIsWrite
          <5>3. Head(pass[g].todo)[1] # p
            BY <1>7, <5>1, SealingAssumption
          <5>4. QED
            BY <1>2, <2>2, <5>1, <5>2, <5>3 DEF SameBucket
        <4>3. QED
          BY <4>1, <4>2
      <3>2. QED
        BY <2>1, <3>1 DEF ClaimsOK
    <2>5. QED
      BY <1>1, <1>2, <1>4, <1>7, <2>1, <2>2, <2>3, <2>4, StepKeeps DEF SealingTypes
  <1>8. CASE /\ bucket[p] = Head(todo)[2] /\ claim' = claim /\ conflicts' = conflicts
             /\ pass' = [pass EXCEPT ![f].todo = Tail(todo)]
    <2>1. todo \in Seq(Steps) /\ PlanOK(todo)
      BY <1>1 DEF SealingTypes, PlansOK
    <2>2. PICK x \in Seq(Steps) : x = todo /\ PlanOK(x)
      BY <2>1
    <2>3. bucket'[Head(x)[1]] = Head(x)[2] /\ x # <<>>
      BY <1>2, <1>8, <2>2 DEF SameBucket
    <2>4. Tail(x) \in Seq(Steps) /\ PlanOK(Tail(x))'
      BY <1>1, <1>2, <2>2, <2>3, PlanTailStays
    <2>5. /\ pass' \in [Finalizers -> [at : {"idle", "claim", "put"}, todo : Seq(Steps)]]
          /\ pass'[f].todo = Tail(x) /\ pass'[f].at = "claim"
          /\ \A g \in Finalizers \ {f} : pass'[g] = pass[g]
      BY <1>1, <1>2, <1>8, <2>2, <2>4 DEF SealingTypes
    <2>6. PlansOK'
      <3>1. PlanOK(pass[f].todo)'
        BY <2>4, <2>5 DEF PlanOK
      <3>2. \A g \in Finalizers \ {f} : PlanOK(pass[g].todo)'
        BY <1>1, <1>2, <2>5, OtherPlans
      <3>3. QED
        BY <3>1, <3>2 DEF PlansOK
    <2>7. ClaimsOK'
      BY <1>1, <1>2, <1>8, <2>5 DEF ClaimsOK, SameBucket
    <2>8. QED
      BY <1>1, <1>2, <1>4, <1>8, <2>5, <2>6, <2>7, StepKeeps DEF SealingTypes
  <1>9. QED
    BY <1>5, <1>6, <1>7, <1>8 DEF Look, Claimable

(* A pass uploads the object it holds the claim of.                         *)
LEMMA PutKeeps ==
    ASSUME SealingInv, NEW f \in Finalizers, Put(f)
    PROVE  SealingInv'
  <1>1. /\ SealingTypes /\ TrialsOK /\ OrderOK /\ ClaimsOK /\ PlansOK /\ PassesAgree
    BY DEF SealingInv
  <1>2. PICK x \in Seq(Steps) : x = pass[f].todo /\ PlanOK(x)
    BY <1>1 DEF SealingTypes, PlansOK
  <1>3. PICK w : w = Head(x)
    OBVIOUS
  <1>4. x # <<>> /\ w # Failure /\ claim[w[1]] = f /\ bucket[w[1]] = NoObject
    BY <1>1, <1>2, <1>3 DEF Put, ClaimsOK
  <1>5. /\ WriteOK(w) /\ w[1] \in Path /\ w = <<w[1], w[2]>> /\ \A r \in Needs(w[1]) : Done(r)
    BY <1>1, <1>2, <1>3, <1>4, HeadIsWrite
  <1>6. /\ UNCHANGED evidence /\ bucket' = [bucket EXCEPT ![w[1]] = w[2]]
        /\ claim' = [claim EXCEPT ![w[1]] = IF @ = f THEN Nobody ELSE @]
        /\ pass' = [pass EXCEPT ![f] = [at |-> "claim", todo |-> Tail(x)]]
        /\ decision' = decision /\ conflicts' = conflicts /\ faults' = faults
    BY <1>1, <1>2, <1>3 DEF Put, SealingTypes
  <1>7. Grows(w)
    BY <1>4, <1>5, <1>6 DEF Grows
  <1>8. /\ bucket'[w[1]] = w[2] /\ \A q \in Path \ {w[1]} : bucket'[q] = bucket[q]
        /\ claim' \in [Path -> Finalizers \cup {Nobody, Gone}]
        /\ \A q \in Path \ {w[1]} : claim'[q] = claim[q]
    BY <1>1, <1>5, <1>6 DEF SealingTypes
  <1>9. Tail(x) \in Seq(Steps) /\ PlanOK(Tail(x))'
    BY <1>1, <1>2, <1>3, <1>4, <1>7, <1>8, PlanTailStays
  <1>10. /\ pass' \in [Finalizers -> [at : {"idle", "claim", "put"}, todo : Seq(Steps)]]
         /\ pass'[f].todo = Tail(x) /\ pass'[f].at = "claim"
         /\ \A g \in Finalizers \ {f} : pass'[g] = pass[g]
    BY <1>1, <1>6, <1>9 DEF SealingTypes
  <1>11. PlansOK'
    <2>1. PlanOK(pass[f].todo)'
      BY <1>9, <1>10 DEF PlanOK
    <2>2. \A g \in Finalizers \ {f} : PlanOK(pass[g].todo)'
      BY <1>1, <1>7, <1>10, OtherPlans
    <2>3. QED
      BY <2>1, <2>2 DEF PlansOK
  <1>12. ClaimsOK'
    <2>1. ASSUME NEW g \in Finalizers, pass'[g].at = "put"
          PROVE  /\ pass'[g].todo = pass[g].todo
                 /\ pass[g].todo # <<>> /\ Head(pass[g].todo) # Failure
                 /\ claim'[Head(pass[g].todo)[1]] = g
                 /\ bucket'[Head(pass[g].todo)[1]] = NoObject
      <3>1. g # f /\ pass'[g] = pass[g]
        BY <1>10, <2>1
      <3>2. /\ pass[g].todo # <<>> /\ Head(pass[g].todo) # Failure
            /\ claim[Head(pass[g].todo)[1]] = g /\ bucket[Head(pass[g].todo)[1]] = NoObject
        BY <1>1, <2>1, <3>1 DEF ClaimsOK
      <3>3. Head(pass[g].todo)[1] \in Path
        BY <1>1, <3>2, HeadIsWrite
      <3>4. Head(pass[g].todo)[1] # w[1]
        BY <1>4, <3>1, <3>2
      <3>5. QED
        BY <1>8, <3>1, <3>2, <3>3, <3>4
    <2>2. QED
      BY <2>1 DEF ClaimsOK
  <1>13. QED
    BY <1>1, <1>6, <1>7, <1>8, <1>10, <1>11, <1>12, StepKeeps DEF SealingTypes, PassesAgree

(* The steps of no pass in particular change neither the Bucket nor a plan, *)
(* nor the claim of a pass.                                                 *)
LEMMA RestKeeps ==
    ASSUME SealingInv, ExpireClaims \/ Cancel \/ UNCHANGED sealingVars
    PROVE  SealingInv'
  <1>1. SealingTypes /\ TrialsOK /\ ClaimsOK /\ PlansOK /\ PassesAgree
    BY DEF SealingInv
  <1>2. /\ SameBucket /\ pass' = pass /\ conflicts' = conflicts /\ faults' = faults
        /\ decision' \in Statuses
    BY <1>1 DEF ExpireClaims, Cancel, sealingVars, SameBucket, evidence, Statuses, SealingTypes
  <1>3. /\ claim' \in [Path -> Finalizers \cup {Nobody, Gone}]
        /\ \A p \in Path : claim[p] \in Finalizers => claim'[p] = claim[p]
    BY <1>1, SealingAssumption DEF ExpireClaims, Cancel, sealingVars, SealingTypes
  <1>4. PlansOK'
    BY <1>1, <1>2, OtherPlans DEF PlansOK
  <1>5. ClaimsOK'
    <2>1. ASSUME NEW g \in Finalizers, pass[g].at = "put"
          PROVE  /\ pass[g].todo # <<>> /\ Head(pass[g].todo) # Failure
                 /\ claim'[Head(pass[g].todo)[1]] = g
                 /\ bucket'[Head(pass[g].todo)[1]] = NoObject
      <3>1. /\ pass[g].todo # <<>> /\ Head(pass[g].todo) # Failure
            /\ claim[Head(pass[g].todo)[1]] = g /\ bucket[Head(pass[g].todo)[1]] = NoObject
        BY <1>1, <2>1 DEF ClaimsOK
      <3>2. Head(pass[g].todo)[1] \in Path
        BY <1>1, <3>1, HeadIsWrite
      <3>3. QED
        BY <1>2, <1>3, <3>1, <3>2 DEF SameBucket
    <2>2. QED
      BY <1>2, <2>1 DEF ClaimsOK
  <1>6. QED
    BY <1>1, <1>2, <1>3, <1>4, <1>5, StepKeeps DEF SealingTypes, PassesAgree

(* Every step of the passes, crashes and late cancellations included, keeps *)
(* the invariant.                                                           *)
LEMMA SealingKeeps ==
    ASSUME SealingInv, [SealingNext]_sealingVars
    PROVE  SealingInv'
  <1>1. ASSUME NEW f \in Finalizers, Return(f) PROVE SealingInv'
    BY <1>1, EndKeeps DEF Return, SameBucket, SealingInv, SealingTypes, PassesAgree
  <1>2. ASSUME NEW f \in Finalizers, Crash(f) PROVE SealingInv'
    <2>1. SameBucket /\ End(f) /\ decision' = decision /\ conflicts' = conflicts
      BY <1>2 DEF Crash, SameBucket
    <2>2. faults' \in 0..MaxFaults
      BY <1>2, SealingAssumption DEF Crash, SealingInv, SealingTypes
    <2>3. /\ claim' \in [Path -> Finalizers \cup {Nobody, Gone}]
          /\ \A p \in Path : claim[p] \in Finalizers \ {f} => claim'[p] = claim[p]
      BY <1>2 DEF Crash, SealingInv, SealingTypes
    <2>4. QED
      BY <2>1, <2>2, <2>3, EndKeeps DEF SealingInv, PassesAgree
  <1>3. QED
    BY <1>1, <1>2, BeginKeeps, LookKeeps, PutKeeps, RestKeeps DEF SealingNext

-----------------------------------------------------------------------------
(* What the marker of a run vouches for *)

(* Behind the run's marker every scored trial has all its files, and the    *)
(* run its own.                                                             *)
LEMMA SealedIsWhole ==
    ASSUME SealingInv, bucket[<<"run", "marker">>] # NoObject
    PROVE  /\ Judged
           /\ \A k \in RunFiles : bucket[<<"run", k>>] = RunContent(k)
           /\ \A t \in scored : \A k \in FilesOf(t) : bucket[<<t, k>>] = TrialContent(t, k)
  <1>1. SealingTypes /\ TrialsOK /\ RunOK /\ OrderOK /\ scored \subseteq AllTrials
    BY DEF SealingInv, SealingTypes
  <1>2. "run" \notin AllTrials /\ \A k \in RunFiles : <<"run", k>> \in Path
    BY TrialNames
  <1>3. Judged /\ \A k \in RunFiles : RunContent(k) # NoObject
    BY <1>1, ContentsAreThere DEF RunOK, RunFiles
  <1>4. bucket[<<"run", "marker">>] = RunContent("marker")
    BY <1>1 DEF RunOK, RunFiles, Done, RunWrite
  <1>5. bucket[<<"run", "checksums">>] = RunContent("checksums")
    <2>1. RunWrite("checksums") \in Needs(<<"run", "marker">>)
      BY <1>2 DEF Needs
    <2>2. QED
      BY <1>1, <1>2, <2>1 DEF OrderOK, RunFiles, Done, RunWrite
  <1>6. ASSUME NEW k \in {"verification", "summary", "envelope"}
        PROVE  bucket[<<"run", k>>] = RunContent(k)
    <2>1. RunWrite(k) \in Needs(<<"run", "checksums">>)
      BY <1>2 DEF Needs
    <2>2. <<"run", "checksums">> \in Path /\ bucket[<<"run", "checksums">>] # NoObject
      BY <1>2, <1>3, <1>5 DEF RunFiles
    <2>3. QED
      BY <1>1, <2>1, <2>2 DEF OrderOK, Done, RunWrite
  <1>7. bucket[<<"run", "lock">>] = RunContent("lock")
    BY <1>1 DEF SealingTypes, RunContent
  <1>8. ASSUME NEW t \in scored, NEW k \in FilesOf(t)
        PROVE  bucket[<<t, k>>] = TrialContent(t, k)
    <2>1. t \in AllTrials /\ k \in TrialFiles /\ t # "run" /\ t # "campaign"
      BY <1>1, <1>2, TrialNames DEF FilesOf
    <2>2. \A j \in TrialFiles : <<t, j>> \in Path /\ TrialContent(t, j) # NoObject
      BY <2>1, TrialNames, ContentsAreThere
    <2>3. bucket[<<t, "marker">>] = TrialContent(t, "marker")
      <3>1. TrialWrite(t, "marker") \in Needs(<<"run", "envelope">>)
        BY <1>2 DEF Needs
      <3>2. <<"run", "envelope">> \in Path /\ bucket[<<"run", "envelope">>] # NoObject
        BY <1>2, <1>3, <1>6 DEF RunFiles
      <3>3. QED
        BY <1>1, <3>1, <3>2 DEF OrderOK, Done, TrialWrite
    <2>4. \A j \in {"lock", "summary", "checksums"} : bucket[<<t, j>>] = TrialContent(t, j)
      <3>1. \A j \in {"lock", "summary", "checksums"} : TrialWrite(t, j) \in Needs(<<t, "marker">>)
        BY <2>1 DEF Needs
      <3>2. <<t, "marker">> \in Path /\ bucket[<<t, "marker">>] # NoObject
        BY <2>2, <2>3 DEF TrialFiles
      <3>3. QED
        BY <1>1, <3>1, <3>2 DEF OrderOK, Done, TrialWrite
    <2>5. ~ Worked(t) => bucket[<<t, "recovery">>] = TrialContent(t, "recovery")
      <3>1. ~ Worked(t) => TrialWrite(t, "recovery") \in Needs(<<t, "checksums">>)
        BY <2>1 DEF Needs
      <3>2. <<t, "checksums">> \in Path /\ bucket[<<t, "checksums">>] # NoObject
        BY <2>2, <2>4 DEF TrialFiles
      <3>3. QED
        BY <1>1, <3>1, <3>2 DEF OrderOK, Done, TrialWrite
    <2>6. QED
      BY <2>1, <2>3, <2>4, <2>5 DEF FilesOf, TrialFiles
  <1>9. QED
    BY <1>3, <1>4, <1>5, <1>6, <1>7, <1>8 DEF RunFiles

(* In a whole run each trial's manifest covers the trial and its score is a *)
(* successful execution's.                                                  *)
LEMMA WholeTrials ==
    ASSUME SealingInv, bucket[<<"run", "marker">>] # NoObject, NEW t \in scored
    PROVE  /\ bucket[<<t, "checksums">>] = TrialManifest(bucket, t)
           /\ bucket[<<t, "summary">>] \subseteq Ending(t, "ok")
           /\ bucket[<<t, "summary">>] \subseteq Executions(t)
           /\ bucket[<<t, "summary">>] # {}
  <1>1. SealingTypes /\ TrialsOK /\ t \in AllTrials /\ execs[t] # <<>>
    BY SealedIsWhole DEF SealingInv, SealingTypes, Judged
  <1>2. \A k \in FilesOf(t) : bucket[<<t, k>>] = TrialContent(t, k)
    BY SealedIsWhole
  <1>3. {"lock", "summary", "checksums", "marker"} \subseteq FilesOf(t)
    BY DEF FilesOf, TrialFiles
  <1>4. \A k \in TrialFiles : TrialContent(t, k) # NoObject /\ <<t, k>> \in Path
    BY <1>1, ContentsAreThere, TrialNames
  <1>5. LastExecution(t) # {}
    BY DEF LastExecution
  <1>6. CASE Worked(t)
    <2>1. Last(execs[t]) = "ok" /\ "recovery" \notin FilesOf(t)
      <3>1. bucket[<<t, "marker">>] # NoObject
        BY <1>2, <1>3, <1>4 DEF TrialFiles
      <3>2. QED
        BY <1>1, <1>6, <3>1 DEF TrialsOK, TrialFiles, FilesOf
    <2>2. TrialManifest(bucket, t) = Executions(t) \cup {<<t, k>> : k \in {"lock", "summary"}}
      <3>1. bucket[<<t, "recovery">>] = NoObject
        BY <1>1, <2>1 DEF TrialsOK, TrialFiles
      <3>2. \A k \in {"lock", "summary"} : bucket[<<t, k>>] # NoObject
        BY <1>2, <1>3, <1>4 DEF TrialFiles
      <3>3. QED
        BY <1>1, <3>1, <3>2, ManifestLists
    <2>3. bucket[<<t, "checksums">>] = TrialManifest(bucket, t)
      BY <1>6, <2>2 DEF Worked, WorkerManifest
    <2>4. bucket[<<t, "summary">>] = LastExecution(t)
      BY <1>2, <1>3, <1>6 DEF TrialContent
    <2>5. LastExecution(t) \subseteq Ending(t, "ok") /\ LastExecution(t) \subseteq Executions(t)
      BY <1>1, <2>1, ExecutionNames
    <2>6. QED
      BY <1>5, <2>3, <2>4, <2>5
  <1>7. CASE ~ Worked(t)
    <2>1. FilesOf(t) = TrialFiles /\ Recoverable(t)
      BY <1>1, <1>7, SealedIsWhole DEF FilesOf, Judged
    <2>2. TrialManifest(bucket, t) = RecoveredManifest(t)
      BY <1>1, <1>2, <1>4, <2>1, ManifestIsComplete DEF TrialFiles
    <2>3. /\ bucket[<<t, "checksums">>] = RecoveredManifest(t)
          /\ bucket[<<t, "summary">>] = Ending(t, "ok")
      BY <1>2, <1>3, <1>7 DEF TrialContent
    <2>4. Ending(t, "ok") # {}
      <3>1. Cardinality({}) = 0
        BY FS_EmptySet
      <3>2. QED
        BY <2>1, <3>1 DEF Recoverable
    <2>5. QED
      BY <1>1, <2>2, <2>3, <2>4, ExecutionNames
  <1>8. QED
    BY <1>6, <1>7

(* What the publisher demands holds behind the marker.                      *)
LEMMA SealedPublishes == SealingInv => SealedIsPublishable
  <1> SUFFICES ASSUME SealingInv, bucket[<<"run", "marker">>] # NoObject PROVE Publishable
    BY DEF SealedIsPublishable
  <1>1. SealingTypes /\ TrialsOK /\ scored \subseteq AllTrials
    BY DEF SealingInv, SealingTypes
  <1>2. /\ Judged
        /\ \A k \in RunFiles : bucket[<<"run", k>>] = RunContent(k)
        /\ \A t \in scored : \A k \in FilesOf(t) : bucket[<<t, k>>] = TrialContent(t, k)
    BY SealedIsWhole
  <1>3. /\ \A k \in RunFiles : RunContent(k) # NoObject /\ <<"run", k>> \in Path
        /\ \A t \in AllTrials, k \in TrialFiles : TrialContent(t, k) # NoObject
        /\ \A t \in AllTrials : t # "quality"
    BY <1>1, ContentsAreThere, TrialNames
  <1>4. ManifestVerified
    <2>1. \A k \in RunFiles : <<"run", k>> \in Listed(bucket)
      BY <1>2, <1>3 DEF Listed
    <2>2. \A k \in {"lock", "verification", "summary", "envelope"} :
            bucket[<<"run", k>>] # NoObject
      BY <1>2, <1>3 DEF RunFiles
    <2>3. \A t \in AllTrials, k \in TrialFiles :
            bucket[<<t, k>>] # NoObject <=> t \in scored /\ k \in FilesOf(t)
      BY <1>1, <1>2, <1>3 DEF TrialsOK
    <2>4. RunManifest(bucket) = RunCovers
      BY <1>1, <2>2, <2>3, RunManifestCovers
    <2>5. QED
      BY <1>2, <2>1, <2>4 DEF ManifestVerified, RunFiles, RunContent
  <1>5. ASSUME NEW t \in AllTrials
        PROVE  /\ t \in scored => TrialContent(t, "summary") = bucket[<<t, "summary">>]
               /\ t \notin scored => LastExecution(t) \subseteq Executions(t)
               /\ t \in scored => TrialContent(t, "summary") \subseteq Executions(t)
               /\ t \in scored => TrialContent(t, "summary") # {}
               /\ LastExecution(t) # {}
    <2>1. t \in scored => TrialContent(t, "summary") = bucket[<<t, "summary">>]
      BY <1>2 DEF FilesOf, TrialFiles
    <2>2. execs[t] # <<>>
      BY <1>2 DEF Judged
    <2>3. LastExecution(t) \subseteq Executions(t) /\ LastExecution(t) # {}
      BY <1>1, <2>2, ExecutionNames DEF LastExecution
    <2>4. QED
      BY <2>1, <2>3, WholeTrials
  <1>6. RunSelected = Selected(bucket)
    <2>1. \A t \in AllTrials :
            (IF t \in scored THEN bucket[<<t, "summary">>] ELSE {<<t, ExecNames[Len(execs[t])]>>})
             = IF t \in scored THEN TrialContent(t, "summary") ELSE LastExecution(t)
      BY <1>5 DEF LastExecution
    <2>2. QED
      BY <2>1 DEF Selected, RunSelected
  <1>7. RunSelected \subseteq AllExecutions
    <2>1. \A t \in AllTrials :
            (IF t \in scored THEN TrialContent(t, "summary") ELSE LastExecution(t))
              \subseteq Executions(t)
      BY <1>5
    <2>2. QED
      BY <2>1 DEF RunSelected, AllExecutions
  <1>8. \A e \in AllExecutions : \E t \in AllTrials : e \in Executions(t) /\ e[1] = t
    BY <1>1, ExecutionNames DEF AllExecutions
  <1>9. PICK q :
          bucket[<<"run", "summary">>] = RunSelected \cup AllExecutions \cup {<<"quality", q>>}
    BY <1>2 DEF RunFiles, RunContent
  <1>10. bucket[<<"run", "envelope">>] = AllExecutions /\ bucket[<<"run", "checksums">>] = RunCovers
    BY <1>2 DEF RunFiles, RunContent
  <1>11. TasksMatchLock
    <2>1. ASSUME NEW t \in AllTrials PROVE \E e \in bucket[<<"run", "summary">>] : e[1] = t
      <3>1. PICK e : e \in IF t \in scored THEN TrialContent(t, "summary") ELSE LastExecution(t)
        BY <1>5
      <3>2. e \in RunSelected
        BY <3>1 DEF RunSelected
      <3>3. e \in Executions(t)
        BY <1>5, <3>1
      <3>4. e[1] = t
        BY <1>1, <3>3, ExecutionNames
      <3>5. QED
        BY <1>9, <3>2, <3>4
    <2>2. QED
      BY <2>1 DEF TasksMatchLock
  <1>12. EnvelopeMatches
    <2>1. ASSUME NEW e \in bucket[<<"run", "summary">>]
          PROVE  e[1] \in AllTrials <=> e \in AllExecutions
      <3>1. CASE e \in AllExecutions
        BY <1>8, <3>1
      <3>2. CASE e = <<"quality", q>>
        <4>1. e[1] = "quality" /\ "quality" \notin AllTrials
          BY <1>3, <3>2
        <4>2. QED
          BY <1>8, <4>1
      <3>3. QED
        BY <1>7, <1>9, <3>1, <3>2
    <2>2. AllExecutions \subseteq bucket[<<"run", "summary">>] /\ AllExecutions \subseteq RunCovers
      BY <1>9 DEF RunCovers
    <2>3. QED
      BY <1>10, <2>1, <2>2 DEF EnvelopeMatches
  <1>13. bucket[<<"run", "verification">>] = Selected(bucket)
    BY <1>2, <1>6 DEF RunFiles, RunContent
  <1>14. \A t \in AllTrials : Ending(t, "none") = {}
    BY <1>2 DEF Judged
  <1>15. QED
    BY <1>4, <1>11, <1>12, <1>13, <1>14, WholeTrials DEF Publishable

(* Two terminal markers would need two summaries.                           *)
LEMMA MarkersAgree == SealingInv => OneTerminalMarker
  <1> SUFFICES ASSUME SealingInv, NEW s \in Statuses, NEW r \in Statuses,
                      bucket[<<"campaign", s>>] # NoObject, bucket[<<"campaign", r>>] # NoObject
               PROVE  s = r
    BY DEF OneTerminalMarker
  <1>1. \A d \in Statuses : <<"campaign", d>> \in Path /\ "campaign" \notin AllTrials
    BY TrialNames
  <1>2. \A d \in Statuses :
          << <<"campaign", "summary">>, {<<"campaign", d>>} >> \in Needs(<<"campaign", d>>)
    BY <1>1 DEF Needs, Statuses
  <1>3. /\ bucket[<<"campaign", "summary">>] = {<<"campaign", s>>}
        /\ bucket[<<"campaign", "summary">>] = {<<"campaign", r>>}
    BY <1>1, <1>2 DEF SealingInv, OrderOK, Done
  <1>4. QED
    BY <1>3

-----------------------------------------------------------------------------
(* Theorems *)

(* The inductive invariant of the passes: an object that is there has the   *)
(* one content the evidence gives it and came after what it needs, a pass   *)
(* plans only such writes in that order, and one that uploads holds the     *)
(* claim of a path where nothing is.                                        *)
THEOREM SealingInvariance == SealingSpec => []SealingInv
  <1>1. SealingInit => SealingInv
    BY SealingStarts
  <1>2. SealingInv /\ [SealingNext]_sealingVars => SealingInv'
    BY SealingKeeps
  <1>3. QED
    BY <1>1, <1>2, PTL DEF SealingSpec

(* The state of the passes keeps its shape.                                 *)
THEOREM SealingTyped == SealingSpec => []TypeOK
  <1>1. SealingInv => TypeOK
    BY DEF SealingInv, SealingTypes, TypeOK
  <1>2. QED
    BY <1>1, SealingInvariance, PTL

(* A finalisation pass never meets other bytes under the run, wherever an   *)
(* earlier pass stopped and however passes overlap; only the campaign's     *)
(* summary, which names the decision, can disagree.                         *)
THEOREM PassesNeverDisagree == SealingSpec => []PassesAgree
  <1>1. SealingInv => PassesAgree
    BY DEF SealingInv
  <1>2. QED
    BY <1>1, SealingInvariance, PTL

(* Evidence that carries the run's marker passes the publisher's            *)
(* verification from then on: manifest, tasks, envelope, selection and the  *)
(* trials' own manifests.                                                   *)
THEOREM SealedRunsArePublishable == SealingSpec => []SealedIsPublishable
  BY SealingInvariance, SealedPublishes, PTL

(* A campaign carries one terminal marker, whatever decisions overlapping   *)
(* passes were given.                                                       *)
THEOREM OneMarkerOnly == SealingSpec => []OneTerminalMarker
  BY SealingInvariance, MarkersAgree, PTL
================================================================================
