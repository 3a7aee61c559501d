------------------------------ MODULE RunSealing ------------------------------
(***************************************************************************)
(* The finalisation of a campaign's evidence in the Bucket                 *)
(* (campaign_finalizer.py, bucket_evidence.py): interrupted trials are     *)
(* completed, the run gets its verification, summary, envelope, checksum   *)
(* manifest and marker, and the campaign its summary and terminal marker.  *)
(*                                                                         *)
(* A pass lists the Bucket once, derives everything it writes from that    *)
(* listing and writes one object after the other, each under a claim of    *)
(* its own.  An object that exists must have the very same bytes.  Passes  *)
(* crash, are repeated and overlap; the Bucket has no conditional write.   *)
(* The evidence the passes start from is what a worker Job leaves behind   *)
(* when it ends or is killed while it publishes a trial.                   *)
(*                                                                         *)
(* A path is a pair <<directory, name>>.  The content of an object is the  *)
(* set of paths it refers to: a manifest the paths it covers, a summary    *)
(* the execution it selects.                                               *)
(***************************************************************************)
EXTENDS Naturals, Sequences, SequencesExt, FiniteSets

CONSTANTS
    Finalizers,     \* processes that run a finalisation pass
    Trials,         \* the trials of the run, in the order of the lock
    Histories,      \* the execution histories a trial may have
    ExecNames,      \* names of executions, in the order of physical_attempt
    MaxFaults,      \* bound on crashes
    Failure,        \* the pass raises CampaignFinalizationError
    Nobody, Gone    \* the holder of a free claim; of an abandoned one

VARIABLES
    execs,      \* [trial -> history]: the markers of its executions
    scored,     \* the trials the projection calls complete
    runDone,    \* the projection calls the run complete
    decision,   \* the terminal decision a pass would be given
    bucket,     \* [path -> content]
    claim,      \* [path -> holder]
    pass,       \* what each finaliser is doing
    conflicts,  \* the paths at which a pass met other bytes
    faults

sealingVars == <<execs, scored, runDone, decision, bucket, claim, pass, conflicts, faults>>
evidence == <<execs, scored, runDone>>

AllTrials == ToSet(Trials)
TrialFiles == {"lock", "summary", "recovery", "checksums", "marker"}
RunFiles == {"lock", "verification", "summary", "envelope", "checksums", "marker"}
Statuses == {"completed", "partial", "cancelled"}

Path == (AllTrials \X TrialFiles) \cup ({"run"} \X RunFiles)
        \cup {<<"campaign", "summary">>} \cup ({"campaign"} \X Statuses)

\* What a path without an object has for content; no object refers to it.
NoObject == {<<"nothing", "nothing">>}

\* Everything an object can refer to.
Entries == (AllTrials \X (TrialFiles \cup ToSet(ExecNames))) \cup ({"run"} \X RunFiles)
           \cup ({"campaign"} \X Statuses) \cup ({"quality"} \X {"clean", "degraded"})

ASSUME SealingAssumption ==
    /\ IsFiniteSet(Finalizers) /\ MaxFaults \in Nat
    /\ Trials \in Seq(AllTrials) /\ ExecNames \in Seq(ToSet(ExecNames))
    /\ AllTrials \cap {"run", "campaign", "quality", "nothing"} = {}
    /\ ToSet(ExecNames) \cap TrialFiles = {}
    /\ Histories \subseteq Seq({"ok", "failed", "none"})
    /\ \A h \in Histories : Len(h) <= Len(ExecNames)
    /\ Nobody \notin Finalizers /\ Gone \notin Finalizers /\ Nobody # Gone

Executions(t) == {<<t, ExecNames[i]>> : i \in DOMAIN execs[t]}
Ending(t, marker) == {<<t, ExecNames[i]>> : i \in {j \in DOMAIN execs[t] :
                                                    execs[t][j] = marker}}

-----------------------------------------------------------------------------
(* What a pass writes, from its listing v *)

Listed(v) == {p \in Path : v[p] # NoObject}
               \cup UNION {Executions(t) : t \in AllTrials}

\* A trial's manifest: everything under it but the manifest and the marker.
TrialManifest(v, t) ==
    {p \in Listed(v) : p[1] = t} \ {<<t, "checksums">>, <<t, "marker">>}

\* A run manifest that forgets to leave out the terminal marker.
RunManifestWithMarker(v) ==
    {p \in Listed(v) : p[1] # "campaign"} \ {<<"run", "checksums">>}

\* The run's manifest covers the trials' manifests and markers too; only the
\* run's own are left out.
RunManifest(v) ==
    {p \in Listed(v) : p[1] # "campaign"}
      \ {<<"run", "checksums">>, <<"run", "marker">>}

\* The listing with the writes staged over it; no plan writes a path twice.
After(v, writes) ==
    [p \in DOMAIN v |->
       LET hits == {i \in DOMAIN writes : writes[i][1] = p}
       IN  IF hits = {} THEN v[p] ELSE writes[CHOOSE i \in hits : TRUE][2]]

\* A finaliser that treats a manifest it finds as damage.
MarkerOnlyRefused(v, t, sel, summarised) == <<Failure>>

\* A trial whose manifest is there lacks at most the marker.
MarkerOnly(v, t, sel, summarised) ==
    IF \/ v[<<t, "lock">>] = NoObject \/ ~summarised
       \/ v[<<t, "checksums">>] # TrialManifest(v, t)
    THEN <<Failure>>
    ELSE << <<<<t, "marker">>, {}>> >>

\* The envelope of an interrupted trial, recovery note first, marker last.
TrialEnvelope(v, t, sel, summarised) ==
    IF v[<<t, "checksums">>] # NoObject THEN MarkerOnly(v, t, sel, summarised)
    ELSE LET missing ==
               << <<<<t, "recovery">>, sel>> >>
               \o (IF v[<<t, "lock">>] = NoObject THEN << <<<<t, "lock">>, {}>> >> ELSE <<>>)
               \o (IF summarised THEN <<>> ELSE << <<<<t, "summary">>, sel>> >>)
         IN  missing \o << <<<<t, "checksums">>, TrialManifest(After(v, missing), t)>>,
                           <<<<t, "marker">>, {}>> >>

\* A complete trial: adopt it, finish it, or refuse it.
CompleteTrial(v, t) ==
    LET summary == v[<<t, "summary">>]
        marked == v[<<t, "marker">>] # NoObject
        won == Ending(t, "ok")
    IN  IF Ending(t, "none") # {} \/ (marked /\ summary = NoObject) THEN <<Failure>>
        ELSE IF marked THEN IF summary \subseteq won THEN <<>> ELSE <<Failure>>
        ELSE IF summary # NoObject
        THEN IF won = summary THEN TrialEnvelope(v, t, won, TRUE) ELSE <<Failure>>
        ELSE IF Cardinality(won) = 1 THEN TrialEnvelope(v, t, won, FALSE)
        ELSE <<Failure>>

\* A trial that ended without a score writes nothing: its last execution must
\* be a recorded failure.
FailedTrial(t) ==
    IF execs[t] # <<>> /\ Ending(t, "none") = {} /\ Last(execs[t]) = "failed"
    THEN <<>> ELSE <<Failure>>

TrialWrites(v, t) == IF t \in scored THEN CompleteTrial(v, t) ELSE FailedTrial(t)

\* The execution each trial is scored by.
Selected(v) ==
    UNION {IF t \in scored THEN v[<<t, "summary">>]
           ELSE {<<t, ExecNames[Len(execs[t])]>>} : t \in AllTrials}

AllExecutions == UNION {Executions(t) : t \in AllTrials}

\* The normalised result of the run: which executions there were, which one
\* decides each trial, and whether some trial ended without a score.
RunEvidence(v) ==
    Selected(v) \cup AllExecutions
      \cup {<<"quality", IF scored = AllTrials THEN "clean" ELSE "degraded">>}

RunFacts(v) ==
    << <<<<"run", "verification">>, Selected(v)>>,
       <<<<"run", "summary">>, RunEvidence(v)>>,
       <<<<"run", "envelope">>, AllExecutions>> >>

\* A finaliser that marks the run before it lists what the marker vouches for.
RunWritesMarkerFirst(v) ==
    << <<<<"run", "marker">>, {}>> >> \o RunFacts(v)
      \o << <<<<"run", "checksums">>, RunManifest(After(v, RunFacts(v)))>> >>

\* The run's own objects, over a view in which every trial is complete.
RunWrites(v) ==
    RunFacts(v) \o << <<<<"run", "checksums">>, RunManifest(After(v, RunFacts(v)))>>,
                       <<<<"run", "marker">>, {}>> >>

CampaignWrites(d) ==
    << <<<<"campaign", "summary">>, {<<"campaign", d>>}>>,
       <<<<"campaign", d>>, {}>> >>

\* The trials' writes up to the first refusal.
TrialsWrites(v) ==
    LET all == FlattenSeq([i \in DOMAIN Trials |-> TrialWrites(v, Trials[i])])
        bad == {i \in DOMAIN all : all[i] = Failure}
    IN  IF bad = {} THEN all ELSE SubSeq(all, 1, CHOOSE i \in bad : \A j \in bad : i <= j)

\* Everything one pass writes, in order; it raises at a Failure.
Plan(v, d) ==
    IF ~runDone THEN CampaignWrites(d)
    ELSE LET trials == TrialsWrites(v)
         IN  IF trials # <<>> /\ Last(trials) = Failure THEN trials
             ELSE trials \o RunWrites(After(v, trials)) \o CampaignWrites(d)

-----------------------------------------------------------------------------
(* The evidence a campaign leaves *)

\* The order in which a worker publishes a trial's files.
WorkerOrder == <<"checksums", "summary", "lock", "marker">>

\* What is there when the publication stopped after n files.
Left(t, n) ==
    LET sel == {<<t, ExecNames[Len(execs[t])]>>}
        file(k) == CASE k = "checksums" -> Executions(t) \cup {<<t, "lock">>, <<t, "summary">>}
                     [] k = "summary" -> sel
                     [] OTHER -> {}
        there == ToSet(SubSeq(WorkerOrder, 1, n))
    IN  [k \in TrialFiles |-> IF k \in there THEN file(k) ELSE NoObject]

Idle == [at |-> "idle", todo |-> <<>>]

SealingInit ==
    /\ execs \in [AllTrials -> Histories]
    /\ scored \in SUBSET AllTrials
    /\ runDone \in BOOLEAN
    /\ decision = IF runDone THEN "completed" ELSE "partial"
    /\ runDone => scored # {}
    /\ ~runDone => execs \in [AllTrials -> {<<>>}] /\ scored = {}
    /\ \E n \in [AllTrials -> 0..Len(WorkerOrder)] :
         /\ \A t \in AllTrials :
              /\ t \in scored => execs[t] # <<>>
              /\ n[t] > 0 => t \in scored /\ Last(execs[t]) = "ok"
              /\ t \notin scored => n[t] = 0 /\ Ending(t, "ok") = {}
              /\ t \in scored => Ending(t, "ok") # {}
         /\ bucket = [p \in Path |->
                        IF p[1] \in AllTrials
                        THEN IF n[p[1]] = 0 THEN NoObject ELSE Left(p[1], n[p[1]])[p[2]]
                        ELSE IF p = <<"run", "lock">> THEN {} ELSE NoObject]
    /\ claim = [p \in Path |-> Nobody]
    /\ pass = [f \in Finalizers |-> Idle]
    /\ conflicts = {} /\ faults = 0

-----------------------------------------------------------------------------
(* Passes *)

\* A pass is given the decision of its snapshot, lists the Bucket and knows
\* from then on what it will write.  Passes go on until the campaign's terminal
\* event is recorded, which may be after everything has been written.
Begin(f) ==
    /\ pass[f].at = "idle"
    /\ pass' = [pass EXCEPT ![f] = [at |-> "claim", todo |-> Plan(bucket, decision)]]
    /\ UNCHANGED <<evidence, decision, bucket, claim, conflicts, faults>>

End(f) == pass' = [pass EXCEPT ![f] = Idle]

\* Writers that do not exclude each other.
ClaimableByAll(p) == TRUE

Claimable(p) == claim[p] = Nobody

\* write_immutable up to the lookup: a claim held by another ends the pass; an
\* object that is there is adopted when its bytes are the same.
Look(f) ==
    LET todo == pass[f].todo
        p == Head(todo)[1]
    IN  /\ pass[f].at = "claim" /\ todo # <<>> /\ Head(todo) # Failure
        /\ \/ /\ ~Claimable(p)
              /\ End(f)
              /\ UNCHANGED <<claim, conflicts>>
           \/ /\ Claimable(p)
              /\ bucket[p] = NoObject
              /\ claim' = [claim EXCEPT ![p] = f]
              /\ pass' = [pass EXCEPT ![f].at = "put"]
              /\ UNCHANGED conflicts
           \/ /\ Claimable(p)
              /\ bucket[p] = Head(todo)[2]
              /\ pass' = [pass EXCEPT ![f].todo = Tail(todo)]
              /\ UNCHANGED <<claim, conflicts>>
           \/ /\ Claimable(p)
              /\ bucket[p] \notin {NoObject, Head(todo)[2]}
              /\ conflicts' = conflicts \cup {p}
              /\ End(f)
              /\ UNCHANGED claim
        /\ UNCHANGED <<evidence, decision, bucket, faults>>

\* The unconditional upload, and the release of the claim.
Put(f) ==
    LET w == Head(pass[f].todo)
    IN  /\ pass[f].at = "put"
        /\ bucket' = [bucket EXCEPT ![w[1]] = w[2]]
        /\ claim' = [claim EXCEPT ![w[1]] = IF @ = f THEN Nobody ELSE @]
        /\ pass' = [pass EXCEPT ![f] = [at |-> "claim", todo |-> Tail(@.todo)]]
        /\ UNCHANGED <<evidence, decision, conflicts, faults>>

\* The pass has written everything, or raises.
Return(f) ==
    /\ pass[f].at = "claim"
    /\ pass[f].todo \in {<<>>, <<Failure>>}
    /\ End(f)
    /\ UNCHANGED <<evidence, decision, bucket, claim, conflicts, faults>>

\* The process stops.  A claim it held stays for its hour.
Crash(f) ==
    /\ pass[f].at # "idle" /\ faults < MaxFaults
    /\ faults' = faults + 1
    /\ claim' = [p \in Path |-> IF claim[p] = f THEN Gone ELSE claim[p]]
    /\ End(f)
    /\ UNCHANGED <<evidence, decision, bucket, conflicts>>

\* The hour of an abandoned claim is over.  A write that is under way is
\* assumed to take less.
ExpireClaims ==
    /\ \E p \in Path : claim[p] = Gone
    /\ claim' = [p \in Path |-> IF claim[p] = Gone THEN Nobody ELSE claim[p]]
    /\ UNCHANGED <<evidence, decision, bucket, pass, conflicts, faults>>

\* A cancellation changes what the next pass of an unfinished campaign is told.
Cancel ==
    /\ decision = "partial"
    /\ decision' = "cancelled"
    /\ UNCHANGED <<evidence, bucket, claim, pass, conflicts, faults>>

SealingNext ==
    \/ \E f \in Finalizers : Begin(f) \/ Look(f) \/ Put(f) \/ Return(f) \/ Crash(f)
    \/ ExpireClaims
    \/ Cancel

SealingSpec == SealingInit /\ [][SealingNext]_sealingVars

\* A reconciler starts passes again and again, a pass goes on, and hours pass.
FairSealing ==
    /\ SealingSpec
    /\ \A f \in Finalizers : []<>(pass[f].at # "idle")
    /\ \A f \in Finalizers : WF_sealingVars(Look(f) \/ Put(f) \/ Return(f))
    /\ WF_sealingVars(ExpireClaims)

-----------------------------------------------------------------------------
(* Properties *)

\* The shape of the state.
TypeOK ==
    /\ DOMAIN bucket = Path
    /\ \A p \in Path : bucket[p] = NoObject \/ bucket[p] \subseteq Entries
    /\ claim \in [Path -> Finalizers \cup {Nobody, Gone}]
    /\ conflicts \subseteq Path /\ faults \in 0..MaxFaults

\* A pass never meets other bytes of an earlier or an overlapping pass under
\* the run, wherever that one stopped: what a pass writes does not depend on
\* how much an earlier one had written.  Only the campaign's summary, which
\* names the decision, can disagree.
PassesAgree == conflicts \subseteq {<<"campaign", "summary">>}

\* The manifest is there and covers exactly the objects of the run.
ManifestVerified ==
    /\ {<<"run", f>> : f \in RunFiles} \subseteq Listed(bucket)
    /\ bucket[<<"run", "checksums">>] = RunManifest(bucket)

\* The summary has a result for each locked trial.
TasksMatchLock ==
    AllTrials \subseteq {e[1] : e \in bucket[<<"run", "summary">>]}

\* The envelope refers to the executions of the summary, and every object it
\* refers to is one the manifest covers.
EnvelopeMatches ==
    /\ bucket[<<"run", "envelope">>] =
         {e \in bucket[<<"run", "summary">>] : e[1] \in AllTrials}
    /\ bucket[<<"run", "envelope">>] \subseteq bucket[<<"run", "checksums">>]

\* What the publisher demands of a run's evidence, and that the trials' own
\* manifests hold and each score is a successful execution's.
Publishable ==
    /\ ManifestVerified /\ TasksMatchLock /\ EnvelopeMatches
    /\ bucket[<<"run", "verification">>] = Selected(bucket)
    /\ \A t \in scored :
         /\ bucket[<<t, "checksums">>] = TrialManifest(bucket, t)
         /\ bucket[<<t, "summary">>] \subseteq Ending(t, "ok")
    /\ \A t \in AllTrials : Ending(t, "none") = {}

\* Evidence that carries the run's marker passes the publisher's verification,
\* at every moment from then on: the marker is the last object of the run and
\* no later pass adds anything to what it vouches for.
SealedIsPublishable == bucket[<<"run", "marker">>] # NoObject => Publishable

\* A campaign never carries two terminal markers, even when overlapping passes
\* were given different decisions.
OneTerminalMarker ==
    \A s, r \in Statuses :
        bucket[<<"campaign", s>>] # NoObject /\ bucket[<<"campaign", r>>] # NoObject
          => s = r

\* The evidence a finaliser can complete: every execution has its marker, an
\* unscored trial ended in a failure, and a scored one has been published up to
\* its marker, or not at all and has a single successful execution.
Whole ==
    /\ runDone
    /\ \A t \in AllTrials :
         /\ Ending(t, "none") = {}
         /\ t \notin scored => execs[t] # <<>> /\ Last(execs[t]) = "failed"
         /\ t \in scored =>
              LET n == Cardinality({k \in TrialFiles : bucket[<<t, k>>] # NoObject})
              IN  n = 4 \/ (n \in {0, 3} /\ Cardinality(Ending(t, "ok")) = 1)

\* Whole evidence is sealed in the end, through any crash of any pass.
WholeIsSealed ==
    Whole => <>(/\ bucket[<<"run", "marker">>] # NoObject
                /\ bucket[<<"campaign", "completed">>] # NoObject)
================================================================================
