------------------------- MODULE CoordinationProofs -------------------------
(***************************************************************************)
(* The claims of the coordination repository, and the reconciler that      *)
(* works under them.                                                       *)
(*                                                                         *)
(* Claims: for every number of clients and paths, every lifetime of a      *)
(* claim and every number of attempts, claims exclude one another, only    *)
(* their owners take them away, and the repository's files implement the   *)
(* leases of module Lease.                                                 *)
(*                                                                         *)
(* Reconciler: for every locked campaign and every number of actions and   *)
(* faults, one wave Job runs at a time and a campaign that has ended is    *)
(* clean. Passes act on what they read at their start; the invariant says  *)
(* what of it is still true when they act.                                 *)
(***************************************************************************)
EXTENDS HubClaims, WaveReconciler, NaturalsInduction, WellFoundedInduction, TLAPS

-----------------------------------------------------------------------------
(* The claims *)


Pinned(c) == pc[c] \in {"check", "commit", "verify", "delete"}

(* A revision never changes: while the head is where a client read it, the *)
(* file is what the client saw.                                            *)
Snapshot ==
    \A c \in Clients : Pinned(c) =>
        /\ attempt[c] < MaxAttempts
        /\ base[c] <= head
        /\ attempt[c] <= base[c] - entered[c]
        /\ base[c] = head => seen[c] = claim[Target[c]]

(* What a client decided on the revision it read.  Time passes, but an     *)
(* expired claim stays expired.                                            *)
Decided ==
    \A c \in Clients :
        /\ pc[c] = "commit" => Available(seen[c])
        /\ pc[c] = "delete" => seen[c] = mine[c]

HeldStands ==
    \A c \in Clients : Holding(c) /\ ~Expired(mine[c]) => claim[Target[c]] = mine[c]

Unstarted == \A c \in Clients : pc[c] = "idle" => attempt[c] = 0

OwnNames == \A c \in Clients : mine[c].owner = c

ClaimsInv ==
    TypeOK /\ OwnNames /\ Unstarted /\ ContentionIsProgress /\ Snapshot /\ Decided /\ HeldStands

(* The empty repository.                                                   *)
LEMMA ClaimsInit == Init => ClaimsInv
BY ClientsAssumption, BoundsAssumption, FreeAssumption, SMT
DEF Init, ClaimsInv, TypeOK, OwnNames, Unstarted, ContentionIsProgress, Snapshot, Decided,
    HeldStands, Pinned, Holding, Claims, Never, Stages

(* A commit that is accepted finds the file its client saw.                *)
LEMMA CommitSees ==
    ASSUME ClaimsInv, NEW c \in Clients, NEW stage \in {"commit", "delete"}, NEW file, NEW answers,
           Commit(c, stage, file, answers)
    PROVE  seen[c] = claim[Target[c]]
BY DEF ClaimsInv, Snapshot, Pinned, Commit

(* Types are kept by every step.                                           *)
LEMMA TypesKept == ClaimsInv /\ [Next]_vars => TypeOK'
<1> SUFFICES ASSUME ClaimsInv, [Next]_vars PROVE TypeOK'
    OBVIOUS
<1> USE ClientsAssumption, BoundsAssumption
<1>1. CASE UNCHANGED vars
    BY <1>1 DEF ClaimsInv, TypeOK, vars, client
<1>2. CASE Clock
    BY <1>2 DEF ClaimsInv, TypeOK, Clock, client
<1>3. ASSUME NEW c \in Clients, ClientStep(c) PROVE TypeOK'
    <2>1. CASE Begin(c)
        BY <2>1 DEF ClaimsInv, TypeOK, Begin, Goto, Claims, Never, Stages
    <2>2. CASE ReadHead(c)
        BY <2>2 DEF ClaimsInv, TypeOK, ReadHead, Goto, Stages
    <2>3. CASE GiveUp(c) \/ CallFails(c) \/ Check(c) \/ Verify(c) \/ Crash(c)
        BY <2>3 DEF ClaimsInv, TypeOK, GiveUp, CallFails, Check, Verify, Crash, Goto, Stages
    <2>4. CASE AcquireCommit(c)
        BY <2>4 DEF ClaimsInv, TypeOK, AcquireCommit, Commit, Goto, Stages
    <2>5. CASE DeleteCommit(c)
        BY <2>5 DEF ClaimsInv, TypeOK, DeleteCommit, Commit, Goto, Stages
    <2>6. CASE ParentConflict(c)
        BY <2>6 DEF ClaimsInv, TypeOK, Snapshot, Pinned, ParentConflict, Goto, Stages
    <2>7. CASE Finish(c)
        BY <2>7 DEF ClaimsInv, TypeOK, Finish, Goto, Stages
    <2> QED BY <1>3, <2>1, <2>2, <2>3, <2>4, <2>5, <2>6, <2>7 DEF ClientStep
<1> QED BY <1>1, <1>2, <1>3 DEF Next

(* The strengthening is kept by every step.                                *)
LEMMA ClaimsNext == ClaimsInv /\ [Next]_vars => ClaimsInv'
<1> SUFFICES ASSUME ClaimsInv, [Next]_vars PROVE ClaimsInv'
    OBVIOUS
<1> USE ClientsAssumption, BoundsAssumption, FreeAssumption
<1>0. TypeOK /\ TypeOK'
    BY TypesKept DEF ClaimsInv
<1>1. CASE UNCHANGED vars
    BY <1>0, <1>1 DEF ClaimsInv, OwnNames, Unstarted, ContentionIsProgress, Snapshot, Decided,
        HeldStands, Pinned, Holding, Available, Expired, vars, client
<1>2. CASE Clock
    BY <1>0, <1>2 DEF ClaimsInv, TypeOK, OwnNames, Unstarted, ContentionIsProgress, Snapshot,
        Decided, HeldStands, Pinned, Holding, Available, Expired, Claims, Never, Clock, client
<1>3. ASSUME NEW c \in Clients, ClientStep(c) PROVE ClaimsInv'
    <2>1. OwnNames'
        <3>1. CASE Begin(c)
            BY <3>1, <1>0 DEF ClaimsInv, OwnNames, TypeOK, Begin, Claims
        <3>2. CASE UNCHANGED mine
            BY <3>2 DEF ClaimsInv, OwnNames
        <3> QED BY <1>3, <3>1, <3>2 DEF ClientStep, ReadHead, GiveUp, CallFails, Check,
            AcquireCommit, DeleteCommit, Commit, ParentConflict, Finish, Verify, Crash
    <2>2. ContentionIsProgress'
        <3>1. CASE Begin(c) \/ Finish(c)
            <4>1. attempt'[c] <= head' - entered'[c]
                BY <1>0, <3>1 DEF ClaimsInv, Unstarted, TypeOK, Begin, Finish
            <4>2. \A d \in Clients \ {c} : attempt'[d] <= head' - entered'[d]
                BY <1>0, <3>1 DEF ClaimsInv, ContentionIsProgress, TypeOK, Begin, Finish
            <4> QED BY <4>1, <4>2 DEF ContentionIsProgress
        <3>2. CASE AcquireCommit(c) \/ DeleteCommit(c)
            BY <1>0, <3>2 DEF ClaimsInv, ContentionIsProgress, TypeOK, AcquireCommit,
                DeleteCommit, Commit
        <3>3. CASE ParentConflict(c)
            <4>1. base[c] < head /\ attempt[c] <= base[c] - entered[c]
                BY <1>0, <3>3 DEF ClaimsInv, Snapshot, Pinned, TypeOK, ParentConflict
            <4> QED BY <1>0, <3>3, <4>1 DEF ClaimsInv, ContentionIsProgress, TypeOK,
                ParentConflict
        <3>4. CASE UNCHANGED <<attempt, head, entered>>
            BY <3>4 DEF ClaimsInv, ContentionIsProgress
        <3> QED BY <1>3, <3>1, <3>2, <3>3, <3>4 DEF ClientStep, ReadHead, GiveUp, CallFails,
            Check, Verify, Crash
    <2>3. Snapshot'
        BY <1>0, <1>3 DEF ClaimsInv, ContentionIsProgress, Snapshot, Pinned, TypeOK, ClientStep,
            Begin, ReadHead, GiveUp, CallFails, Check, AcquireCommit, DeleteCommit, Commit,
            ParentConflict, Finish, Verify, Crash, Goto
    <2>4. Decided'
        BY <1>0, <1>3 DEF ClaimsInv, Decided, Available, Expired, TypeOK, ClientStep,
            Begin, ReadHead, GiveUp, CallFails, Check, AcquireCommit, DeleteCommit, Commit,
            ParentConflict, Finish, Verify, Crash, Goto
    <2>5. HeldStands'
        <3>1. CASE AcquireCommit(c)
            <4>1. seen[c] = claim[Target[c]] /\ Available(seen[c])
                BY <3>1, CommitSees DEF AcquireCommit, Commit, ClaimsInv, Decided
            <4> QED BY <3>1, <4>1, <1>0 DEF ClaimsInv, HeldStands, Holding, TypeOK, Available,
                Expired, AcquireCommit, Commit, Goto, Claims
        <3>2. CASE DeleteCommit(c)
            <4>1. seen[c] = claim[Target[c]] /\ seen[c] = mine[c]
                BY <3>2, CommitSees DEF DeleteCommit, Commit, ClaimsInv, Decided
            <4>2. ~Holding(c)'
                BY <3>2, <1>0 DEF DeleteCommit, Commit, Goto, Holding, TypeOK
            <4>3. ASSUME NEW d \in Clients, d # c, Holding(d)', ~Expired(mine[d])'
                  PROVE  claim'[Target[d]] = mine'[d]
                <5>1. Holding(d) /\ ~Expired(mine[d]) /\ mine'[d] = mine[d]
                    BY <3>2, <4>3, <1>0 DEF DeleteCommit, Commit, Goto, Holding, Expired, TypeOK
                <5>2. claim[Target[d]] = mine[d] /\ mine[d] # mine[c]
                    BY <5>1, <4>3 DEF ClaimsInv, HeldStands, OwnNames
                <5> QED BY <3>2, <4>1, <5>1, <5>2, <1>0 DEF DeleteCommit, Commit, TypeOK
            <4> QED BY <4>2, <4>3 DEF HeldStands
        <3>3. CASE Begin(c)
            BY <3>3, <1>0 DEF ClaimsInv, HeldStands, Holding, Expired, TypeOK, Begin, Goto
        <3>4. CASE UNCHANGED <<claim, now, mine>> /\ (Holding(c)' => Holding(c))
            BY <3>4, <1>0, <1>3 DEF ClaimsInv, HeldStands, Holding, Expired, TypeOK, ClientStep,
                Begin, ReadHead, GiveUp, CallFails, Check, AcquireCommit, DeleteCommit, Commit,
                ParentConflict, Finish, Verify, Crash, Goto
        <3> QED BY <1>0, <1>3, <3>1, <3>2, <3>3, <3>4 DEF TypeOK, Holding, ClientStep, ReadHead,
            GiveUp, CallFails, Check, ParentConflict, Finish, Verify, Crash, Goto
    <2>6. Unstarted'
        BY <1>0, <1>3 DEF ClaimsInv, Unstarted, TypeOK, ClientStep, Begin, ReadHead, GiveUp,
            CallFails, Check, AcquireCommit, DeleteCommit, Commit, ParentConflict, Finish, Verify,
            Crash, Goto
    <2> QED BY <1>0, <2>1, <2>2, <2>3, <2>4, <2>5, <2>6 DEF ClaimsInv
<1> QED BY <1>1, <1>2, <1>3 DEF Next

(* The inductive invariant holds throughout.                               *)
LEMMA ClaimsInvariant == Spec => []ClaimsInv
<1>1. Init => ClaimsInv
    BY ClaimsInit
<1>2. ClaimsInv /\ [Next]_vars => ClaimsInv'
    BY ClaimsNext
<1> QED BY <1>1, <1>2, PTL DEF Spec

(* No two clients of HubClaimStore work under unexpired claims on one path.*)
THEOREM ClaimsExclude == Spec => []MutualExclusion
<1>1. ClaimsInv => MutualExclusion
    <2> SUFFICES ASSUME ClaimsInv, NEW c \in Clients, NEW d \in Clients,
                        Holding(c), Holding(d), Target[c] = Target[d],
                        ~Expired(mine[c]), ~Expired(mine[d])
                 PROVE  c = d
        BY DEF MutualExclusion
    <2>1. mine[c] = mine[d]
        BY DEF ClaimsInv, HeldStands
    <2> QED BY <2>1 DEF ClaimsInv, OwnNames
<1> QED BY <1>1, ClaimsInvariant, PTL

(* A client of HubClaimStore runs out of attempts only against others that *)
(* got theirs accepted.                                                    *)
THEOREM RefusalsAreProgress == Spec => []ContentionIsProgress
<1>1. ClaimsInv => ContentionIsProgress
    BY DEF ClaimsInv
<1> QED BY <1>1, ClaimsInvariant, PTL

(* What an accepted commit of HubClaimStore does to the files.             *)
LEMMA CommitsChange ==
    ASSUME ClaimsInv, Next
    PROVE  \/ UNCHANGED claim
           \/ \E c \in Clients :
                /\ pc[c] = "commit" /\ Available(claim[Target[c]])
                /\ claim' = [claim EXCEPT ![Target[c]] = mine[c]]
                /\ UNCHANGED now
           \/ \E c \in Clients :
                /\ pc[c] = "delete" /\ claim[Target[c]] = mine[c]
                /\ claim' = [claim EXCEPT ![Target[c]] = Free]
                /\ UNCHANGED now
<1>1. ASSUME NEW c \in Clients, AcquireCommit(c)
      PROVE  /\ pc[c] = "commit" /\ Available(claim[Target[c]])
             /\ claim' = [claim EXCEPT ![Target[c]] = mine[c]] /\ UNCHANGED now
    BY <1>1, CommitSees DEF AcquireCommit, Commit, ClaimsInv, Decided
<1>2. ASSUME NEW c \in Clients, DeleteCommit(c)
      PROVE  /\ pc[c] = "delete" /\ claim[Target[c]] = mine[c]
             /\ claim' = [claim EXCEPT ![Target[c]] = Free] /\ UNCHANGED now
    BY <1>2, CommitSees DEF DeleteCommit, Commit, ClaimsInv, Decided
<1> QED BY <1>1, <1>2 DEF Next, Clock, ClientStep, Begin, ReadHead, GiveUp, CallFails, Check,
        ParentConflict, Finish, Verify, Crash

(* An unexpired claim of HubClaimStore is removed only by its owner.       *)
THEOREM ClaimsAreNeverTaken == Spec => NeverTaken
<1> DEFINE Taken ==
        \A p \in Paths :
            claim[p] # Free /\ claim'[p] # claim[p] =>
                \/ Expired(claim[p]) /\ claim'[p] # Free
                \/ claim'[p] = Free /\ pc[claim[p].owner] = "delete"
<1>1. ClaimsInv /\ [Next]_vars => [Taken]_vars
    <2> SUFFICES ASSUME ClaimsInv, Next, NEW p \in Paths, claim[p] # Free,
                        claim'[p] # claim[p]
                 PROVE  \/ Expired(claim[p]) /\ claim'[p] # Free
                        \/ claim'[p] = Free /\ pc[claim[p].owner] = "delete"
        OBVIOUS
    <2> USE ClientsAssumption, FreeAssumption
    <2>1. ASSUME NEW c \in Clients, Available(claim[Target[c]]),
                 claim' = [claim EXCEPT ![Target[c]] = mine[c]]
          PROVE  Expired(claim[p]) /\ claim'[p] # Free
        BY <2>1 DEF Available, ClaimsInv, TypeOK
    <2>2. ASSUME NEW c \in Clients, pc[c] = "delete", claim[Target[c]] = mine[c],
                 claim' = [claim EXCEPT ![Target[c]] = Free]
          PROVE  claim'[p] = Free /\ pc[claim[p].owner] = "delete"
        BY <2>2 DEF ClaimsInv, TypeOK, OwnNames
    <2> QED BY <2>1, <2>2, CommitsChange
<1> QED BY <1>1, ClaimsInvariant, PTL DEF Spec, NeverTaken

(* HubClaimStore implements the leases of module Lease.                    *)
THEOREM ClaimsAreLeases == Spec => ImplementsLease
<1>1. Init => AsLease!Init
    BY DEF Init, AsLease!Init
<1>2. ClaimsInv /\ [Next]_vars => [AsLease!Next]_<<claim, now>>
    <2> SUFFICES ASSUME ClaimsInv, Next PROVE [AsLease!Next]_<<claim, now>>
        BY DEF vars
    <2> USE ClientsAssumption, FreeAssumption
    <2>1. CASE Clock
        BY <2>1 DEF Clock, AsLease!Next, AsLease!Tick
    <2>2. ASSUME NEW c \in Clients, Available(claim[Target[c]]), UNCHANGED now,
                 claim' = [claim EXCEPT ![Target[c]] = mine[c]]
          PROVE  AsLease!Acquire(Target[c])
        BY <2>2 DEF AsLease!Acquire, AsLease!Available, AsLease!Expired, AsLease!Never,
            AsLease!Claims, Available, Expired, Never, Claims, ClaimsInv, TypeOK
    <2>3. ASSUME NEW c \in Clients, claim[Target[c]] = mine[c], UNCHANGED now,
                 claim' = [claim EXCEPT ![Target[c]] = Free]
          PROVE  AsLease!Release(Target[c])
        BY <2>3 DEF AsLease!Release, ClaimsInv, TypeOK
    <2>4. ASSUME NEW c \in Clients, ClientStep(c), UNCHANGED claim PROVE UNCHANGED <<claim, now>>
        BY <2>4 DEF ClientStep, Begin, ReadHead, GiveUp, CallFails, Check, AcquireCommit,
            DeleteCommit, Commit, ParentConflict, Finish, Verify, Crash
    <2>5. \A c \in Clients : Target[c] \in Paths
        OBVIOUS
    <2> QED BY <2>1, <2>2, <2>3, <2>4, <2>5, CommitsChange DEF Next, AsLease!Next
<1> QED BY <1>1, <1>2, ClaimsInvariant, PTL DEF Spec, ImplementsLease, AsLease!Spec

-----------------------------------------------------------------------------
(* Folds *)

(* A nonempty set of naturals has a smallest element.                       *)
LEMMA Least ==
    ASSUME NEW S, S \subseteq Nat, S # {}
    PROVE  \E n \in S : \A m \in S : n <= m
  <1> DEFINE R == OpToRel(<, Nat)
  <1>1. IsWellFoundedOn(R, Nat)
    BY NatLessThanWellFounded
  <1>2. \A x, y \in Nat : x < y => <<x, y>> \in R
    BY DEF OpToRel
  <1> HIDE DEF R
  <1>3. PICK x \in S : \A y \in S : ~ (<<y, x>> \in R)
    BY <1>1, WFMin
  <1>4. ASSUME NEW y \in S PROVE x <= y
    <2>1. x \in Nat /\ y \in Nat
      BY <1>3
    <2>2. ~ (y < x)
      BY <1>2, <1>3, <2>1
    <2>3. QED
      BY <2>1, <2>2
  <1>5. QED
    BY <1>4

(* The largest of some of the first numbers, if the last is among them.     *)
LEMMA MaxIsLast ==
    ASSUME NEW n \in Nat, NEW s \in SUBSET (1..n), n \in s
    PROVE  Max(s) = n
  <1>1. \A y \in s : y \in 1..n /\ n >= y
    OBVIOUS
  <1>2. \A x \in s : (\A y \in s : x >= y) => x = n
    <2> SUFFICES ASSUME NEW x \in s, \A y \in s : x >= y PROVE x = n
      OBVIOUS
    <2>1. x >= n /\ n >= x /\ x \in Nat
      BY <1>1
    <2>2. QED
      BY <2>1
  <1>3. \E x \in s : \A y \in s : x >= y
    BY <1>1
  <1>4. QED
    BY <1>2, <1>3 DEF Max

WaveFold(f, log, n) ==
    f = [s \in SUBSET (1..n) |->
            IF s = {} THEN Unknown ELSE ReplayWaveEvent(f[s \ {Max(s)}], log[Max(s)])]

CampaignFold(f, log, n) ==
    f = [s \in SUBSET (1..n) |->
            IF s = {} THEN NewCampaign ELSE ApplyCampaignEvent(f[s \ {Max(s)}], log[Max(s)])]

(* The fold of a timeline is a function of its prefixes.                     *)
LEMMA WaveFoldExists ==
    ASSUME NEW n \in Nat, NEW log
    PROVE  \E f : WaveFold(f, log, n)
  <1> DEFINE Bad == {k \in 0..n : ~ \E f : WaveFold(f, log, k)}
  <1>1. SUFFICES ASSUME Bad # {} PROVE FALSE
    OBVIOUS
  <1>2. PICK b \in Bad : \A m \in Bad : b <= m
    <2>1. Bad \subseteq Nat
      OBVIOUS
    <2> HIDE DEF Bad
    <2>2. QED
      BY <1>1, <2>1, Least
  <1>3. b \in 0..n /\ (b # 0 => b - 1 \in 0..n /\ b - 1 \notin Bad)
    <2>1. b \in 0..n
      OBVIOUS
    <2> HIDE DEF Bad
    <2>2. QED
      BY <1>2, <2>1
  <1>4. CASE b = 0
    <2> DEFINE f0 == [s \in SUBSET (1..0) |-> Unknown]
    <2>1. \A s \in SUBSET (1..0) : s = {}
      OBVIOUS
    <2>2. WaveFold(f0, log, 0)
      BY <2>1 DEF WaveFold
    <2>3. QED
      BY <1>2, <1>4, <2>2
  <1>5. CASE b # 0
    <2>1. PICK f : WaveFold(f, log, b - 1)
      BY <1>3, <1>5
    <2> DEFINE h == [s \in SUBSET (1..b) |->
                       IF b \in s THEN ReplayWaveEvent(f[s \ {b}], log[b]) ELSE f[s]]
    <2>2. b \in Nat /\ b # 0 /\ b - 1 \in Nat
      BY <1>3, <1>5
    <2>3. ASSUME NEW s \in SUBSET (1..b)
          PROVE  h[s] = IF s = {} THEN Unknown
                        ELSE ReplayWaveEvent(h[s \ {Max(s)}], log[Max(s)])
      <3>1. CASE b \in s
        <4>1. Max(s) = b
          BY <2>2, <3>1, MaxIsLast
        <4>2. s \ {b} \in SUBSET (1..b) /\ b \notin s \ {b}
          OBVIOUS
        <4>3. QED
          BY <3>1, <4>1, <4>2
      <3>2. CASE b \notin s
        <4>1. s \in SUBSET (1..(b - 1))
          BY <2>2, <3>2
        <4>2. f[s] = IF s = {} THEN Unknown
                     ELSE ReplayWaveEvent(f[s \ {Max(s)}], log[Max(s)])
          BY <2>1, <4>1 DEF WaveFold
        <4>3. s \ {Max(s)} \in SUBSET (1..b) /\ b \notin s \ {Max(s)}
          BY <3>2
        <4>4. QED
          BY <3>2, <4>2, <4>3
      <3>3. QED
        BY <3>1, <3>2
    <2>4. h = [s \in SUBSET (1..b) |-> h[s]]
      OBVIOUS
    <2> HIDE DEF h
    <2>5. WaveFold(h, log, b)
      BY <2>3, <2>4 DEF WaveFold
    <2>6. QED
      BY <1>2, <2>5
  <1>6. QED
    BY <1>4, <1>5

(* The view of a wave replays its timeline event by event.                   *)
LEMMA WaveReplays ==
    ASSUME NEW S, NEW log \in Seq(S)
    PROVE  \E g : /\ g[0] = Unknown
                  /\ \A k \in 1..Len(log) : g[k] = ReplayWaveEvent(g[k - 1], log[k])
                  /\ WaveView(log) = g[Len(log)]
  <1> DEFINE n == Len(log)
             F == CHOOSE f : f = [s \in SUBSET (DOMAIN log) |->
                    IF s = {} THEN Unknown ELSE ReplayWaveEvent(f[s \ {Max(s)}], log[Max(s)])]
  <1>1. n \in Nat /\ DOMAIN log = 1..n
    OBVIOUS
  <1>2. PICK f : WaveFold(f, log, n)
    BY <1>1, WaveFoldExists
  <1>3. f = [s \in SUBSET (DOMAIN log) |->
               IF s = {} THEN Unknown ELSE ReplayWaveEvent(f[s \ {Max(s)}], log[Max(s)])]
    BY <1>1, <1>2 DEF WaveFold
  <1>4. F = [s \in SUBSET (DOMAIN log) |->
               IF s = {} THEN Unknown ELSE ReplayWaveEvent(F[s \ {Max(s)}], log[Max(s)])]
    BY <1>3
  <1>5. WaveView(log) = F[DOMAIN log]
    BY DEF WaveView, FoldLeft, MapThenFoldSet
  <1> HIDE DEF F
  <1> DEFINE g == [k \in 0..n |-> F[1..k]]
  <1>6. g[0] = Unknown
    <2>1. 1..0 = {} /\ 1..0 \in SUBSET (DOMAIN log)
      OBVIOUS
    <2>2. QED
      BY <1>1, <1>4, <2>1
  <1>7. ASSUME NEW k \in 1..n PROVE g[k] = ReplayWaveEvent(g[k - 1], log[k])
    <2>0. k \in Nat /\ 1 <= k /\ k <= n
      BY <1>1
    <2>a. 1..k \subseteq 1..n /\ k \in 1..k
      BY <1>1, <2>0
    <2>1. 1..k \in SUBSET (DOMAIN log) /\ k \in 1..k /\ k \in Nat /\ 1..k # {}
      BY <1>1, <2>0, <2>a
    <2>2. Max(1..k) = k
      BY <2>1, MaxIsLast
    <2>3. (1..k) \ {k} = 1..(k - 1)
      BY <2>1
    <2>4. F[1..k] = ReplayWaveEvent(F[(1..k) \ {Max(1..k)}], log[Max(1..k)])
      BY <1>4, <2>1
    <2>5. k - 1 \in 0..n /\ k \in 0..n
      BY <1>1, <2>1
    <2>6. QED
      BY <2>2, <2>3, <2>4, <2>5
  <1>8. WaveView(log) = g[n]
    BY <1>1, <1>5
  <1>9. QED
    BY <1>6, <1>7, <1>8

(* The same fold over the events of a campaign.                              *)
LEMMA CampaignFoldExists ==
    ASSUME NEW n \in Nat, NEW log
    PROVE  \E f : CampaignFold(f, log, n)
  <1> DEFINE Bad == {k \in 0..n : ~ \E f : CampaignFold(f, log, k)}
  <1>1. SUFFICES ASSUME Bad # {} PROVE FALSE
    OBVIOUS
  <1>2. PICK b \in Bad : \A m \in Bad : b <= m
    <2>1. Bad \subseteq Nat
      OBVIOUS
    <2> HIDE DEF Bad
    <2>2. QED
      BY <1>1, <2>1, Least
  <1>3. b \in 0..n /\ (b # 0 => b - 1 \in 0..n /\ b - 1 \notin Bad)
    <2>1. b \in 0..n
      OBVIOUS
    <2> HIDE DEF Bad
    <2>2. QED
      BY <1>2, <2>1
  <1>4. CASE b = 0
    <2> DEFINE f0 == [s \in SUBSET (1..0) |-> NewCampaign]
    <2>1. \A s \in SUBSET (1..0) : s = {}
      OBVIOUS
    <2>2. CampaignFold(f0, log, 0)
      BY <2>1 DEF CampaignFold
    <2>3. QED
      BY <1>2, <1>4, <2>2
  <1>5. CASE b # 0
    <2>1. PICK f : CampaignFold(f, log, b - 1)
      BY <1>3, <1>5
    <2> DEFINE h == [s \in SUBSET (1..b) |->
                       IF b \in s THEN ApplyCampaignEvent(f[s \ {b}], log[b]) ELSE f[s]]
    <2>2. b \in Nat /\ b # 0 /\ b - 1 \in Nat
      BY <1>3, <1>5
    <2>3. ASSUME NEW s \in SUBSET (1..b)
          PROVE  h[s] = IF s = {} THEN NewCampaign
                        ELSE ApplyCampaignEvent(h[s \ {Max(s)}], log[Max(s)])
      <3>1. CASE b \in s
        <4>1. Max(s) = b
          BY <2>2, <3>1, MaxIsLast
        <4>2. s \ {b} \in SUBSET (1..b) /\ b \notin s \ {b}
          OBVIOUS
        <4>3. QED
          BY <3>1, <4>1, <4>2
      <3>2. CASE b \notin s
        <4>1. s \in SUBSET (1..(b - 1))
          BY <2>2, <3>2
        <4>2. f[s] = IF s = {} THEN NewCampaign
                     ELSE ApplyCampaignEvent(f[s \ {Max(s)}], log[Max(s)])
          BY <2>1, <4>1 DEF CampaignFold
        <4>3. s \ {Max(s)} \in SUBSET (1..b) /\ b \notin s \ {Max(s)}
          BY <3>2
        <4>4. QED
          BY <3>2, <4>2, <4>3
      <3>3. QED
        BY <3>1, <3>2
    <2>4. h = [s \in SUBSET (1..b) |-> h[s]]
      OBVIOUS
    <2> HIDE DEF h
    <2>5. CampaignFold(h, log, b)
      BY <2>3, <2>4 DEF CampaignFold
    <2>6. QED
      BY <1>2, <2>5
  <1>6. QED
    BY <1>4, <1>5

(* The status of a campaign replays its events one by one.                   *)
LEMMA CampaignReplays ==
    ASSUME NEW S, NEW log \in Seq(S)
    PROVE  \E g : /\ g[0] = NewCampaign
                  /\ \A k \in 1..Len(log) : g[k] = ApplyCampaignEvent(g[k - 1], log[k])
                  /\ CampaignView(log) = g[Len(log)]
  <1> DEFINE n == Len(log)
             F == CHOOSE f : f = [s \in SUBSET (DOMAIN log) |->
                    IF s = {} THEN NewCampaign ELSE ApplyCampaignEvent(f[s \ {Max(s)}], log[Max(s)])]
  <1>1. n \in Nat /\ DOMAIN log = 1..n
    OBVIOUS
  <1>2. PICK f : CampaignFold(f, log, n)
    BY <1>1, CampaignFoldExists
  <1>3. f = [s \in SUBSET (DOMAIN log) |->
               IF s = {} THEN NewCampaign ELSE ApplyCampaignEvent(f[s \ {Max(s)}], log[Max(s)])]
    BY <1>1, <1>2 DEF CampaignFold
  <1>4. F = [s \in SUBSET (DOMAIN log) |->
               IF s = {} THEN NewCampaign ELSE ApplyCampaignEvent(F[s \ {Max(s)}], log[Max(s)])]
    BY <1>3
  <1>5. CampaignView(log) = F[DOMAIN log]
    BY DEF CampaignView, FoldLeft, MapThenFoldSet
  <1> HIDE DEF F
  <1> DEFINE g == [k \in 0..n |-> F[1..k]]
  <1>6. g[0] = NewCampaign
    <2>1. 1..0 = {} /\ 1..0 \in SUBSET (DOMAIN log)
      OBVIOUS
    <2>2. QED
      BY <1>1, <1>4, <2>1
  <1>7. ASSUME NEW k \in 1..n PROVE g[k] = ApplyCampaignEvent(g[k - 1], log[k])
    <2>0. k \in Nat /\ 1 <= k /\ k <= n
      BY <1>1
    <2>a. 1..k \subseteq 1..n /\ k \in 1..k
      BY <1>1, <2>0
    <2>1. 1..k \in SUBSET (DOMAIN log) /\ k \in 1..k /\ k \in Nat /\ 1..k # {}
      BY <1>1, <2>0, <2>a
    <2>2. Max(1..k) = k
      BY <2>1, MaxIsLast
    <2>3. (1..k) \ {k} = 1..(k - 1)
      BY <2>1
    <2>4. F[1..k] = ApplyCampaignEvent(F[(1..k) \ {Max(1..k)}], log[Max(1..k)])
      BY <1>4, <2>1
    <2>5. k - 1 \in 0..n /\ k \in 0..n
      BY <1>1, <2>1
    <2>6. QED
      BY <2>2, <2>3, <2>4, <2>5
  <1>8. CampaignView(log) = g[n]
    BY <1>1, <1>5
  <1>9. QED
    BY <1>6, <1>7, <1>8

-----------------------------------------------------------------------------
(* The invariant *)

Estimates == {0, WaveCost} \cup {PartialCost(Cardinality(T)) : T \in SUBSET Trials}
EventKinds == {"active", "draining", "cleaning", "closed", "cleanup_failed", "resolved"}
WaveStates == EventKinds \cup {"unknown", "bad"}
Events == [kind : EventKinds, by : {"reconciler", "worker"}, est : Estimates, seen : BOOLEAN]
Waves == [trials : SUBSET Trials, job : {"none", "scheduled", "running", "ended"},
          revived : BOOLEAN, marker : BOOLEAN, log : Seq(Events)]

OnWaveKinds == {"cancel-wave", "drain-wave", "cleanup-wave", "manual-intervention"}
ActionKinds == OnWaveKinds \cup {"exhaust-trials", "publish-summary"} \cup Billable
Actions == [kind : ActionKinds, wave : Nat, by : {"wave", "act", "trials", "shards", "summary"},
            trials : SUBSET Trials, est : Estimates,
            st : {"reserved", "ambiguous", "succeeded", "failed"}]

CampaignKinds == {"cancel", "draining", "manual", "resolved"} \cup CampaignTerminal
Outcomes == {"completed", "agent", "retryable"}

ReconcilerTypes ==
    /\ clog \in Seq([kind : CampaignKinds, ws : SUBSET Nat])
    /\ acts \in Seq(Actions)
    /\ waves \in Seq(Waves)
    /\ execs \in [Trials -> Seq([w : Nat, out : Outcomes, seen : BOOLEAN])]
    /\ ep \in {"paused", "running"}
    /\ pass.pc \in {"idle", "observed", "recovered", "selected", "applied", "published"}

Ends == {"closed", "resolved"}
EndIn(log) == \E i \in DOMAIN log : log[i].kind \in Ends
SeenEndIn(log) == \E i \in DOMAIN log : log[i].seen /\ log[i].kind \in Ends
FailedIn(log) == \E i \in DOMAIN log : log[i].kind = "cleanup_failed"
SeenFailedIn(log) == \E i \in DOMAIN log : log[i].seen /\ log[i].kind = "cleanup_failed"

Stopped == CampaignView(clog).st # "active"
Halted == Stopped \/ Resolved

Bills(a) == acts[a].kind \in Billable
Lives(a) == Bills(a) /\ acts[a].st # "failed"

(* The billable actions and the waves they start, in one order.             *)
ActionsOK ==
    /\ \A a \in DOMAIN acts :
          /\ acts[a].kind \in Billable \cup OnWaveKinds => acts[a].wave \in DOMAIN waves
          /\ Bills(a) /\ acts[a].st = "failed" => waves[acts[a].wave].job = "none"
    /\ \A a, b \in DOMAIN acts : Bills(a) /\ Bills(b) /\ a < b => acts[a].wave < acts[b].wave
    /\ \A w \in DOMAIN waves : \E a \in DOMAIN acts : Bills(a) /\ acts[a].wave = w

(* Only a Job that has ended leaves a failed cleanup.                       *)
JobsOK == \A w \in DOMAIN waves :
    /\ FailedIn(waves[w].log) => waves[w].job = "ended"
    /\ waves[w].job = "none" => ~waves[w].revived

(* A wave whose end was recorded has no Job that runs.                      *)
EndsOK == Overtaken \/ \A w \in DOMAIN waves : EndIn(waves[w].log) => ~Live(w)

(* Of two billable actions the earlier one's wave has ended.                *)
TurnsOK == \A a, b \in DOMAIN acts :
    Lives(a) /\ Lives(b) /\ a < b => SeenEndIn(waves[acts[a].wave].log)

(* A wave is drained before its Job exists, or is to be, only in a campaign *)
(* that was stopped.                                                        *)
HaltsOK ==
    /\ \A w \in DOMAIN waves :
          waves[w].job = "none" /\ waves[w].log # <<>> => Halted
    /\ \A a \in DOMAIN acts :
          acts[a].kind \in {"drain-wave", "cleanup-wave"} /\ waves[acts[a].wave].log = <<>>
            => Halted
    /\ Overtaken => Resolved

(* What the view of a pass tells of the present.                            *)
Viewing == {"observed", "recovered", "selected"}
ViewOK ==
    LET v == pass.view IN
    /\ pass.pc \in Viewing =>
          /\ DOMAIN v.waves \subseteq DOMAIN waves
          /\ \A w \in DOMAIN v.waves :
                /\ v.waves[w].est \in Estimates
                /\ v.waves[w].st = "closed" => SeenEndIn(waves[w].log)
                /\ v.waves[w].st # "unknown" => waves[w].log # <<>>
                /\ v.waves[w].st = "cleanup_failed" => FailedIn(waves[w].log)
          /\ v.st = "active" => \A w \in DOMAIN waves :
                waves[w].job = "none" /\ waves[w].log # <<>> => Resolved
    /\ pass.pc \in {"observed", "recovered"} =>
          /\ DOMAIN v.waves = DOMAIN waves
          /\ \A a, b \in DOMAIN acts :
                Lives(a) /\ Lives(b) /\ a < b => v.waves[acts[a].wave].st = "closed"
          /\ v.st \in Cancelling =>
                Halted \/ \E w \in DOMAIN waves : v.waves[w].st = "cleanup_failed"

(* The action a pass has selected has no outcome yet.                       *)
SelectedOK ==
    /\ pass.pc \in {"selected", "applied"} => pass.act \in Pending(acts)
    /\ pass.pc = "applied" =>
          /\ pass.out \in {"succeeded", "failed", "ambiguous"}
          /\ Bills(pass.act) /\ pass.out = "failed" => waves[acts[pass.act].wave].job = "none"

(* The endpoint runs for a wave that has not ended.                         *)
EndpointOK == ep = "running" =>
    Overtaken \/ \E w \in DOMAIN waves :
                    waves[w].job \in {"running", "ended"} /\ ~EndIn(waves[w].log)

(* An execution belongs to a wave that ran; one published behind the look   *)
(* of a pass belongs to a wave of which that look saw no end.               *)
ExecutionsOK ==
    \A t \in Trials : \A i \in DOMAIN execs[t] :
        LET e == execs[t][i] IN
        /\ e.w \in DOMAIN waves /\ waves[e.w].job \in {"running", "ended"}
        /\ pass.pc = "observed" /\ ~Overtaken /\ ~e.seen =>
              ~SeenEndIn(waves[e.w].log) /\ ~SeenFailedIn(waves[e.w].log)

(* Nothing runs, and what ran was observed.                                 *)
Quiet == /\ \A a \in DOMAIN acts : Lives(a) => EndIn(waves[acts[a].wave].log)
         /\ \A t \in Trials : \A i \in DOMAIN execs[t] : execs[t][i].seen

Deciding == Viewing \cup {"applied", "published"}

(* What the decision to end the campaign rests on.                          *)
DecisionOK ==
    /\ pass.pc \in Deciding =>
          /\ pass.view.dec \in CampaignTerminal \cup {"none"}
          /\ pass.view.dec # "none" => Overtaken \/ Quiet
    /\ pass.pc \in {"observed", "recovered"} /\ pass.view.dec # "none" =>
          \/ pass.view.st \in Cancelling \cup CampaignTerminal
          \/ /\ \A t \in Trials : pass.view.ts[t] \in TrialTerminal
             /\ \A s \in Locked : pass.view.shards[s] # "planned"
    /\ pass.pc = "published" => pass.view.dec # "none"
    /\ pass.pc = "applied" /\ acts[pass.act].kind = "publish-summary"
         /\ pass.out = "succeeded" => pass.view.dec # "none"
    /\ TerminalRecorded => pass = Idle /\ (Overtaken \/ Quiet)

ReconcilerInv ==
    /\ ReconcilerTypes /\ ActionsOK /\ JobsOK /\ EndsOK /\ TurnsOK /\ HaltsOK
    /\ ViewOK /\ SelectedOK /\ EndpointOK /\ ExecutionsOK /\ DecisionOK

-----------------------------------------------------------------------------
(* Views *)

(* What one event does to the view of a wave.                               *)
LEMMA ReplayStep ==
    ASSUME NEW v \in [st : WaveStates, est : Estimates], NEW e \in Events
    PROVE  LET r == ReplayWaveEvent(v, e) IN
           /\ r \in [st : WaveStates, est : Estimates]
           /\ r.st = "closed" => v.st = "closed" \/ (e.seen /\ e.kind \in Ends)
           /\ r.st = "cleanup_failed" =>
                v.st = "cleanup_failed" \/ (e.seen /\ e.kind = "cleanup_failed")
           /\ v.st \in {"closed", "bad"} \/ (e.seen /\ e.kind \in Ends)
                => r.st \in {"closed", "bad"}
  <1> DEFINE r == ReplayWaveEvent(v, e)
  <1>1. /\ v.st \in WaveStates /\ v.est \in Estimates /\ e.kind \in EventKinds
        /\ e.est \in Estimates /\ e.seen \in BOOLEAN
        /\ BadWave \in [st : WaveStates, est : Estimates] /\ BadWave.st = "bad"
        /\ [st |-> e.kind, est |-> e.est] \in [st : WaveStates, est : Estimates]
        /\ \A k \in EventKinds : /\ [v EXCEPT !.st = k] \in [st : WaveStates, est : Estimates]
                                 /\ [v EXCEPT !.st = k].st = k
    BY DEF Events, WaveStates, EventKinds, BadWave, Estimates
  <1>2. v.st = "closed" => Transitions[v.st] = {}
    BY DEF Transitions
  <1>3. CASE ~e.seen
    BY <1>1, <1>3 DEF ReplayWaveEvent
  <1>4. CASE e.seen /\ v.st = "bad"
    BY <1>1, <1>4 DEF ReplayWaveEvent, ApplyWaveEvent
  <1>5. CASE e.seen /\ v.st # "bad" /\ e.kind = "resolved"
    <2>1. r = IF v.st \in {"cleanup_failed", "closed"} THEN [v EXCEPT !.st = "closed"]
              ELSE BadWave
      BY <1>5 DEF ReplayWaveEvent, ApplyWaveEvent
    <2>2. "closed" \in EventKinds
      BY DEF EventKinds
    <2>3. QED
      BY <1>1, <1>5, <2>1, <2>2 DEF Ends
  <1>6. CASE e.seen /\ v.st = "unknown" /\ e.kind # "resolved"
    <2>1. r = [st |-> e.kind, est |-> e.est]
      BY <1>6 DEF ReplayWaveEvent, ApplyWaveEvent
    <2>2. QED
      BY <1>1, <1>6, <2>1 DEF Ends
  <1>7. CASE e.seen /\ v.st \notin {"bad", "unknown"} /\ e.kind # "resolved"
    <2>1. \/ r = BadWave
          \/ r = v /\ StaleTransition(v, e)
          \/ r = [v EXCEPT !.st = e.kind] /\ (e.kind = v.st \/ e.kind \in Transitions[v.st])
      BY <1>7 DEF ReplayWaveEvent, ApplyWaveEvent
    <2>2. CASE r = BadWave
      BY <1>1, <2>2
    <2>3. CASE r = v /\ StaleTransition(v, e)
      BY <1>1, <1>7, <2>3 DEF StaleTransition, Ends
    <2>4. CASE r = [v EXCEPT !.st = e.kind] /\ (e.kind = v.st \/ e.kind \in Transitions[v.st])
      <3>1. r \in [st : WaveStates, est : Estimates] /\ r.st = e.kind
        BY <1>1, <2>4
      <3>2. v.st = "closed" => r.st = "closed"
        BY <1>2, <2>4, <3>1
      <3>3. e.kind \in Ends => e.kind = "closed"
        BY <1>7 DEF Ends
      <3> HIDE DEF r
      <3>4. QED
        BY <1>1, <1>7, <3>1, <3>2, <3>3 DEF r, Ends
    <2>5. QED
      BY <2>1, <2>2, <2>3, <2>4
  <1>8. QED
    BY <1>1, <1>3, <1>4, <1>5, <1>6, <1>7

(* What the view of a wave tells of its timeline, and the other way round.  *)
LEMMA WaveViewTells ==
    ASSUME NEW log \in Seq(Events)
    PROVE  LET v == WaveView(log) IN
           /\ v \in [st : WaveStates, est : Estimates]
           /\ v.st = "closed" => SeenEndIn(log)
           /\ v.st # "unknown" => log # <<>>
           /\ v.st = "cleanup_failed" => SeenFailedIn(log) /\ FailedIn(log)
           /\ SeenEndIn(log) => v.st \in {"closed", "bad"}
  <1>1. PICK g : /\ g[0] = Unknown
                 /\ \A k \in 1..Len(log) : g[k] = ReplayWaveEvent(g[k - 1], log[k])
                 /\ WaveView(log) = g[Len(log)]
    BY WaveReplays
  <1> DEFINE n == Len(log)
             P(k) == /\ g[k] \in [st : WaveStates, est : Estimates]
                     /\ g[k].st = "closed" =>
                          \E i \in 1..k : log[i].seen /\ log[i].kind \in Ends
                     /\ g[k].st = "cleanup_failed" =>
                          \E i \in 1..k : log[i].seen /\ log[i].kind = "cleanup_failed"
                     /\ (\E i \in 1..k : log[i].seen /\ log[i].kind \in Ends) =>
                          g[k].st \in {"closed", "bad"}
             Bad == {k \in 0..n : ~ P(k)}
  <1>2. n \in Nat /\ DOMAIN log = 1..n /\ \A k \in 1..n : log[k] \in Events
    OBVIOUS
  <1>3. P(0)
    <2>1. Unknown \in [st : WaveStates, est : Estimates] /\ Unknown.st = "unknown"
      BY DEF Unknown, WaveStates, Estimates
    <2>2. QED
      BY <1>1, <2>1
  <1>4. ASSUME NEW k \in 1..n, P(k - 1) PROVE P(k)
    <2>1. /\ k \in Nat /\ k - 1 \in Nat /\ log[k] \in Events
          /\ g[k] = ReplayWaveEvent(g[k - 1], log[k])
      BY <1>1, <1>2
    <2>2. /\ g[k] \in [st : WaveStates, est : Estimates]
          /\ g[k].st = "closed" => g[k - 1].st = "closed" \/ (log[k].seen /\ log[k].kind \in Ends)
          /\ g[k].st = "cleanup_failed" =>
               g[k - 1].st = "cleanup_failed" \/ (log[k].seen /\ log[k].kind = "cleanup_failed")
          /\ g[k - 1].st \in {"closed", "bad"} \/ (log[k].seen /\ log[k].kind \in Ends)
               => g[k].st \in {"closed", "bad"}
      <3>1. PICK p \in [st : WaveStates, est : Estimates] : p = g[k - 1]
        BY <1>4
      <3>2. PICK e \in Events : e = log[k]
        BY <2>1
      <3>3. PICK r : r = ReplayWaveEvent(p, e)
        OBVIOUS
      <3>4. /\ r \in [st : WaveStates, est : Estimates]
            /\ r.st = "closed" => p.st = "closed" \/ (e.seen /\ e.kind \in Ends)
            /\ r.st = "cleanup_failed" =>
                 p.st = "cleanup_failed" \/ (e.seen /\ e.kind = "cleanup_failed")
            /\ p.st \in {"closed", "bad"} \/ (e.seen /\ e.kind \in Ends)
                 => r.st \in {"closed", "bad"}
        BY <3>3, ReplayStep
      <3>5. g[k] = r
        BY <2>1, <3>1, <3>2, <3>3
      <3>6. QED
        BY <3>1, <3>2, <3>4, <3>5
    <2>3. \A i : i \in 1..k <=> i \in 1..(k - 1) \/ i = k
      BY <2>1
    <2>4. QED
      BY <1>4, <2>2, <2>3
  <1>5. Bad = {}
    <2>1. SUFFICES ASSUME Bad # {} PROVE FALSE
      OBVIOUS
    <2>2. PICK b \in Bad : \A m \in Bad : b <= m
      <3>1. Bad \subseteq Nat
        OBVIOUS
      <3> HIDE DEF Bad
      <3>2. QED
        BY <2>1, <3>1, Least
    <2>3. b \in 0..n /\ ~P(b)
      OBVIOUS
    <2>4. b # 0 => b \in 1..n /\ b - 1 \in 0..n /\ b - 1 \notin Bad
      <3> HIDE DEF Bad, P
      <3> QED
        BY <1>2, <2>2, <2>3
    <2>5. b # 0 => P(b - 1)
      BY <2>4
    <2> HIDE DEF P
    <2>6. QED
      BY <1>3, <1>4, <2>3, <2>4, <2>5
  <1>6. P(n)
    <2>1. n \in 0..n
      BY <1>2
    <2> HIDE DEF P
    <2>2. QED
      BY <1>5, <2>1
  <1>7. log = <<>> => g[n] = Unknown /\ Unknown.st = "unknown"
    BY <1>1 DEF Unknown
  <1>8. QED
    BY <1>1, <1>2, <1>6, <1>7 DEF SeenEndIn, FailedIn, SeenFailedIn

(* Only a resolution lets a campaign go on.                                 *)
LEMMA EventsStop ==
    ASSUME NEW S, NEW c \in Seq(S), NEW e \in S,
           e.kind \in CampaignKinds, e.kind # "resolved"
    PROVE  CampaignView(Append(c, e)).st # "active"
  <1> DEFINE d == Append(c, e)
             n == Len(d)
  <1>1. d \in Seq(S) /\ n \in Nat /\ n \in 1..n /\ d[n] = e
    OBVIOUS
  <1>2. PICK g : /\ \A k \in 1..Len(d) : g[k] = ApplyCampaignEvent(g[k - 1], d[k])
                 /\ CampaignView(d) = g[Len(d)]
    BY <1>1, CampaignReplays
  <1>3. CampaignView(d) = ApplyCampaignEvent(g[n - 1], e)
    BY <1>1, <1>2
  <1> HIDE DEF d, n
  <1>4. ApplyCampaignEvent(g[n - 1], e).st # "active"
    BY DEF ApplyCampaignEvent, CampaignKinds, CampaignTerminal
  <1>5. QED
    BY <1>3, <1>4 DEF d

(* Only the record of an end ends a campaign.                               *)
LEMMA EndsAreRecorded ==
    ASSUME NEW S, NEW c \in Seq(S), \A i \in DOMAIN c : c[i].kind \notin CampaignTerminal
    PROVE  CampaignView(c).st \notin CampaignTerminal
  <1> DEFINE n == Len(c)
  <1>1. n \in Nat /\ DOMAIN c = 1..n
    OBVIOUS
  <1>2. PICK g : /\ g[0] = NewCampaign
                 /\ \A k \in 1..Len(c) : g[k] = ApplyCampaignEvent(g[k - 1], c[k])
                 /\ CampaignView(c) = g[Len(c)]
    BY CampaignReplays
  <1>3. CASE n = 0
    BY <1>2, <1>3 DEF NewCampaign, CampaignTerminal
  <1>4. CASE n # 0
    <2>1. n \in 1..n /\ c[n].kind \notin CampaignTerminal
      BY <1>1, <1>4
    <2>2. CampaignView(c) = ApplyCampaignEvent(g[n - 1], c[n])
      BY <1>2, <2>1
    <2> HIDE DEF n
    <2>3. ApplyCampaignEvent(g[n - 1], c[n]).st \notin CampaignTerminal
      BY <2>1 DEF ApplyCampaignEvent, ResolvedStatus, CampaignTerminal
    <2>4. QED
      BY <2>2, <2>3
  <1>5. QED
    BY <1>3, <1>4

-----------------------------------------------------------------------------
(* Candidates *)

Candidate == [kind : ActionKinds, wave : Nat, by : {"wave", "act", "trials", "shards", "summary"},
              trials : SUBSET Trials, est : Estimates]

Judging == pass.pc \in {"observed", "recovered"}

(* The waves of the actions are waves.                                      *)
LEMMA WavesOfActions ==
    ASSUME ReconcilerInv
    PROVE  /\ \A w \in DOMAIN waves : waves[w] \in Waves /\ w \in Nat
           /\ \A a \in DOMAIN acts : acts[a] \in Actions /\ a \in Nat
           /\ \A a \in DOMAIN acts : Bills(a) => acts[a].wave \in DOMAIN waves
BY DEF ReconcilerInv, ReconcilerTypes, ActionsOK, Bills

(* The cleanup of a wave the events know.                                   *)
LEMMA CleanupCandidates ==
    ASSUME ReconcilerInv, Judging, NEW w \in Known(pass.view), NEW c \in WaveCleanup(pass.view, w)
    PROVE  /\ c \in Candidate /\ c.kind \in OnWaveKinds /\ c.wave \in DOMAIN waves
           /\ waves[c.wave].log # <<>>
  <1>1. w \in DOMAIN waves /\ w \in Nat /\ waves[w] \in Waves /\ waves[w].log # <<>>
    BY WavesOfActions DEF Known, ReconcilerInv, ViewOK, Judging, Viewing
  <1>2. PICK k \in OnWaveKinds : c = OnWave(k, w, "wave")
    BY DEF WaveCleanup, OnWaveKinds
  <1>3. 0 \in Estimates /\ waves[w].trials \in SUBSET Trials
    BY <1>1 DEF Estimates, Waves
  <1>4. QED
    BY <1>1, <1>2, <1>3 DEF OnWave, Candidate, ActionKinds

(* The cancellation of a wave nothing was observed of: the campaign stops.  *)
LEMMA CancellationCandidates ==
    ASSUME ReconcilerInv, Judging, pass.view.st \in Cancelling,
           NEW c \in UnobservedCancellations(pass.view)
    PROVE  /\ c \in Candidate /\ c.kind \in OnWaveKinds /\ c.wave \in DOMAIN waves
           /\ Halted
  <1> DEFINE v == pass.view
  <1>1. PICK w \in UnobservedWaves(v) : \E k \in OnWaveKinds : c = OnWave(k, w, "act")
    BY DEF UnobservedCancellations, OnWaveKinds
  <1>2. PICK a \in DOMAIN acts : Lives(a) /\ acts[a].wave = w
    BY <1>1 DEF UnobservedWaves, Lives, Bills
  <1>3. w \in DOMAIN waves /\ w \in Nat /\ waves[w] \in Waves
    BY <1>2, WavesOfActions DEF Lives
  <1>4. 0 \in Estimates /\ waves[w].trials \in SUBSET Trials
    BY <1>3 DEF Estimates, Waves
  <1>5. c \in Candidate /\ c.kind \in OnWaveKinds /\ c.wave \in DOMAIN waves
    BY <1>1, <1>3, <1>4 DEF OnWave, Candidate, ActionKinds
  <1>6. SUFFICES ASSUME ~Halted PROVE FALSE
    BY <1>5
  <1>7. DOMAIN v.waves = DOMAIN waves
    BY DEF ReconcilerInv, ViewOK, Judging
  <1>8. PICK u \in DOMAIN waves : v.waves[u].st = "cleanup_failed"
    BY <1>6 DEF ReconcilerInv, ViewOK, Judging
  <1>9. waves[u].job = "ended" /\ u \in DOMAIN v.waves
    BY <1>7, <1>8 DEF ReconcilerInv, ViewOK, Judging, Viewing, JobsOK
  <1>10. PICK b \in DOMAIN acts : Bills(b) /\ acts[b].wave = u
    BY DEF ReconcilerInv, ActionsOK
  <1>11. Lives(b)
    BY <1>9, <1>10 DEF ReconcilerInv, ActionsOK, Lives
  <1>12. u # w
    <2>1. w \in DOMAIN v.waves => v.waves[w].st = "unknown"
      BY <1>1 DEF UnobservedWaves, Known
    <2>2. QED
      BY <1>3, <1>7, <1>8, <2>1
  <1>13. a # b /\ a \in Nat /\ b \in Nat
    BY <1>2, <1>10, <1>12, WavesOfActions
  <1>14. CASE a < b
    <2>1. v.waves[w].st = "closed"
      BY <1>2, <1>11, <1>14 DEF ReconcilerInv, ViewOK, Judging
    <2>2. QED
      BY <1>1, <1>3, <1>7, <2>1 DEF UnobservedWaves, Known
  <1>15. CASE b < a
    <2>1. v.waves[u].st = "closed"
      BY <1>2, <1>10, <1>11, <1>15 DEF ReconcilerInv, ViewOK, Judging
    <2>2. QED
      BY <1>8, <2>1
  <1>16. QED
    BY <1>13, <1>14, <1>15

(* There is a retry only for a trial that is not over.                      *)
LEMMA RetriesAreTyped ==
    ASSUME NEW v, NEW c \in RetryCandidates(v)
    PROVE  /\ c \in Candidate /\ c.kind = "retry-shard"
           /\ \E t \in Trials : v.ts[t] \notin TrialTerminal
  <1> DEFINE reserved == UNION {acts[a].trials : a \in
                             {b \in DOMAIN acts : acts[b].kind = "retry-shard" /\ ~Spent(v, b)}}
             ready == {t \in Trials \ reserved : RetryReady(v, t)}
  <1>1. PICK q \in Chunks(ShardsOf(ready)) :
           c = [kind |-> "retry-shard", wave |-> 0, by |-> "trials",
                trials |-> ready \cap ShardTrials(q),
                est |-> PartialCost(Cardinality(ready \cap ShardTrials(q)))]
    BY DEF RetryCandidates
  <1> HIDE DEF reserved
  <1> DEFINE T == ready \cap ShardTrials(q)
  <1>2. T \in SUBSET Trials
    OBVIOUS
  <1>3. PartialCost(Cardinality(T)) \in Estimates
    BY <1>2 DEF Estimates
  <1>4. ready # {}
    <2>1. ShardsOf(ready) # {}
      BY DEF Chunks
    <2>2. QED
      BY <2>1 DEF ShardsOf
  <1>5. \E t \in Trials : RetryReady(v, t)
    BY <1>4
  <1> HIDE DEF ready
  <1>6. \E t \in Trials : v.ts[t] \notin TrialTerminal
    BY <1>5 DEF RetryReady, TrialTerminal, Scored
  <1> HIDE DEF T
  <1>7. c \in Candidate /\ c.kind = "retry-shard"
    <2>1. c = [kind |-> "retry-shard", wave |-> 0, by |-> "trials", trials |-> T,
               est |-> PartialCost(Cardinality(T))]
      BY <1>1 DEF T
    <2>2. QED
      BY <1>2, <1>3, <2>1 DEF Candidate, ActionKinds, Billable
  <1>8. QED
    BY <1>6, <1>7

(* There is a new wave only for a shard that has not begun.                 *)
LEMMA NewWavesAreTyped ==
    ASSUME NEW v, NEW c \in NewWaveCandidates(v)
    PROVE  /\ c \in Candidate /\ c.kind = "submit-wave"
           /\ \E s \in Locked : v.shards[s] = "planned"
  <1> DEFINE free == {s \in Locked \ AssignedShards(v) : v.shards[s] = "planned"}
  <1>1. PICK q \in Chunks(free) :
           c = [kind |-> "submit-wave", wave |-> 0, by |-> "shards", trials |-> ShardTrials(q),
                est |-> WaveCost]
    BY DEF NewWaveCandidates
  <1>2. free # {}
    BY <1>1 DEF Chunks
  <1>3. ShardTrials(q) \in SUBSET Trials /\ WaveCost \in Estimates
    BY DEF ShardTrials, Estimates
  <1>4. c \in Candidate /\ c.kind = "submit-wave"
    BY <1>1, <1>3 DEF Candidate, ActionKinds, Billable
  <1>5. QED
    BY <1>2, <1>4

(* What a pass plans.                                                       *)
LEMMA PlannedIsSafe ==
    ASSUME ReconcilerInv, Judging, NEW c \in Planned(pass.view)
    PROVE  /\ c \in Candidate
           /\ c.kind \in OnWaveKinds => c.wave \in DOMAIN waves
           /\ c.kind \in {"drain-wave", "cleanup-wave"} /\ waves[c.wave].log = <<>> => Halted
           /\ c.kind \in Billable =>
                /\ pass.view.dec = "none"
                /\ \A a \in DOMAIN acts : Lives(a) => SeenEndIn(waves[acts[a].wave].log)
  <1> DEFINE v == pass.view
  <1>1. v.st \notin CampaignTerminal
    BY DEF Planned
  <1>2. PICK d \in Candidates(v) : c \in Admitted(v, d)
    BY <1>1 DEF Planned
  <1>3. /\ d \in Candidate
        /\ d.kind \in OnWaveKinds => d.wave \in DOMAIN waves
        /\ d.kind \in {"drain-wave", "cleanup-wave"} /\ waves[d.wave].log = <<>> => Halted
        /\ d.kind \in Billable => v.dec = "none"
    <2> DEFINE summary == [kind |-> "publish-summary", wave |-> 0, by |-> "summary",
                           trials |-> {}, est |-> 0]
    <2>1. \/ \E w \in Known(v) : d \in WaveCleanup(v, w)
          \/ v.st \in Cancelling /\ d \in UnobservedCancellations(v)
          \/ v.st \notin Cancelling /\ d \in RetryCandidates(v)
          \/ v.st \notin Cancelling /\ d \in NewWaveCandidates(v)
          \/ d = summary
      <3> DEFINE S1 == UNION {WaveCleanup(v, w) : w \in Known(v)}
                 S2 == IF v.st \in Cancelling THEN UnobservedCancellations(v)
                       ELSE RetryCandidates(v) \cup NewWaveCandidates(v)
                 S3 == IF v.dec = "none" THEN {} ELSE {summary}
      <3>1. Candidates(v) = S1 \cup S2 \cup S3
        BY DEF Candidates
      <3>2. d \in S1 => \E w \in Known(v) : d \in WaveCleanup(v, w)
        OBVIOUS
      <3>3. d \in S3 => d = summary
        OBVIOUS
      <3> HIDE DEF S1, S3, summary, v
      <3>4. QED
        BY <1>2, <3>1, <3>2, <3>3
    <2>2. OnWaveKinds \cap Billable = {}
      BY DEF OnWaveKinds, Billable
    <2>3. CASE \E w \in Known(v) : d \in WaveCleanup(v, w)
      BY <2>2, <2>3, CleanupCandidates
    <2>4. CASE v.st \in Cancelling /\ d \in UnobservedCancellations(v)
      BY <2>2, <2>4, CancellationCandidates
    <2>5. v.st \notin Cancelling /\ v.dec # "none" =>
             /\ \A t \in Trials : v.ts[t] \in TrialTerminal
             /\ \A s \in Locked : v.shards[s] # "planned"
      BY <1>1 DEF ReconcilerInv, DecisionOK, Judging
    <2>6. CASE v.st \notin Cancelling /\ d \in RetryCandidates(v)
      <3>1. d \in Candidate /\ d.kind = "retry-shard" /\ v.dec = "none"
        BY <2>5, <2>6, RetriesAreTyped
      <3>2. QED
        BY <3>1 DEF OnWaveKinds
    <2>7. CASE v.st \notin Cancelling /\ d \in NewWaveCandidates(v)
      <3>1. d \in Candidate /\ d.kind = "submit-wave" /\ v.dec = "none"
        BY <2>5, <2>7, NewWavesAreTyped
      <3>2. QED
        BY <3>1 DEF OnWaveKinds
    <2>8. CASE d = summary
      <3>1. summary \in Candidate
        BY DEF Candidate, ActionKinds, Estimates
      <3>2. QED
        BY <2>8, <3>1 DEF OnWaveKinds, Billable
    <2>9. QED
      BY <2>1, <2>3, <2>4, <2>6, <2>7, <2>8
  <1>4. CASE c = d
    <2>1. c.kind \in Billable => OpenWaves(v) = {}
      BY <1>2, <1>4 DEF Admitted, BudgetReason
    <2>2. ASSUME OpenWaves(v) = {}, NEW a \in DOMAIN acts, Lives(a)
          PROVE  SeenEndIn(waves[acts[a].wave].log)
      <3>1. acts[a].wave \in Known(v)
        BY <2>2 DEF OpenWaves, UnobservedWaves, Lives, Bills
      <3>2. acts[a].wave \in Closed(v)
        BY <2>2, <3>1 DEF OpenWaves
      <3>3. QED
        BY <3>2 DEF Closed, ReconcilerInv, ViewOK, Judging, Viewing
    <2>3. QED
      BY <1>3, <1>4, <2>1, <2>2
  <1>5. CASE c = [d EXCEPT !.kind = "exhaust-trials", !.est = 0]
    <2>1. "exhaust-trials" \in ActionKinds /\ 0 \in Estimates
      BY DEF ActionKinds, Estimates
    <2>2. c \in Candidate /\ c.kind = "exhaust-trials"
      BY <1>3, <1>5, <2>1 DEF Candidate
    <2>3. QED
      BY <2>2 DEF OnWaveKinds, Billable
  <1>6. QED
    BY <1>2, <1>4, <1>5 DEF Admitted

-----------------------------------------------------------------------------
(* Timelines *)

(* A timeline with one more event.                                          *)
LEMMA OneMoreEvent ==
    ASSUME NEW log \in Seq(Events), NEW e \in Events
    PROVE  LET more == Append(log, e) IN
           /\ more \in Seq(Events) /\ more # <<>>
           /\ EndIn(more) <=> EndIn(log) \/ e.kind \in Ends
           /\ SeenEndIn(more) <=> SeenEndIn(log) \/ (e.seen /\ e.kind \in Ends)
           /\ FailedIn(more) <=> FailedIn(log) \/ e.kind = "cleanup_failed"
           /\ SeenFailedIn(more) <=> SeenFailedIn(log) \/ (e.seen /\ e.kind = "cleanup_failed")
  <1> DEFINE more == Append(log, e)
             n == Len(log)
  <1>1. /\ n \in Nat /\ DOMAIN log = 1..n /\ DOMAIN more = 1..(n + 1)
        /\ \A i \in 1..n : more[i] = log[i]
        /\ more[n + 1] = e /\ more \in Seq(Events) /\ more # <<>>
    OBVIOUS
  <1>2. \A i : i \in 1..(n + 1) <=> i \in 1..n \/ i = n + 1
    BY <1>1
  <1> HIDE DEF more, n
  <1>3. QED
    BY <1>1, <1>2 DEF EndIn, SeenEndIn, FailedIn, SeenFailedIn, more

(* What the reconciler records once.                                        *)
LEMMA RecordedOnce ==
    ASSUME NEW log \in Seq(Events), NEW kind \in {"draining", "cleaning", "closed"},
           NEW est \in Estimates
    PROVE  LET more == Recorded(log, kind, est) IN
           /\ more \in Seq(Events) /\ more # <<>>
           /\ EndIn(more) <=> EndIn(log) \/ kind = "closed"
           /\ kind # "closed" => (SeenEndIn(more) <=> SeenEndIn(log))
           /\ SeenEndIn(log) => SeenEndIn(more)
           /\ FailedIn(more) <=> FailedIn(log)
           /\ SeenFailedIn(more) <=> SeenFailedIn(log)
  <1> DEFINE e == [kind |-> kind, by |-> "reconciler", est |-> est, seen |-> TRUE]
  <1>1. e \in Events
    BY DEF Events, EventKinds
  <1>2. CASE \E i \in DOMAIN log : log[i].by = "reconciler" /\ log[i].kind = kind
    <2>1. Recorded(log, kind, est) = log
      BY <1>2 DEF Recorded
    <2>2. log # <<>>
      BY <1>2
    <2>3. kind = "closed" => EndIn(log)
      BY <1>2 DEF EndIn, Ends
    <2>4. QED
      BY <2>1, <2>2, <2>3
  <1>3. CASE ~ \E i \in DOMAIN log : log[i].by = "reconciler" /\ log[i].kind = kind
    <2>1. Recorded(log, kind, est) = Append(log, e)
      BY <1>3 DEF Recorded
    <2>2. kind \in Ends <=> kind = "closed"
      BY DEF Ends
    <2> HIDE DEF e
    <2>3. e.kind = kind /\ e.seen
      BY DEF e
    <2>4. QED
      BY <1>1, <2>1, <2>2, <2>3, OneMoreEvent
  <1>4. QED
    BY <1>2, <1>3

-----------------------------------------------------------------------------
(* Steps *)

(* The Job of a wave belongs to an action that did not fail.                *)
LEMMA JobsHaveActions ==
    ASSUME ReconcilerInv, NEW w \in DOMAIN waves, waves[w].job # "none"
    PROVE  \E a \in DOMAIN acts : Lives(a) /\ acts[a].wave = w
  <1>1. PICK a \in DOMAIN acts : Bills(a) /\ acts[a].wave = w
    BY DEF ReconcilerInv, ActionsOK
  <1>2. QED
    BY <1>1 DEF ReconcilerInv, ActionsOK, Lives

(* No Job runs when every wave has ended.                                   *)
LEMMA QuietIsStill ==
    ASSUME ReconcilerInv, Quiet, ~Overtaken
    PROVE  \A w \in DOMAIN waves : ~Live(w)
  <1> SUFFICES ASSUME NEW w \in DOMAIN waves, Live(w) PROVE FALSE
    OBVIOUS
  <1>1. waves[w].job # "none"
    BY DEF Live
  <1>2. EndIn(waves[w].log)
    BY <1>1, JobsHaveActions DEF Quiet
  <1>3. QED
    BY <1>2 DEF ReconcilerInv, EndsOK

(* A step that starts no Job and forgets nothing.                           *)
Later ==
    /\ plan' = plan /\ acts' = acts
    /\ \A t \in Trials :
          /\ DOMAIN execs'[t] = DOMAIN execs[t]
          /\ \A i \in DOMAIN execs[t] :
                execs'[t][i].w = execs[t][i].w /\ (execs[t][i].seen => execs'[t][i].seen)
    /\ DOMAIN waves' = DOMAIN waves
    /\ \A w \in DOMAIN waves :
          /\ EndIn(waves[w].log) => EndIn(waves'[w].log)
          /\ SeenEndIn(waves[w].log) => SeenEndIn(waves'[w].log)
          /\ FailedIn(waves[w].log) => FailedIn(waves'[w].log)
          /\ waves[w].log # <<>> => waves'[w].log # <<>>
          /\ waves'[w].revived = waves[w].revived
          /\ waves'[w].job = "none" <=> waves[w].job = "none"
          /\ waves[w].job \in {"running", "ended"} => waves'[w].job \in {"running", "ended"}
    /\ Halted => Halted'
    /\ Resolved => Resolved'

(* What such a step keeps whatever it does.                                 *)
LEMMA LaterKeeps ==
    ASSUME ReconcilerInv, Later
    PROVE  /\ ActionsOK' /\ TurnsOK' /\ (Overtaken' <=> Overtaken) /\ (Quiet => Quiet')
           /\ \A a \in DOMAIN acts' :
                acts'[a].kind \in {"drain-wave", "cleanup-wave"} /\ waves'[acts'[a].wave].log = <<>>
                  => Halted'
           /\ \A t \in Trials' : \A i \in DOMAIN execs'[t] :
                /\ execs'[t][i].w \in DOMAIN waves'
                /\ waves'[execs'[t][i].w].job \in {"running", "ended"}
           /\ (Overtaken => Resolved)'
  <1>1. Trials' = Trials
    BY DEF Later, Trials, shardOf
  <1>2. Overtaken' <=> Overtaken
    BY DEF Later, Overtaken
  <1>3. ActionsOK'
    BY DEF Later, ReconcilerInv, ActionsOK, Bills
  <1>4. TurnsOK'
    BY WavesOfActions DEF Later, ReconcilerInv, TurnsOK, Lives, Bills
  <1>5. Quiet => Quiet'
    BY <1>1, WavesOfActions DEF Later, Quiet, Lives, Bills
  <1>6. \A a \in DOMAIN acts : acts[a].kind \in {"drain-wave", "cleanup-wave"} =>
           acts[a].wave \in DOMAIN waves
    BY DEF ReconcilerInv, ActionsOK, OnWaveKinds
  <1>7. QED
    BY <1>1, <1>2, <1>3, <1>4, <1>5, <1>6 DEF Later, ReconcilerInv, HaltsOK, ExecutionsOK

(* The pass that goes on beside such a step.                                *)
LEMMA PassGoesOn ==
    ASSUME ReconcilerInv, Later, pass' = pass,
           \A w \in DOMAIN waves :
             waves[w].job = "none" /\ waves'[w].log # <<>> => waves[w].log # <<>>,
           TerminalRecorded' <=> TerminalRecorded
    PROVE  ViewOK' /\ SelectedOK' /\ DecisionOK' /\ HaltsOK'
  <1>1. Trials' = Trials /\ Locked' = Locked /\ Estimates' = Estimates
    BY DEF Later, Trials, shardOf, Locked, ShardsOf, Estimates, PartialCost, Chunks, ShardTrials
  <1>2. ViewOK'
    <2>1. ASSUME pass.pc \in Viewing
          PROVE  LET v == pass.view IN
                 /\ DOMAIN v.waves \subseteq DOMAIN waves'
                 /\ \A w \in DOMAIN v.waves :
                      /\ v.waves[w].est \in Estimates'
                      /\ v.waves[w].st = "closed" => SeenEndIn(waves'[w].log)
                      /\ v.waves[w].st # "unknown" => waves'[w].log # <<>>
                      /\ v.waves[w].st = "cleanup_failed" => FailedIn(waves'[w].log)
      BY <1>1, <2>1 DEF ReconcilerInv, ViewOK, Later
    <2>2. pass.pc \in Viewing /\ pass.view.st = "active" =>
             \A w \in DOMAIN waves' : waves'[w].job = "none" /\ waves'[w].log # <<>> => Resolved'
      BY DEF ReconcilerInv, ViewOK, Later
    <2>3. pass.pc \in {"observed", "recovered"} =>
            LET v == pass.view IN
            /\ DOMAIN v.waves = DOMAIN waves'
            /\ \A a, b \in DOMAIN acts :
                 Lives(a)' /\ Lives(b)' /\ a < b => v.waves[acts[a].wave].st = "closed"
            /\ v.st \in Cancelling =>
                 Halted' \/ \E w \in DOMAIN waves' : v.waves[w].st = "cleanup_failed"
      BY DEF ReconcilerInv, ViewOK, Later, Lives, Bills
    <2>4. QED
      BY <2>1, <2>2, <2>3 DEF ViewOK, Later
  <1>3. SelectedOK'
    BY WavesOfActions DEF ReconcilerInv, SelectedOK, Later, Pending, Bills
  <1>4. DecisionOK'
    BY <1>1, LaterKeeps DEF ReconcilerInv, DecisionOK, Later
  <1>5. HaltsOK'
    BY LaterKeeps DEF ReconcilerInv, HaltsOK, Later
  <1>6. QED
    BY <1>2, <1>3, <1>4, <1>5

(* The pass that has done something.                                        *)
LEMMA PassHasActed ==
    ASSUME ReconcilerInv, Later, NEW out \in {"succeeded", "failed", "ambiguous"},
           pass.pc = "selected", Outcome(out),
           \A w \in DOMAIN waves : waves'[w].job = "none" /\ waves'[w].log # <<>> => Halted',
           ~TerminalRecorded',
           Bills(pass.act) /\ out = "failed" => waves[acts[pass.act].wave].job = "none",
           acts[pass.act].kind = "publish-summary" /\ out = "succeeded" => pass.view.dec # "none"
    PROVE  /\ ViewOK' /\ SelectedOK' /\ DecisionOK' /\ HaltsOK' /\ ExecutionsOK'
  <1>1. /\ pass'.pc = "applied" /\ pass'.act = pass.act /\ pass'.out = out
        /\ pass'.view.dec = pass.view.dec
    BY DEF Outcome
  <1>2. ViewOK'
    BY <1>1 DEF ViewOK, Viewing
  <1>3. pass.act \in Pending(acts) /\ pass.act \in DOMAIN acts
    BY DEF ReconcilerInv, SelectedOK, Pending
  <1>4. SelectedOK'
    BY <1>1, <1>3, WavesOfActions DEF SelectedOK, Later, Pending, Bills
  <1>5. DecisionOK'
    BY <1>1, LaterKeeps DEF ReconcilerInv, DecisionOK, Later, Deciding, Viewing
  <1>6. HaltsOK'
    BY LaterKeeps DEF HaltsOK, Later
  <1>7. ExecutionsOK'
    BY <1>1, LaterKeeps DEF ExecutionsOK
  <1>8. QED
    BY <1>2, <1>4, <1>5, <1>6, <1>7

(* The sets the types are made of depend on the locked campaign only.       *)
LEMMA SetsStay ==
    ASSUME plan' = plan
    PROVE  /\ Trials' = Trials /\ Locked' = Locked /\ Estimates' = Estimates
           /\ Events' = Events /\ Waves' = Waves /\ Actions' = Actions
  <1>1. Trials' = Trials /\ Locked' = Locked /\ Estimates' = Estimates
    BY DEF Trials, shardOf, Locked, ShardsOf, Estimates, PartialCost, Chunks, ShardTrials
  <1>2. Events' = Events
    BY <1>1 DEF Events
  <1>3. QED
    BY <1>1, <1>2 DEF Waves, Actions

(* A campaign event other than a resolution.                                *)
LEMMA CampaignRecords ==
    ASSUME ReconcilerInv, NEW kind \in CampaignKinds, kind # "resolved",
           NEW ws \in SUBSET Nat, clog' = clog \/ clog' = WithCampaign(kind, ws)
    PROVE  /\ clog' \in Seq([kind : CampaignKinds, ws : SUBSET Nat])
           /\ Halted => Halted'
           /\ Resolved => Resolved'
           /\ TerminalRecorded' => TerminalRecorded \/ kind \in CampaignTerminal
           /\ TerminalRecorded => TerminalRecorded'
  <1>1. clog \in Seq([kind : CampaignKinds, ws : SUBSET Nat])
    BY DEF ReconcilerInv, ReconcilerTypes
  <1>2. CASE clog' = clog
    BY <1>1, <1>2 DEF Halted, Stopped, Resolved, TerminalRecorded
  <1>3. CASE clog' # clog
    <2> DEFINE S == [kind : CampaignKinds, ws : SUBSET Nat]
               e == [kind |-> kind, ws |-> ws]
    <2>1. clog' = Append(clog, e) /\ e \in S /\ e.kind = kind
      BY <1>3 DEF WithCampaign
    <2>2. CampaignView(clog').st # "active"
      <3> HIDE DEF S, e
      <3> QED
        BY <1>1, <2>1, EventsStop DEF S
    <2>3. /\ \A i \in DOMAIN clog : i \in DOMAIN clog' /\ clog'[i] = clog[i]
          /\ \A i \in DOMAIN clog' : i \in DOMAIN clog \/ clog'[i] = e
          /\ clog' \in Seq(S)
      <3> HIDE DEF S, e
      <3> QED
        BY <1>1, <2>1 DEF S
    <2> HIDE DEF e
    <2>4. QED
      BY <2>1, <2>2, <2>3 DEF Halted, Stopped, Resolved, TerminalRecorded
  <1>4. QED
    BY <1>2, <1>3

(* A step that changes one wave.                                            *)
LEMMA WaveChange ==
    ASSUME ReconcilerInv, plan' = plan, acts' = acts, execs' = execs,
           clog' \in Seq([kind : CampaignKinds, ws : SUBSET Nat]),
           Halted => Halted', Resolved => Resolved',
           ep' \in {"paused", "running"},
           pass'.pc \in {"idle", "observed", "recovered", "selected", "applied", "published"},
           NEW w \in DOMAIN waves, NEW r \in Waves, waves' = [waves EXCEPT ![w] = r],
           EndIn(waves[w].log) => EndIn(r.log),
           SeenEndIn(waves[w].log) => SeenEndIn(r.log),
           FailedIn(waves[w].log) => FailedIn(r.log),
           waves[w].log # <<>> => r.log # <<>>,
           r.revived = waves[w].revived,
           r.job = "none" <=> waves[w].job = "none",
           waves[w].job \in {"running", "ended"} => r.job \in {"running", "ended"},
           FailedIn(r.log) => r.job = "ended",
           EndIn(r.log) /\ r.job \in {"scheduled", "running"} => Overtaken,
           ep' = "running" =>
             \/ ep = "running" /\ (EndIn(r.log) => EndIn(waves[w].log))
             \/ Overtaken \/ (r.job \in {"running", "ended"} /\ ~EndIn(r.log))
    PROVE  /\ Later /\ ReconcilerTypes' /\ JobsOK' /\ EndsOK' /\ EndpointOK'
           /\ \A u \in DOMAIN waves : waves'[u] = IF u = w THEN r ELSE waves[u]
  <1>1. /\ waves' \in Seq(Waves) /\ DOMAIN waves' = DOMAIN waves
        /\ \A u \in DOMAIN waves : waves'[u] = IF u = w THEN r ELSE waves[u]
    BY DEF ReconcilerInv, ReconcilerTypes
  <1>2. ReconcilerTypes'
    <2>1. /\ Trials' = Trials /\ Waves' = Waves /\ Actions' = Actions
      BY SetsStay
    <2>2. QED
      BY <1>1, <2>1 DEF ReconcilerInv, ReconcilerTypes
  <1>3. Later
    BY <1>1 DEF Later
  <1>4. Overtaken' <=> Overtaken
    BY <1>3, LaterKeeps
  <1>5. JobsOK'
    BY <1>1 DEF ReconcilerInv, JobsOK
  <1>6. EndsOK'
    BY <1>1, <1>4 DEF ReconcilerInv, EndsOK, Live
  <1>7. EndpointOK'
    <2>1. SUFFICES ASSUME ep' = "running", ~Overtaken
                   PROVE  \E u \in DOMAIN waves' :
                             waves'[u].job \in {"running", "ended"} /\ ~EndIn(waves'[u].log)
      BY <1>4 DEF EndpointOK
    <2>2. CASE r.job \in {"running", "ended"} /\ ~EndIn(r.log)
      BY <1>1, <2>2
    <2>3. CASE ep = "running" /\ (EndIn(r.log) => EndIn(waves[w].log))
      <3>1. PICK u \in DOMAIN waves :
               waves[u].job \in {"running", "ended"} /\ ~EndIn(waves[u].log)
        BY <2>1, <2>3 DEF ReconcilerInv, EndpointOK
      <3>2. CASE u = w
        BY <1>1, <2>3, <3>1, <3>2
      <3>3. CASE u # w
        BY <1>1, <3>1, <3>3
      <3>4. QED
        BY <3>2, <3>3
    <2>4. QED
      BY <2>1, <2>2, <2>3
  <1>8. QED
    BY <1>1, <1>2, <1>3, <1>5, <1>6, <1>7

(* A step that changes no wave.                                             *)
LEMMA NoWaveChange ==
    ASSUME ReconcilerInv, plan' = plan, acts' = acts, execs' = execs, waves' = waves,
           clog' \in Seq([kind : CampaignKinds, ws : SUBSET Nat]),
           Halted => Halted', Resolved => Resolved', ep' = ep,
           pass'.pc \in {"idle", "observed", "recovered", "selected", "applied", "published"}
    PROVE  Later /\ ReconcilerTypes' /\ JobsOK' /\ EndsOK' /\ EndpointOK'
  <1>1. Later
    BY DEF Later
  <1>2. Overtaken' <=> Overtaken
    BY <1>1, LaterKeeps
  <1>3. ReconcilerTypes'
    BY SetsStay DEF ReconcilerInv, ReconcilerTypes
  <1>4. QED
    BY <1>1, <1>2, <1>3 DEF ReconcilerInv, JobsOK, EndsOK, EndpointOK, Live

(* What workers record is not seen before it is copied.                     *)
LEMMA LooksStand ==
    ASSUME ReconcilerInv, Later, pass' = pass,
           \A w \in DOMAIN waves :
             /\ SeenEndIn(waves'[w].log) => SeenEndIn(waves[w].log)
             /\ SeenFailedIn(waves'[w].log) => SeenFailedIn(waves[w].log)
    PROVE  ExecutionsOK'
  <1>1. Trials' = Trials /\ DOMAIN waves' = DOMAIN waves
    BY SetsStay DEF Later
  <1>2. Overtaken' <=> Overtaken
    BY LaterKeeps
  <1>3. QED
    BY <1>1, <1>2, LaterKeeps DEF Later, ReconcilerInv, ExecutionsOK

(* A worker knows its wave's estimate.                                      *)
LEMMA WorkerEventTyped ==
    ASSUME ReconcilerInv, NEW w \in DOMAIN waves, NEW kind \in EventKinds
    PROVE  /\ WorkerEvent(w, kind) \in Events
           /\ WorkerEvent(w, kind).kind = kind /\ WorkerEvent(w, kind).seen = FALSE
  <1>1. \E a \in DOMAIN acts : acts[a].kind \in Billable /\ acts[a].wave = w
    BY DEF ReconcilerInv, ActionsOK, Bills
  <1>2. ActionOf(w) \in DOMAIN acts
    BY <1>1 DEF ActionOf
  <1>3. acts[ActionOf(w)].est \in Estimates
    BY <1>2, WavesOfActions DEF Actions
  <1>4. QED
    BY <1>3 DEF WorkerEvent, Events

(* A Job that dies.                                                         *)
LEMMA JobDiesKeeps ==
    ASSUME ReconcilerInv, NEW w \in DOMAIN waves, JobDies(w)
    PROVE  ReconcilerInv'
  <1> DEFINE r == [waves[w] EXCEPT !.job = "ended"]
  <1>1. /\ waves' = [waves EXCEPT ![w] = r] /\ Live(w)
        /\ UNCHANGED <<clog, acts, execs, ep, pass, plan>>
    BY DEF JobDies, SetJob, world
  <1>2. waves[w] \in Waves
    BY WavesOfActions
  <1>3. /\ r \in Waves /\ r.job = "ended" /\ r.log = waves[w].log
        /\ r.revived = waves[w].revived /\ waves[w].job \in {"scheduled", "running"}
    BY <1>1, <1>2 DEF Waves, Live
  <1>4. /\ clog' \in Seq([kind : CampaignKinds, ws : SUBSET Nat])
        /\ Halted' = Halted /\ Resolved' = Resolved /\ TerminalRecorded' = TerminalRecorded
        /\ ep' \in {"paused", "running"}
        /\ pass'.pc \in {"idle", "observed", "recovered", "selected", "applied", "published"}
    BY <1>1 DEF ReconcilerInv, ReconcilerTypes, Halted, Stopped, Resolved, TerminalRecorded
  <1> HIDE DEF r
  <1>5. /\ Later /\ ReconcilerTypes' /\ JobsOK' /\ EndsOK' /\ EndpointOK'
        /\ \A u \in DOMAIN waves : waves'[u] = IF u = w THEN r ELSE waves[u]
    BY <1>1, <1>3, <1>4, WaveChange
  <1>6. ViewOK' /\ SelectedOK' /\ DecisionOK' /\ HaltsOK'
    BY <1>1, <1>3, <1>4, <1>5, PassGoesOn
  <1>7. ExecutionsOK'
    BY <1>1, <1>3, <1>5, LooksStand
  <1>8. QED
    BY <1>5, <1>6, <1>7, LaterKeeps DEF ReconcilerInv

(* A worker that begins.                                                    *)
LEMMA WorkerStartsKeeps ==
    ASSUME ReconcilerInv, NEW w \in DOMAIN waves, WorkerStarts(w)
    PROVE  ReconcilerInv'
  <1> DEFINE e == WorkerEvent(w, "active")
             more == Append(waves[w].log, e)
             r == [waves[w] EXCEPT !.job = "running", !.log = more]
  <1>1. /\ waves' = [waves EXCEPT ![w] = r] /\ waves[w].job = "scheduled" /\ ep' = "running"
        /\ UNCHANGED <<clog, acts, execs, pass, plan>>
    BY DEF WorkerStarts, world
  <1>2. waves[w] \in Waves /\ waves[w].log \in Seq(Events)
    BY WavesOfActions DEF Waves
  <1>3. e \in Events /\ e.kind = "active" /\ ~e.seen
    BY WorkerEventTyped DEF EventKinds
  <1> HIDE DEF e
  <1>4. /\ more \in Seq(Events) /\ more # <<>>
        /\ EndIn(more) <=> EndIn(waves[w].log)
        /\ SeenEndIn(more) <=> SeenEndIn(waves[w].log)
        /\ FailedIn(more) <=> FailedIn(waves[w].log)
        /\ SeenFailedIn(more) <=> SeenFailedIn(waves[w].log)
    BY <1>2, <1>3, OneMoreEvent DEF Ends
  <1> HIDE DEF more
  <1>5. /\ r \in Waves /\ r.job = "running" /\ r.log = more /\ r.revived = waves[w].revived
    BY <1>2, <1>4 DEF Waves
  <1>6. /\ clog' \in Seq([kind : CampaignKinds, ws : SUBSET Nat])
        /\ Halted' = Halted /\ Resolved' = Resolved /\ TerminalRecorded' = TerminalRecorded
        /\ pass'.pc \in {"idle", "observed", "recovered", "selected", "applied", "published"}
    BY <1>1 DEF ReconcilerInv, ReconcilerTypes, Halted, Stopped, Resolved, TerminalRecorded
  <1> HIDE DEF r
  <1>7. ~FailedIn(waves[w].log) /\ (EndIn(waves[w].log) => Overtaken)
    BY <1>1 DEF ReconcilerInv, JobsOK, EndsOK, Live
  <1>8. /\ Later /\ ReconcilerTypes' /\ JobsOK' /\ EndsOK' /\ EndpointOK'
        /\ \A u \in DOMAIN waves : waves'[u] = IF u = w THEN r ELSE waves[u]
    BY <1>1, <1>4, <1>5, <1>6, <1>7, WaveChange
  <1>9. ViewOK' /\ SelectedOK' /\ DecisionOK' /\ HaltsOK'
    BY <1>1, <1>6, <1>8, PassGoesOn
  <1>10. ExecutionsOK'
    BY <1>1, <1>4, <1>5, <1>8, LooksStand
  <1>11. QED
    BY <1>8, <1>9, <1>10, LaterKeeps DEF ReconcilerInv

(* A worker that ends.                                                      *)
LEMMA WorkerEndsKeeps ==
    ASSUME ReconcilerInv, NEW w \in DOMAIN waves, NEW cleaned \in BOOLEAN, WorkerEnds(w, cleaned)
    PROVE  ReconcilerInv'
  <1> DEFINE e1 == WorkerEvent(w, "cleaning")
             e2 == WorkerEvent(w, "closed")
             e3 == WorkerEvent(w, "cleanup_failed")
             events == IF cleaned THEN <<e1, e2>> ELSE <<e3>>
             log == waves[w].log
             more == log \o events
             r == [waves[w] EXCEPT !.job = "ended", !.marker = TRUE, !.log = more]
  <1>1. /\ waves' = [waves EXCEPT ![w] = r] /\ waves[w].job = "running"
        /\ ep' = IF cleaned THEN "paused" ELSE ep
        /\ UNCHANGED <<clog, acts, execs, pass, plan>>
    BY DEF WorkerEnds, world
  <1>2. waves[w] \in Waves /\ log \in Seq(Events)
    BY WavesOfActions DEF Waves
  <1>3. /\ e1 \in Events /\ e1.kind = "cleaning" /\ ~e1.seen
        /\ e2 \in Events /\ e2.kind = "closed" /\ ~e2.seen
        /\ e3 \in Events /\ e3.kind = "cleanup_failed" /\ ~e3.seen
    BY WorkerEventTyped DEF EventKinds
  <1> HIDE DEF e1, e2, e3, log
  <1>4. more = IF cleaned THEN Append(Append(log, e1), e2) ELSE Append(log, e3)
    <2>1. log \o <<e1, e2>> = Append(Append(log, e1), e2)
      BY <1>2, <1>3
    <2>2. log \o <<e3>> = Append(log, e3)
      BY <1>2, <1>3
    <2>3. QED
      BY <2>1, <2>2
  <1> HIDE DEF more, events
  <1>5. /\ more \in Seq(Events) /\ more # <<>>
        /\ EndIn(more) <=> EndIn(log) \/ cleaned
        /\ SeenEndIn(more) <=> SeenEndIn(log)
        /\ FailedIn(log) => FailedIn(more)
        /\ SeenFailedIn(more) <=> SeenFailedIn(log)
    <2>1. CASE cleaned
      <3> DEFINE one == Append(log, e1)
      <3>1. /\ one \in Seq(Events)
            /\ EndIn(one) <=> EndIn(log)
            /\ SeenEndIn(one) <=> SeenEndIn(log)
            /\ FailedIn(one) <=> FailedIn(log)
            /\ SeenFailedIn(one) <=> SeenFailedIn(log)
        BY <1>2, <1>3, OneMoreEvent DEF Ends
      <3> HIDE DEF one
      <3>2. more = Append(one, e2)
        BY <1>4, <2>1 DEF one
      <3>3. QED
        BY <1>3, <2>1, <3>1, <3>2, OneMoreEvent DEF Ends
    <2>2. CASE ~cleaned
      BY <1>2, <1>3, <1>4, <2>2, OneMoreEvent DEF Ends
    <2>3. QED
      BY <2>1, <2>2
  <1>6. /\ r \in Waves /\ r.job = "ended" /\ r.log = more /\ r.revived = waves[w].revived
    BY <1>2, <1>5 DEF Waves
  <1>7. /\ clog' \in Seq([kind : CampaignKinds, ws : SUBSET Nat])
        /\ Halted' = Halted /\ Resolved' = Resolved /\ TerminalRecorded' = TerminalRecorded
        /\ ep' \in {"paused", "running"}
        /\ pass'.pc \in {"idle", "observed", "recovered", "selected", "applied", "published"}
    BY <1>1 DEF ReconcilerInv, ReconcilerTypes, Halted, Stopped, Resolved, TerminalRecorded
  <1> HIDE DEF r
  <1>8. ep' = "running" => ep = "running" /\ (EndIn(r.log) => EndIn(waves[w].log))
    BY <1>1, <1>5, <1>6 DEF log
  <1>9. /\ Later /\ ReconcilerTypes' /\ JobsOK' /\ EndsOK' /\ EndpointOK'
        /\ \A u \in DOMAIN waves : waves'[u] = IF u = w THEN r ELSE waves[u]
    BY <1>1, <1>5, <1>6, <1>7, <1>8, WaveChange DEF log
  <1>10. ViewOK' /\ SelectedOK' /\ DecisionOK' /\ HaltsOK'
    BY <1>1, <1>7, <1>9, PassGoesOn
  <1>11. ExecutionsOK'
    BY <1>1, <1>5, <1>6, <1>9, LooksStand DEF log
  <1>12. QED
    BY <1>9, <1>10, <1>11, LaterKeeps DEF ReconcilerInv

(* A trial that ends in a running wave: nobody has decided anything.        *)
LEMMA TrialEndsKeeps ==
    ASSUME ReconcilerInv, NEW w \in DOMAIN waves, NEW t \in Trials, NEW out \in Outcomes,
           TrialEnds(w, t, out)
    PROVE  ReconcilerInv'
  <1> DEFINE e == [w |-> w, out |-> out, seen |-> FALSE]
             X == [w : Nat, out : Outcomes, seen : BOOLEAN]
  <1>1. /\ execs' = [execs EXCEPT ![t] = Append(@, e)] /\ waves[w].job = "running"
        /\ UNCHANGED <<clog, acts, waves, ep, pass, plan>>
    BY DEF TrialEnds
  <1>2. w \in Nat /\ e \in X /\ e.w = w /\ ~e.seen /\ execs[t] \in Seq(X)
    BY WavesOfActions DEF ReconcilerInv, ReconcilerTypes
  <1>3. /\ Trials' = Trials /\ Waves' = Waves /\ Actions' = Actions
        /\ Estimates' = Estimates /\ Locked' = Locked
    BY <1>1, SetsStay
  <1>4. ReconcilerTypes'
    <2>1. execs \in [Trials -> Seq(X)]
      BY DEF ReconcilerInv, ReconcilerTypes
    <2> HIDE DEF X, e
    <2>2. Append(execs[t], e) \in Seq(X)
      BY <1>2
    <2>3. execs' \in [Trials -> Seq(X)]
      BY <1>1, <2>1, <2>2
    <2>4. QED
      BY <1>1, <1>3, <2>3 DEF ReconcilerInv, ReconcilerTypes, X
  <1>5. /\ Halted' = Halted /\ Resolved' = Resolved /\ TerminalRecorded' = TerminalRecorded
        /\ Overtaken' = Overtaken
    BY <1>1 DEF Halted, Stopped, Resolved, TerminalRecorded, Overtaken
  <1>6. ActionsOK' /\ JobsOK' /\ EndsOK' /\ TurnsOK' /\ HaltsOK' /\ SelectedOK' /\ EndpointOK'
    BY <1>1, <1>5 DEF ReconcilerInv, ActionsOK, JobsOK, EndsOK, TurnsOK, HaltsOK, SelectedOK,
                      EndpointOK, Lives, Bills, Live, Pending
  <1>7. ViewOK'
    BY <1>1, <1>3, <1>5 DEF ReconcilerInv, ViewOK, Lives, Bills
  <1>8. Live(w) /\ (Quiet => Overtaken)
    BY <1>1, QuietIsStill DEF Live
  <1>9. DecisionOK'
    BY <1>1, <1>3, <1>5, <1>8 DEF ReconcilerInv, DecisionOK
  <1>10. ~Overtaken => ~SeenEndIn(waves[w].log) /\ ~SeenFailedIn(waves[w].log)
    BY <1>1, <1>8 DEF ReconcilerInv, EndsOK, JobsOK, EndIn, SeenEndIn, FailedIn, SeenFailedIn
  <1>11. ExecutionsOK'
    <2>1. ASSUME NEW u \in Trials, NEW i \in DOMAIN execs'[u]
          PROVE  (i \in DOMAIN execs[u] /\ execs'[u][i] = execs[u][i]) \/ execs'[u][i] = e
      <3>1. CASE u = t
        <4>1. execs'[t] = Append(execs[t], e)
          BY <1>1 DEF ReconcilerInv, ReconcilerTypes
        <4> HIDE DEF e, X
        <4>2. QED
          BY <1>2, <2>1, <3>1, <4>1
      <3>2. CASE u # t
        <4>1. execs'[u] = execs[u]
          BY <1>1, <3>2 DEF ReconcilerInv, ReconcilerTypes
        <4>2. QED
          BY <2>1, <4>1
      <3>3. QED
        BY <3>1, <3>2
    <2> HIDE DEF e
    <2>2. QED
      BY <1>1, <1>2, <1>3, <1>5, <1>10, <2>1 DEF ReconcilerInv, ExecutionsOK
  <1>12. QED
    BY <1>4, <1>6, <1>7, <1>9, <1>11 DEF ReconcilerInv

(* The clock and a retry request change nothing the invariant speaks of.    *)
LEMMA OthersKeep ==
    ASSUME ReconcilerInv, UNCHANGED <<plan, clog, acts, waves, execs, ep, pass>>
    PROVE  ReconcilerInv'
  <1>1. /\ Trials' = Trials /\ Waves' = Waves /\ Actions' = Actions
        /\ Estimates' = Estimates /\ Locked' = Locked
    BY SetsStay
  <1>2. /\ Halted' = Halted /\ Resolved' = Resolved /\ TerminalRecorded' = TerminalRecorded
        /\ Overtaken' = Overtaken
    BY DEF Halted, Stopped, Resolved, TerminalRecorded, Overtaken
  <1>3. ReconcilerTypes'
    BY <1>1 DEF ReconcilerInv, ReconcilerTypes
  <1>4. ActionsOK' /\ JobsOK' /\ EndsOK' /\ TurnsOK' /\ HaltsOK' /\ SelectedOK' /\ EndpointOK'
    BY <1>2 DEF ReconcilerInv, ActionsOK, JobsOK, EndsOK, TurnsOK, HaltsOK, SelectedOK,
                EndpointOK, Lives, Bills, Live, Pending
  <1>5. ViewOK'
    BY <1>1, <1>2 DEF ReconcilerInv, ViewOK, Lives, Bills
  <1>6. ExecutionsOK'
    BY <1>1, <1>2 DEF ReconcilerInv, ExecutionsOK
  <1>7. Quiet' = Quiet
    BY <1>1 DEF Quiet, Lives, Bills
  <1>8. DecisionOK'
    BY <1>1, <1>2, <1>7 DEF ReconcilerInv, DecisionOK
  <1>9. QED
    BY <1>3, <1>4, <1>5, <1>6, <1>8 DEF ReconcilerInv

(* A request to cancel.                                                     *)
LEMMA CancelRequestKeeps ==
    ASSUME ReconcilerInv, CancelRequest
    PROVE  ReconcilerInv'
  <1>1. /\ clog' = WithCampaign("cancel", {})
        /\ UNCHANGED <<acts, waves, execs, ep, pass, plan>>
    BY DEF CancelRequest, RecordCampaign, world
  <1>2. "cancel" \in CampaignKinds /\ "cancel" \notin CampaignTerminal /\ {} \in SUBSET Nat
    BY DEF CampaignKinds, CampaignTerminal
  <1>3. /\ clog' \in Seq([kind : CampaignKinds, ws : SUBSET Nat])
        /\ (Halted => Halted') /\ (Resolved => Resolved')
        /\ TerminalRecorded' <=> TerminalRecorded
    BY <1>1, <1>2, CampaignRecords
  <1>4. pass'.pc \in {"idle", "observed", "recovered", "selected", "applied", "published"}
    BY <1>1 DEF ReconcilerInv, ReconcilerTypes
  <1>5. Later /\ ReconcilerTypes' /\ JobsOK' /\ EndsOK' /\ EndpointOK'
    BY <1>1, <1>3, <1>4, NoWaveChange
  <1>6. ViewOK' /\ SelectedOK' /\ DecisionOK' /\ HaltsOK'
    BY <1>1, <1>3, <1>5, PassGoesOn
  <1>7. ExecutionsOK'
    BY <1>1, <1>5, LooksStand
  <1>8. QED
    BY <1>5, <1>6, <1>7, LaterKeeps DEF ReconcilerInv

(* The open cleanups of a campaign are waves.                               *)
LEMMA OpenIsTyped ==
    ASSUME NEW c \in Seq([kind : CampaignKinds, ws : SUBSET Nat])
    PROVE  CampaignView(c).open \in SUBSET Nat
  <1> DEFINE S == [kind : CampaignKinds, ws : SUBSET Nat]
             n == Len(c)
  <1>1. n \in Nat /\ \A k \in 1..n : c[k].ws \in SUBSET Nat
    <2>1. \A x \in S : x.ws \in SUBSET Nat
      OBVIOUS
    <2>2. c \in Seq(S)
      OBVIOUS
    <2> HIDE DEF S
    <2>3. QED
      BY <2>1, <2>2
  <1>2. PICK g : /\ g[0] = NewCampaign
                 /\ \A k \in 1..Len(c) : g[k] = ApplyCampaignEvent(g[k - 1], c[k])
                 /\ CampaignView(c) = g[Len(c)]
    BY CampaignReplays
  <1>3. ASSUME NEW v, NEW e, v.open \in SUBSET Nat, e.ws \in SUBSET Nat
        PROVE  ApplyCampaignEvent(v, e).open \in SUBSET Nat
    BY <1>3 DEF ApplyCampaignEvent
  <1> DEFINE Bad == {k \in 0..n : g[k].open \notin SUBSET Nat}
  <1>4. Bad = {}
    <2>1. SUFFICES ASSUME Bad # {} PROVE FALSE
      OBVIOUS
    <2>2. PICK b \in Bad : \A m \in Bad : b <= m
      <3>1. Bad \subseteq Nat
        OBVIOUS
      <3> HIDE DEF Bad
      <3>2. QED
        BY <2>1, <3>1, Least
    <2>3. b \in 0..n /\ g[b].open \notin SUBSET Nat
      OBVIOUS
    <2>4. b # 0
      BY <1>2, <2>3 DEF NewCampaign
    <2>5. b \in 1..n /\ b - 1 \in 0..n /\ b - 1 \notin Bad
      <3> HIDE DEF Bad
      <3> QED
        BY <1>1, <2>2, <2>3, <2>4
    <2>6. g[b - 1].open \in SUBSET Nat
      BY <2>5
    <2>7. g[b] = ApplyCampaignEvent(g[b - 1], c[b])
      BY <1>2, <2>5
    <2>8. QED
      BY <1>1, <1>3, <2>3, <2>5, <2>6, <2>7
  <1>5. QED
    BY <1>1, <1>2, <1>4

(* The operator's resolution, of waves whose cleanup failed or that ended.  *)
LEMMA ResolveKeeps ==
    ASSUME ReconcilerInv, Resolve
    PROVE  ReconcilerInv'
  <1> DEFINE v == View
             ws == v.open \cup CleanupFailed(v.waves)
             e == [kind |-> "resolved", by |-> "reconciler", est |-> 0, seen |-> TRUE]
             ce == [kind |-> "resolved", ws |-> ws]
             C == [kind : CampaignKinds, ws : SUBSET Nat]
  <1>1. /\ \A w \in ws : v.waves[w].st \in {"cleanup_failed", "closed"}
        /\ ep' = "paused" /\ clog' = Append(clog, ce)
        /\ waves' = [w \in DOMAIN waves |-> IF w \notin ws THEN waves[w]
                       ELSE [waves[w] EXCEPT !.log = Append(@, e)]]
        /\ UNCHANGED <<acts, execs, pass, plan>>
    BY DEF Resolve, world
  <1>2. /\ v.waves = [w \in DOMAIN waves |-> WaveView(waves[w].log)]
        /\ v.open = CampaignView(clog).open
    BY DEF View, ProjectRecovery
  <1>3. clog \in Seq(C) /\ waves \in Seq(Waves)
    BY DEF ReconcilerInv, ReconcilerTypes
  <1>4. ws \in SUBSET Nat
    <2>1. v.open \in SUBSET Nat
      BY <1>2, <1>3, OpenIsTyped
    <2>2. CleanupFailed(v.waves) \subseteq DOMAIN waves
      BY <1>2 DEF CleanupFailed
    <2>3. DOMAIN waves \subseteq Nat
      BY <1>3
    <2> HIDE DEF v
    <2>4. QED
      BY <2>1, <2>2, <2>3
  <1>5. ce \in C /\ ce.kind = "resolved"
    BY <1>4 DEF CampaignKinds
  <1> HIDE DEF v, ws
  <1>6. /\ clog' \in Seq(C) /\ Resolved'
        /\ TerminalRecorded' <=> TerminalRecorded
    <2> HIDE DEF ce, C
    <2>1. /\ \A i \in DOMAIN clog : i \in DOMAIN clog' /\ clog'[i] = clog[i]
          /\ \A i \in DOMAIN clog' : i \in DOMAIN clog \/ clog'[i] = ce
          /\ clog' \in Seq(C) /\ \E i \in DOMAIN clog' : clog'[i] = ce
      <3>1. /\ clog' = Append(clog, ce) /\ clog' \in Seq(C) /\ Len(clog) \in Nat
            /\ DOMAIN clog = 1..Len(clog) /\ DOMAIN clog' = 1..(Len(clog) + 1)
        BY <1>1, <1>3, <1>5
      <3>2. /\ clog'[Len(clog) + 1] = ce
            /\ \A i \in 1..Len(clog) : clog'[i] = clog[i]
        BY <1>3, <3>1
      <3>3. \A i \in 1..(Len(clog) + 1) : i \in 1..Len(clog) \/ i = Len(clog) + 1
        BY <3>1
      <3>4. QED
        BY <3>1, <3>2, <3>3
    <2>2. "resolved" \notin CampaignTerminal
      BY DEF CampaignTerminal
    <2>3. QED
      BY <1>5, <2>1, <2>2 DEF Resolved, TerminalRecorded
  <1>7. e \in Events /\ e.kind = "resolved" /\ e.seen
    BY DEF Events, EventKinds, Estimates
  <1> HIDE DEF e
  <1>8. ASSUME NEW w \in DOMAIN waves
        PROVE  /\ waves[w] \in Waves /\ waves'[w] \in Waves
               /\ waves'[w].job = waves[w].job /\ waves'[w].revived = waves[w].revived
               /\ EndIn(waves[w].log) => EndIn(waves'[w].log)
               /\ SeenEndIn(waves[w].log) => SeenEndIn(waves'[w].log)
               /\ FailedIn(waves'[w].log) <=> FailedIn(waves[w].log)
               /\ waves'[w].log # <<>> <=> waves[w].log # <<>>
               /\ EndIn(waves'[w].log) => Overtaken \/ ~Live(w)
               /\ SeenEndIn(waves'[w].log) \/ SeenFailedIn(waves'[w].log) =>
                    SeenEndIn(waves[w].log) \/ SeenFailedIn(waves[w].log)
    <2>1. waves[w] \in Waves /\ waves[w].log \in Seq(Events)
      BY WavesOfActions DEF Waves
    <2>2. EndIn(waves[w].log) => Overtaken \/ ~Live(w)
      BY DEF ReconcilerInv, EndsOK
    <2>3. CASE w \notin ws
      <3>1. waves'[w] = waves[w]
        BY <1>1, <2>3
      <3>2. QED
        BY <2>1, <2>2, <3>1
    <2>4. CASE w \in ws
      <3> DEFINE more == Append(waves[w].log, e)
      <3>1. waves'[w] = [waves[w] EXCEPT !.log = more]
        BY <1>1, <2>4
      <3>2. /\ more \in Seq(Events) /\ more # <<>>
            /\ SeenEndIn(more) /\ EndIn(more)
            /\ FailedIn(more) <=> FailedIn(waves[w].log)
        BY <1>7, <2>1, OneMoreEvent DEF Ends
      <3> HIDE DEF more
      <3>3. /\ waves'[w] \in Waves /\ waves'[w].log = more
            /\ waves'[w].job = waves[w].job /\ waves'[w].revived = waves[w].revived
        BY <2>1, <3>1, <3>2 DEF Waves
      <3>4. WaveView(waves[w].log).st \in {"cleanup_failed", "closed"}
        BY <1>1, <1>2, <2>4
      <3>5. /\ waves[w].log # <<>>
            /\ \/ FailedIn(waves[w].log) /\ SeenFailedIn(waves[w].log)
               \/ SeenEndIn(waves[w].log)
        BY <2>1, <3>4, WaveViewTells
      <3>6. FailedIn(waves[w].log) => ~Live(w)
        BY DEF ReconcilerInv, JobsOK, Live
      <3>7. SeenEndIn(waves[w].log) => EndIn(waves[w].log)
        BY DEF SeenEndIn, EndIn
      <3>8. QED
        BY <2>1, <2>2, <3>2, <3>3, <3>5, <3>6, <3>7
    <2>5. QED
      BY <2>3, <2>4
  <1>9. DOMAIN waves' = DOMAIN waves /\ waves' \in Seq(Waves)
    <2>1. DOMAIN waves' = DOMAIN waves
      BY <1>1
    <2>2. /\ waves' = [w \in 1..Len(waves) |-> waves'[w]]
          /\ Len(waves) \in Nat /\ DOMAIN waves = 1..Len(waves)
      BY <1>1, <1>3
    <2>3. QED
      BY <1>8, <2>1, <2>2
  <1>10. Later
    BY <1>1, <1>6, <1>8, <1>9 DEF Later, Halted
  <1>11. ReconcilerTypes'
    BY <1>1, <1>6, <1>9, SetsStay DEF ReconcilerInv, ReconcilerTypes
  <1>12. Overtaken' <=> Overtaken
    BY <1>10, LaterKeeps
  <1>13. JobsOK' /\ EndsOK' /\ EndpointOK'
    <2>1. JobsOK'
      BY <1>8, <1>9 DEF ReconcilerInv, JobsOK
    <2>2. EndsOK'
      BY <1>8, <1>9, <1>12 DEF EndsOK, Live
    <2>3. EndpointOK'
      BY <1>1 DEF EndpointOK
    <2>4. QED
      BY <2>1, <2>2, <2>3
  <1>14. ViewOK' /\ SelectedOK' /\ DecisionOK' /\ HaltsOK'
    BY <1>1, <1>6, <1>8, <1>10, PassGoesOn
  <1>15. ExecutionsOK'
    <2>1. Trials' = Trials /\ execs' = execs /\ pass' = pass /\ DOMAIN waves' = DOMAIN waves
      BY <1>1, <1>9, SetsStay
    <2>2. ASSUME NEW t \in Trials, NEW i \in DOMAIN execs[t], pass.pc = "observed", ~Overtaken,
                 ~execs[t][i].seen
          PROVE  LET w == execs[t][i].w
                 IN  ~SeenEndIn(waves'[w].log) /\ ~SeenFailedIn(waves'[w].log)
      <3>1. /\ execs[t][i].w \in DOMAIN waves
            /\ ~SeenEndIn(waves[execs[t][i].w].log) /\ ~SeenFailedIn(waves[execs[t][i].w].log)
        BY <2>2 DEF ReconcilerInv, ExecutionsOK
      <3>2. QED
        BY <1>8, <3>1
    <2>3. QED
      BY <1>10, <1>12, <2>1, <2>2, LaterKeeps DEF ExecutionsOK
  <1>16. QED
    BY <1>10, <1>11, <1>13, <1>14, <1>15, LaterKeeps DEF ReconcilerInv

(* A pass that has selected an action.                                      *)
LEMMA SelectedFacts ==
    ASSUME ReconcilerInv, pass.pc = "selected"
    PROVE  /\ ~TerminalRecorded
           /\ pass.act \in Pending(acts) /\ pass.act \in DOMAIN acts /\ acts[pass.act] \in Actions
           /\ acts[pass.act].kind \in OnWaveKinds \cup Billable =>
                /\ TargetWave \in DOMAIN waves /\ TargetWave \in Nat
                /\ waves[TargetWave] \in Waves /\ waves[TargetWave].log \in Seq(Events)
           /\ \A w : EstimateOf(pass.view, w, 0) \in Estimates
  <1>1. ~TerminalRecorded
    BY DEF ReconcilerInv, DecisionOK, Idle
  <1>2. pass.act \in Pending(acts) /\ pass.act \in DOMAIN acts
    BY DEF ReconcilerInv, SelectedOK, Pending
  <1>3. \A w : EstimateOf(pass.view, w, 0) \in Estimates
    BY DEF EstimateOf, Known, ReconcilerInv, ViewOK, Viewing, Estimates
  <1>4. acts[pass.act].kind \in OnWaveKinds \cup Billable => TargetWave \in DOMAIN waves
    BY <1>2 DEF ReconcilerInv, ActionsOK, TargetWave
  <1>5. QED
    BY <1>1, <1>2, <1>3, <1>4, WavesOfActions DEF Waves

(* An action that changes no wave, and its outcome.                         *)
LEMMA ActedBeside ==
    ASSUME ReconcilerInv, pass.pc = "selected", NEW out \in {"succeeded", "failed", "ambiguous"},
           Outcome(out), UNCHANGED <<plan, acts, waves, execs, ep>>,
           clog' \in Seq([kind : CampaignKinds, ws : SUBSET Nat]),
           Halted => Halted', Resolved => Resolved', ~TerminalRecorded',
           Bills(pass.act) /\ out = "failed" => waves[acts[pass.act].wave].job = "none",
           acts[pass.act].kind = "publish-summary" /\ out = "succeeded" => pass.view.dec # "none"
    PROVE  ReconcilerInv'
  <1>1. pass'.pc = "applied"
    BY DEF Outcome
  <1>2. Later /\ ReconcilerTypes' /\ JobsOK' /\ EndsOK' /\ EndpointOK'
    BY <1>1, NoWaveChange
  <1>3. \A w \in DOMAIN waves : waves'[w].job = "none" /\ waves'[w].log # <<>> => Halted'
    BY DEF ReconcilerInv, HaltsOK
  <1>4. ViewOK' /\ SelectedOK' /\ DecisionOK' /\ HaltsOK' /\ ExecutionsOK'
    BY <1>2, <1>3, PassHasActed
  <1>5. QED
    BY <1>2, <1>4, LaterKeeps DEF ReconcilerInv

(* An action that changes its wave, and its outcome.                        *)
LEMMA ActedOnWave ==
    ASSUME ReconcilerInv, pass.pc = "selected", NEW out \in {"succeeded", "ambiguous"},
           Outcome(out), UNCHANGED <<plan, acts, execs>>, acts[pass.act].kind \in OnWaveKinds,
           clog' \in Seq([kind : CampaignKinds, ws : SUBSET Nat]),
           Halted => Halted', Resolved => Resolved', ~TerminalRecorded',
           NEW r \in Waves, waves' = [waves EXCEPT ![TargetWave] = r],
           EndIn(waves[TargetWave].log) => EndIn(r.log),
           SeenEndIn(waves[TargetWave].log) => SeenEndIn(r.log),
           FailedIn(waves[TargetWave].log) <=> FailedIn(r.log),
           waves[TargetWave].log # <<>> => r.log # <<>>,
           r.revived = waves[TargetWave].revived,
           r.job = waves[TargetWave].job \/ (r.job = "ended" /\ Live(TargetWave)),
           r.job = "none" /\ r.log # <<>> => Halted',
           ep' \in {"paused", "running"},
           ep' = "running" => ep = "running" /\ (EndIn(r.log) => EndIn(waves[TargetWave].log)),
           EndIn(r.log) /\ r.job \in {"scheduled", "running"} => Overtaken
    PROVE  ReconcilerInv'
  <1> DEFINE w == TargetWave
  <1>0. pass'.pc = "applied"
    BY DEF Outcome
  <1>1. w \in DOMAIN waves /\ waves[w] \in Waves
    BY SelectedFacts
  <1>2. FailedIn(r.log) => r.job = "ended"
    BY <1>1 DEF ReconcilerInv, JobsOK, Live
  <1>3. /\ r.job = "none" <=> waves[w].job = "none"
        /\ waves[w].job \in {"running", "ended"} => r.job \in {"running", "ended"}
    BY DEF Live
  <1> HIDE DEF w
  <1>4. /\ Later /\ ReconcilerTypes' /\ JobsOK' /\ EndsOK' /\ EndpointOK'
        /\ \A u \in DOMAIN waves : waves'[u] = IF u = w THEN r ELSE waves[u]
    BY <1>0, <1>1, <1>2, <1>3, WaveChange DEF w
  <1>5. \A u \in DOMAIN waves : waves'[u].job = "none" /\ waves'[u].log # <<>> => Halted'
    BY <1>4 DEF ReconcilerInv, HaltsOK
  <1>6. OnWaveKinds \cap (Billable \cup {"publish-summary"}) = {}
    BY DEF OnWaveKinds, Billable
  <1>7. ViewOK' /\ SelectedOK' /\ DecisionOK' /\ HaltsOK' /\ ExecutionsOK'
    BY <1>4, <1>5, <1>6, PassHasActed DEF Bills
  <1>8. QED
    BY <1>4, <1>7, LaterKeeps DEF ReconcilerInv

(* The cancellation of a Job.                                               *)
LEMMA CancelWaveKeeps ==
    ASSUME ReconcilerInv, CancelWave
    PROVE  ReconcilerInv'
  <1> DEFINE w == TargetWave
             r == [waves[w] EXCEPT !.job = "ended"]
  <1>1. /\ pass.pc = "selected" /\ acts[pass.act].kind = "cancel-wave"
        /\ UNCHANGED <<clog, acts, execs, ep, plan>>
        /\ \E out \in {"succeeded", "ambiguous"} : Outcome(out)
        /\ waves' = waves \/ (Live(w) /\ waves' = [waves EXCEPT ![w] = r])
    BY DEF CancelWave, Selected, SetJob, world
  <1>2. PICK out \in {"succeeded", "ambiguous"} : Outcome(out)
    BY <1>1
  <1>3. /\ acts[pass.act].kind \in OnWaveKinds
        /\ acts[pass.act].kind \notin Billable \cup {"publish-summary"}
    BY <1>1 DEF OnWaveKinds, Billable
  <1>4. w \in DOMAIN waves /\ waves[w] \in Waves /\ ~TerminalRecorded
    BY <1>1, <1>3, SelectedFacts
  <1>5. /\ clog' \in Seq([kind : CampaignKinds, ws : SUBSET Nat])
        /\ Halted' = Halted /\ Resolved' = Resolved /\ ~TerminalRecorded'
        /\ ep' = ep /\ ep' \in {"paused", "running"}
    BY <1>1, <1>4 DEF ReconcilerInv, ReconcilerTypes, Halted, Stopped, Resolved, TerminalRecorded
  <1>6. CASE waves' = waves
    BY <1>1, <1>2, <1>3, <1>5, <1>6, ActedBeside DEF Bills
  <1>7. CASE Live(w) /\ waves' = [waves EXCEPT ![w] = r]
    <2>1. /\ r \in Waves /\ r.job = "ended" /\ r.log = waves[w].log /\ r.revived = waves[w].revived
      BY <1>4 DEF Waves
    <2> HIDE DEF r
    <2>2. QED
      BY <1>1, <1>2, <1>3, <1>5, <1>7, <2>1, ActedOnWave
  <1>8. QED
    BY <1>1, <1>6, <1>7

(* The draining of a wave.                                                  *)
LEMMA DrainWaveKeeps ==
    ASSUME ReconcilerInv, DrainWave
    PROVE  ReconcilerInv'
  <1> DEFINE w == TargetWave
             est == EstimateOf(pass.view, w, 0)
             more == Recorded(waves[w].log, "draining", est)
             r == [waves[w] EXCEPT !.log = more]
  <1>1. /\ pass.pc = "selected" /\ acts[pass.act].kind = "drain-wave" /\ Outcome("succeeded")
        /\ UNCHANGED <<acts, execs, ep, plan>>
        /\ waves' = [waves EXCEPT ![w] = r]
        /\ clog' = clog \/ clog' = WithCampaign("draining", {})
    BY DEF DrainWave, Selected, world, DrainCampaign, RecordWave
  <1>2. acts[pass.act].kind \in OnWaveKinds
    BY <1>1 DEF OnWaveKinds
  <1>3. /\ w \in DOMAIN waves /\ waves[w] \in Waves /\ waves[w].log \in Seq(Events)
        /\ est \in Estimates /\ ~TerminalRecorded /\ pass.act \in DOMAIN acts
    BY <1>1, <1>2, SelectedFacts
  <1>4. "draining" \in CampaignKinds /\ "draining" \notin CampaignTerminal /\ {} \in SUBSET Nat
    BY DEF CampaignKinds, CampaignTerminal
  <1>5. /\ clog' \in Seq([kind : CampaignKinds, ws : SUBSET Nat])
        /\ (Halted => Halted') /\ (Resolved => Resolved') /\ ~TerminalRecorded'
    BY <1>1, <1>3, <1>4, CampaignRecords
  <1> HIDE DEF est
  <1>6. /\ more \in Seq(Events) /\ more # <<>>
        /\ EndIn(more) <=> EndIn(waves[w].log)
        /\ SeenEndIn(more) <=> SeenEndIn(waves[w].log)
        /\ FailedIn(more) <=> FailedIn(waves[w].log)
    BY <1>3, RecordedOnce
  <1> HIDE DEF more
  <1>7. /\ r \in Waves /\ r.job = waves[w].job /\ r.log = more /\ r.revived = waves[w].revived
    BY <1>3, <1>6 DEF Waves
  <1> HIDE DEF r
  <1>8. waves[w].job = "none" => Halted
    BY <1>1, <1>3 DEF ReconcilerInv, HaltsOK, TargetWave
  <1>9. EndIn(waves[w].log) /\ waves[w].job \in {"scheduled", "running"} => Overtaken
    BY <1>3 DEF ReconcilerInv, EndsOK, Live
  <1>10. ep' = ep /\ ep \in {"paused", "running"}
    BY <1>1 DEF ReconcilerInv, ReconcilerTypes
  <1>11. QED
    BY <1>1, <1>2, <1>5, <1>6, <1>7, <1>8, <1>9, <1>10, ActedOnWave

(* The cleanup of a wave whose Job does not run.                            *)
LEMMA CleanupWaveKeeps ==
    ASSUME ReconcilerInv, CleanupWave
    PROVE  ReconcilerInv'
  <1> DEFINE w == TargetWave
             st == pass.view.waves[w].st
             est == EstimateOf(pass.view, w, 0)
             log == waves[w].log
             cleaning == IF st \in {"unknown", "draining", "cleaning", "cleanup_failed"} THEN log
                         ELSE Recorded(log, "cleaning", est)
             more == IF st = "closed" THEN log ELSE Recorded(cleaning, "closed", est)
             r == [waves[w] EXCEPT !.log = more]
  <1>1. /\ pass.pc = "selected" /\ acts[pass.act].kind = "cleanup-wave"
        /\ UNCHANGED <<clog, acts, execs, plan>>
        /\ \/ Outcome("ambiguous") /\ UNCHANGED <<waves, ep>>
           \/ /\ Outcome("succeeded") /\ ~Live(w) /\ ep' = "paused"
              /\ waves' = [waves EXCEPT ![w] = r]
    BY DEF CleanupWave, Selected, world
  <1>2. /\ acts[pass.act].kind \in OnWaveKinds
        /\ acts[pass.act].kind \notin Billable \cup {"publish-summary"}
    BY <1>1 DEF OnWaveKinds, Billable
  <1>3. /\ w \in DOMAIN waves /\ waves[w] \in Waves /\ log \in Seq(Events)
        /\ est \in Estimates /\ ~TerminalRecorded /\ pass.act \in DOMAIN acts
    BY <1>1, <1>2, SelectedFacts
  <1>4. /\ clog' \in Seq([kind : CampaignKinds, ws : SUBSET Nat])
        /\ Halted' = Halted /\ Resolved' = Resolved /\ ~TerminalRecorded'
    BY <1>1, <1>3 DEF ReconcilerInv, ReconcilerTypes, Halted, Stopped, Resolved, TerminalRecorded
  <1>5. CASE Outcome("ambiguous") /\ UNCHANGED <<waves, ep>>
    BY <1>1, <1>2, <1>4, <1>5, ActedBeside DEF Bills
  <1>6. CASE /\ Outcome("succeeded") /\ ~Live(w) /\ ep' = "paused"
             /\ waves' = [waves EXCEPT ![w] = r]
    <2> HIDE DEF est, log
    <2>1. /\ cleaning \in Seq(Events) /\ (log # <<>> => cleaning # <<>>)
          /\ EndIn(cleaning) <=> EndIn(log)
          /\ SeenEndIn(cleaning) <=> SeenEndIn(log)
          /\ FailedIn(cleaning) <=> FailedIn(log)
      BY <1>3, RecordedOnce
    <2> HIDE DEF cleaning
    <2>2. /\ more \in Seq(Events) /\ (log # <<>> => more # <<>>)
          /\ EndIn(log) => EndIn(more)
          /\ SeenEndIn(log) => SeenEndIn(more)
          /\ FailedIn(more) <=> FailedIn(log)
      BY <1>3, <2>1, RecordedOnce
    <2> HIDE DEF more
    <2>3. /\ r \in Waves /\ r.job = waves[w].job /\ r.log = more /\ r.revived = waves[w].revived
      BY <1>3, <2>2 DEF Waves
    <2> HIDE DEF r
    <2>4. waves[w].job = "none" => Halted
      BY <1>1, <1>3 DEF ReconcilerInv, HaltsOK, TargetWave
    <2>5. r.job \notin {"scheduled", "running"}
      BY <1>6, <2>3 DEF Live
    <2>6. QED
      BY <1>1, <1>2, <1>4, <1>6, <2>2, <2>3, <2>4, <2>5, ActedOnWave DEF log
  <1>7. QED
    BY <1>1, <1>5, <1>6

(* An operator is asked for.                                                *)
LEMMA ManualInterventionKeeps ==
    ASSUME ReconcilerInv, ManualIntervention
    PROVE  ReconcilerInv'
  <1>1. /\ pass.pc = "selected" /\ acts[pass.act].kind = "manual-intervention"
        /\ Outcome("succeeded") /\ UNCHANGED <<acts, waves, execs, ep, plan>>
        /\ clog' = WithCampaign("manual", {TargetWave})
    BY DEF ManualIntervention, Selected, world, RecordCampaign
  <1>2. /\ acts[pass.act].kind \in OnWaveKinds
        /\ acts[pass.act].kind \notin Billable \cup {"publish-summary"}
    BY <1>1 DEF OnWaveKinds, Billable
  <1>3. ~TerminalRecorded /\ {TargetWave} \in SUBSET Nat
    BY <1>1, <1>2, SelectedFacts
  <1>4. "manual" \in CampaignKinds /\ "manual" \notin CampaignTerminal
    BY DEF CampaignKinds, CampaignTerminal
  <1>5. /\ clog' \in Seq([kind : CampaignKinds, ws : SUBSET Nat])
        /\ (Halted => Halted') /\ (Resolved => Resolved') /\ ~TerminalRecorded'
    BY <1>1, <1>3, <1>4, CampaignRecords
  <1>6. QED
    BY <1>1, <1>2, <1>5, ActedBeside DEF Bills

(* Trials are exhausted, or the campaign's summary is published.            *)
LEMMA SummaryKeeps ==
    ASSUME ReconcilerInv, ExhaustTrials \/ PublishSummary
    PROVE  ReconcilerInv'
  <1>1. /\ pass.pc = "selected" /\ acts[pass.act].kind \in {"exhaust-trials", "publish-summary"}
        /\ UNCHANGED <<clog, acts, waves, execs, ep, plan>>
    BY DEF ExhaustTrials, PublishSummary, Selected, world, durable
  <1>2. PICK out \in {"succeeded", "failed"} :
           /\ Outcome(out)
           /\ acts[pass.act].kind = "publish-summary" /\ out = "succeeded" => pass.view.dec # "none"
    <2>1. CASE ExhaustTrials
      BY <2>1 DEF ExhaustTrials, Selected
    <2>2. CASE PublishSummary
      BY <2>2 DEF PublishSummary
    <2>3. QED
      BY <2>1, <2>2
  <1>3. ~TerminalRecorded /\ ~Bills(pass.act)
    BY <1>1, SelectedFacts DEF Bills, Billable
  <1>4. /\ clog' \in Seq([kind : CampaignKinds, ws : SUBSET Nat])
        /\ Halted' = Halted /\ Resolved' = Resolved /\ ~TerminalRecorded'
    BY <1>1, <1>3 DEF ReconcilerInv, ReconcilerTypes, Halted, Stopped, Resolved, TerminalRecorded
  <1>5. QED
    BY <1>1, <1>2, <1>3, <1>4, ActedBeside

(* The submission of a wave's Job.                                          *)
LEMMA SubmitWaveKeeps ==
    ASSUME ReconcilerInv, SubmitWave
    PROVE  ReconcilerInv'
  <1> DEFINE w == TargetWave
             r == [waves[w] EXCEPT !.job = "scheduled", !.revived = waves[w].log # <<>>]
  <1>1. /\ pass.pc = "selected" /\ acts[pass.act].kind \in Billable
        /\ UNCHANGED <<clog, acts, execs, ep, plan>>
        /\ \/ Outcome("succeeded") /\ UNCHANGED waves
           \/ waves[w].job = "none" /\ Outcome("failed") /\ UNCHANGED waves
           \/ waves[w].job = "none" /\ Outcome("ambiguous") /\ UNCHANGED waves
           \/ /\ waves[w].job = "none" /\ pass.view.st = "active"
              /\ ep = "paused" /\ waves' = [waves EXCEPT ![w] = r]
              /\ Outcome("succeeded") \/ Outcome("ambiguous")
    BY DEF SubmitWave, Selected, world, CreateJob
  <1>2. /\ w \in DOMAIN waves /\ waves[w] \in Waves /\ waves[w].log \in Seq(Events)
        /\ ~TerminalRecorded /\ pass.act \in Pending(acts) /\ pass.act \in DOMAIN acts
    BY <1>1, SelectedFacts
  <1>3. /\ clog' \in Seq([kind : CampaignKinds, ws : SUBSET Nat])
        /\ Halted' = Halted /\ Resolved' = Resolved /\ ~TerminalRecorded' /\ ~TerminalRecorded
    BY <1>1, <1>2 DEF ReconcilerInv, ReconcilerTypes, Halted, Stopped, Resolved, TerminalRecorded
  <1>4. acts[pass.act].kind # "publish-summary"
    BY <1>1 DEF Billable
  <1>5. CASE UNCHANGED waves
    <2>1. PICK out \in {"succeeded", "failed", "ambiguous"} :
             Outcome(out) /\ (out = "failed" => waves[w].job = "none")
      <3>1. CASE Outcome("succeeded")
        BY <3>1
      <3>2. CASE Outcome("ambiguous")
        BY <3>2
      <3>3. CASE waves[w].job = "none" /\ Outcome("failed")
        BY <3>3
      <3>4. QED
        BY <1>1, <3>1, <3>2, <3>3
    <2>2. QED
      BY <1>1, <1>3, <1>4, <1>5, <2>1, ActedBeside DEF TargetWave
  <1>6. CASE /\ waves[w].job = "none" /\ pass.view.st = "active"
             /\ ep = "paused" /\ waves' = [waves EXCEPT ![w] = r]
             /\ Outcome("succeeded") \/ Outcome("ambiguous")
    <2>1. /\ r \in Waves /\ r.job = "scheduled" /\ r.log = waves[w].log
          /\ r.revived <=> waves[w].log # <<>>
      BY <1>2 DEF Waves
    <2> HIDE DEF r, w
    <2>2. /\ waves' \in Seq(Waves) /\ DOMAIN waves' = DOMAIN waves
          /\ \A u \in DOMAIN waves : waves'[u] = IF u = w THEN r ELSE waves[u]
      BY <1>2, <1>6, <2>1 DEF ReconcilerInv, ReconcilerTypes
    <2>3. /\ pass'.pc = "applied" /\ pass'.out \in {"succeeded", "ambiguous"}
          /\ pass'.act = pass.act /\ pass'.view.dec = pass.view.dec
      BY <1>6 DEF Outcome
    <2>4. /\ Trials' = Trials /\ Waves' = Waves /\ Actions' = Actions
      BY <1>1, SetsStay
    <2>5. ReconcilerTypes'
      BY <1>1, <1>3, <2>2, <2>3, <2>4 DEF ReconcilerInv, ReconcilerTypes
    <2>6. \A a \in DOMAIN acts : Bills(a) /\ acts[a].st = "failed" => acts[a].wave # w
      <3> SUFFICES ASSUME NEW a \in DOMAIN acts, Bills(a), acts[a].st = "failed", acts[a].wave = w
                   PROVE  FALSE
        OBVIOUS
      <3>1. acts[pass.act].st # "failed" /\ Bills(pass.act) /\ acts[pass.act].wave = w
        BY <1>1, <1>2 DEF Pending, Bills, TargetWave, w
      <3>2. a # pass.act /\ a \in Nat /\ pass.act \in Nat /\ w \in Nat
        BY <1>2, <3>1, WavesOfActions
      <3>3. a < pass.act \/ pass.act < a
        BY <3>2
      <3>4. QED
        BY <1>2, <3>1, <3>2, <3>3 DEF ReconcilerInv, ActionsOK
    <2>7. ActionsOK'
      BY <1>1, <2>2, <2>6 DEF ReconcilerInv, ActionsOK, Bills
    <2>8. JobsOK'
      BY <1>6, <2>1, <2>2 DEF ReconcilerInv, JobsOK
    <2>9. /\ Overtaken => Overtaken'
          /\ Overtaken' => Overtaken \/ waves[w].log # <<>>
          /\ waves[w].log # <<>> => Overtaken'
      BY <1>2, <1>6, <2>1, <2>2 DEF Overtaken, ReconcilerInv, JobsOK
    <2>10. waves[w].log = <<>> => ~EndIn(waves[w].log)
      BY DEF EndIn
    <2>11. EndsOK'
      BY <2>1, <2>2, <2>9, <2>10 DEF ReconcilerInv, EndsOK, Live
    <2>12. TurnsOK'
      BY <1>1, <2>1, <2>2, WavesOfActions DEF ReconcilerInv, TurnsOK, Lives, Bills
    <2>13. waves[w].log # <<>> => Resolved
      BY <1>1, <1>2, <1>6 DEF ReconcilerInv, ViewOK, Viewing
    <2>14. HaltsOK'
      <3>1. \A a \in DOMAIN acts : acts[a].kind \in {"drain-wave", "cleanup-wave"} =>
              acts[a].wave \in DOMAIN waves
        BY DEF ReconcilerInv, ActionsOK, OnWaveKinds
      <3>2. QED
        BY <1>1, <1>3, <2>1, <2>2, <2>9, <2>13, <3>1 DEF ReconcilerInv, HaltsOK
    <2>15. ViewOK'
      BY <2>3 DEF ViewOK, Viewing
    <2>16. SelectedOK'
      BY <1>1, <1>2, <2>3 DEF SelectedOK, Pending
    <2>17. EndpointOK'
      BY <1>1, <1>6 DEF EndpointOK
    <2>18. ExecutionsOK'
      BY <1>1, <1>6, <2>2, <2>3, <2>4 DEF ReconcilerInv, ExecutionsOK
    <2>19. Quiet => Quiet'
      BY <1>1, <2>1, <2>2, <2>4, WavesOfActions DEF Quiet, Lives, Bills
    <2>20. DecisionOK'
      BY <1>1, <1>3, <1>4, <2>3, <2>9, <2>19 DEF ReconcilerInv, DecisionOK, Deciding, Viewing
    <2>21. QED
      BY <2>5, <2>7, <2>8, <2>11, <2>12, <2>14, <2>15, <2>16, <2>17, <2>18, <2>20 DEF ReconcilerInv
  <1>7. QED
    BY <1>1, <1>5, <1>6

(* The outcome of an action.                                                *)
LEMMA RecordOutcomeKeeps ==
    ASSUME ReconcilerInv, RecordOutcome
    PROVE  ReconcilerInv'
  <1> DEFINE x == pass.act
             out == pass.out
             r == [acts[x] EXCEPT !.st = out]
  <1>1. /\ pass.pc = "applied" /\ x \in Pending(acts)
        /\ acts' = [acts EXCEPT ![x] = r]
        /\ UNCHANGED <<clog, waves, execs, ep, plan>>
        /\ \/ /\ acts[x].kind = "publish-summary" /\ out = "succeeded"
              /\ pass' = [Idle EXCEPT !.pc = "published", !.view = pass.view]
           \/ pass' = Idle
    BY DEF RecordOutcome, ApplyOutcome, world
  <1>2. /\ x \in DOMAIN acts /\ acts[x] \in Actions
        /\ out \in {"succeeded", "failed", "ambiguous"}
        /\ Bills(x) /\ out = "failed" => waves[acts[x].wave].job = "none"
    BY <1>1, WavesOfActions DEF ReconcilerInv, SelectedOK, Pending
  <1>3. /\ r \in Actions /\ r.st = out /\ r.kind = acts[x].kind /\ r.wave = acts[x].wave
    BY <1>2 DEF Actions
  <1> HIDE DEF r
  <1>4. /\ acts' \in Seq(Actions) /\ DOMAIN acts' = DOMAIN acts
        /\ \A a \in DOMAIN acts : acts'[a] = IF a = x THEN r ELSE acts[a]
    BY <1>1, <1>2, <1>3 DEF ReconcilerInv, ReconcilerTypes
  <1>5. \A a \in DOMAIN acts : /\ acts'[a].kind = acts[a].kind /\ acts'[a].wave = acts[a].wave
                               /\ acts'[a].st = IF a = x THEN out ELSE acts[a].st
    BY <1>3, <1>4
  <1> HIDE DEF x, out
  <1>6. /\ Trials' = Trials /\ Waves' = Waves /\ Actions' = Actions
    BY <1>1, SetsStay
  <1>7. /\ Halted' = Halted /\ Resolved' = Resolved /\ TerminalRecorded' = TerminalRecorded
        /\ Overtaken' = Overtaken /\ ~TerminalRecorded
    BY <1>1 DEF Halted, Stopped, Resolved, TerminalRecorded, Overtaken, ReconcilerInv, DecisionOK,
                Idle
  <1>8. /\ pass'.pc = "idle" \/ pass'.pc = "published"
        /\ pass'.pc = "published" => pass'.view = pass.view /\ pass.view.dec # "none"
    <2>1. acts[x].kind = "publish-summary" /\ out = "succeeded" => pass.view.dec # "none"
      BY <1>1 DEF ReconcilerInv, DecisionOK, x, out
    <2>2. CASE pass' = Idle
      BY <2>2 DEF Idle
    <2>3. CASE pass' = [Idle EXCEPT !.pc = "published", !.view = pass.view]
      BY <1>1, <2>1, <2>3 DEF Idle
    <2>4. QED
      BY <1>1, <2>2, <2>3
  <1>9. ReconcilerTypes'
    BY <1>1, <1>4, <1>6, <1>8 DEF ReconcilerInv, ReconcilerTypes
  <1>10. \A a \in DOMAIN acts : Bills(a)' = Bills(a) /\ (Lives(a)' => Lives(a))
    BY <1>1, <1>5 DEF Bills, Lives, Pending
  <1>11. ActionsOK'
    <2>1. /\ \A a \in DOMAIN acts' :
               acts'[a].kind \in Billable \cup OnWaveKinds => acts'[a].wave \in DOMAIN waves'
          /\ \A a \in DOMAIN acts' :
               Bills(a)' /\ acts'[a].st = "failed" => waves'[acts'[a].wave].job = "none"
      BY <1>1, <1>2, <1>4, <1>5, <1>10 DEF ReconcilerInv, ActionsOK
    <2>2. /\ \A a, b \in DOMAIN acts' :
               Bills(a)' /\ Bills(b)' /\ a < b => acts'[a].wave < acts'[b].wave
          /\ \A w \in DOMAIN waves' : \E a \in DOMAIN acts' : Bills(a)' /\ acts'[a].wave = w
      BY <1>1, <1>4, <1>5, <1>10 DEF ReconcilerInv, ActionsOK
    <2>3. QED
      BY <2>1, <2>2 DEF ActionsOK
  <1>12. JobsOK' /\ EndsOK' /\ EndpointOK'
    BY <1>1, <1>7 DEF ReconcilerInv, JobsOK, EndsOK, EndpointOK, Live
  <1>13. TurnsOK'
    BY <1>1, <1>4, <1>5, <1>10 DEF ReconcilerInv, TurnsOK
  <1>14. HaltsOK'
    BY <1>1, <1>4, <1>5, <1>7 DEF ReconcilerInv, HaltsOK
  <1>15. ViewOK' /\ SelectedOK'
    BY <1>8 DEF ViewOK, SelectedOK, Viewing
  <1>16. ExecutionsOK'
    BY <1>1, <1>6, <1>8 DEF ReconcilerInv, ExecutionsOK
  <1>17. Quiet => Quiet'
    BY <1>1, <1>4, <1>5, <1>6, <1>10 DEF Quiet
  <1>18. DecisionOK'
    BY <1>1, <1>7, <1>8, <1>17 DEF ReconcilerInv, DecisionOK, Deciding, Viewing
  <1>19. QED
    BY <1>9, <1>11, <1>12, <1>13, <1>14, <1>15, <1>16, <1>18 DEF ReconcilerInv

(* The record of the campaign's end, and a pass that stops.                 *)
LEMMA PassEndsKeeps ==
    ASSUME ReconcilerInv, RecordTerminal \/ PassStops
    PROVE  ReconcilerInv'
  <1>1. /\ pass.pc # "idle" /\ pass' = Idle
        /\ UNCHANGED <<acts, waves, execs, ep, plan>>
        /\ \/ clog' = clog
           \/ pass.pc = "published" /\ clog' = WithCampaign(pass.view.dec, {})
    BY DEF RecordTerminal, PassStops, RecordCampaign, durable, world
  <1>2. ~TerminalRecorded /\ pass'.pc = "idle"
    BY <1>1 DEF ReconcilerInv, DecisionOK, Idle
  <1>3. pass.pc = "published" => pass.view.dec \in CampaignTerminal /\ (Overtaken \/ Quiet)
    BY DEF ReconcilerInv, DecisionOK, Deciding
  <1>4. /\ clog' \in Seq([kind : CampaignKinds, ws : SUBSET Nat])
        /\ (Halted => Halted') /\ (Resolved => Resolved')
        /\ TerminalRecorded' => pass.pc = "published"
    <2>1. CASE clog' = clog
      BY <1>2, <2>1 DEF ReconcilerInv, ReconcilerTypes, Halted, Stopped, Resolved, TerminalRecorded
    <2>2. CASE pass.pc = "published" /\ clog' = WithCampaign(pass.view.dec, {})
      <3>1. pass.view.dec \in CampaignKinds /\ pass.view.dec # "resolved" /\ {} \in SUBSET Nat
        BY <1>3, <2>2 DEF CampaignKinds, CampaignTerminal
      <3>2. QED
        BY <2>2, <3>1, CampaignRecords
    <2>3. QED
      BY <1>1, <2>1, <2>2
  <1>5. Later /\ ReconcilerTypes' /\ JobsOK' /\ EndsOK' /\ EndpointOK'
    BY <1>1, <1>2, <1>4, NoWaveChange
  <1>6. HaltsOK'
    BY <1>1, <1>4, <1>5, LaterKeeps DEF ReconcilerInv, HaltsOK
  <1>7. ViewOK' /\ SelectedOK'
    BY <1>2 DEF ViewOK, SelectedOK, Viewing
  <1>8. ExecutionsOK'
    BY <1>2, <1>5, LaterKeeps DEF ExecutionsOK
  <1>9. DecisionOK'
    BY <1>1, <1>2, <1>3, <1>4, <1>5, LaterKeeps DEF DecisionOK, Deciding, Viewing
  <1>10. QED
    BY <1>5, <1>6, <1>7, <1>8, <1>9, LaterKeeps DEF ReconcilerInv

-----------------------------------------------------------------------------
(* Passes *)

(* What a view v tells of the campaign events c and the timelines ws.       *)
Tells(v, c, ws) ==
    /\ DOMAIN v.waves = DOMAIN ws
    /\ \A w \in DOMAIN ws :
         /\ v.waves[w].est \in Estimates
         /\ v.waves[w].st = "closed" => SeenEndIn(ws[w].log)
         /\ v.waves[w].st # "unknown" => ws[w].log # <<>>
         /\ v.waves[w].st = "cleanup_failed" => FailedIn(ws[w].log)
    /\ \A a, b \in DOMAIN acts :
         Lives(a) /\ Lives(b) /\ a < b => v.waves[acts[a].wave].st = "closed"
    /\ v.st = "active" => CampaignView(c).st = "active"
    /\ v.st \in Cancelling => \/ CampaignView(c).st # "active"
                              \/ \E w \in DOMAIN ws : v.waves[w].st = "cleanup_failed"
    /\ v.dec \in CampaignTerminal \cup {"none"}
    /\ v.dec # "none" =>
         /\ \A a \in DOMAIN acts : Lives(a) => SeenEndIn(ws[acts[a].wave].log)
         /\ \/ v.st \in Cancelling
            \/ /\ \A t \in Trials : v.ts[t] \in TrialTerminal
               /\ \A s \in Locked : v.shards[s] # "planned"

(* What the projection of timelines and events tells of them.               *)
LEMMA ViewTells ==
    ASSUME ReconcilerInv, NEW c \in Seq([kind : CampaignKinds, ws : SUBSET Nat]),
           NEW ws \in Seq(Waves), NEW xs, DOMAIN ws = DOMAIN waves,
           \A a, b \in DOMAIN acts :
             Lives(a) /\ Lives(b) /\ a < b => SeenEndIn(ws[acts[a].wave].log),
           \A i \in DOMAIN c : c[i].kind \notin CampaignTerminal,
           NEW v, v = ProjectRecovery(c, ws, xs), Readable(v)
    PROVE  Tells(v, c, ws)
  <1> DEFINE campaign == CampaignView(c)
             wv == [w \in DOMAIN ws |-> WaveView(ws[w].log)]
             ran == [t \in Trials |-> RecordedExecutions(xs[t])]
             ts == [t \in Trials |-> DeriveTrial(ran[t], t \in exhausted, t \in requested)]
             sh == [s \in Locked |-> Aggregate({ts[t] : t \in ShardTrials({s})})]
             st == EffectiveStatus(campaign, wv)
             runs == {sh[s] : s \in Locked}
             clean == /\ \A a \in DOMAIN acts :
                           acts[a].kind \in Billable /\ acts[a].st # "failed" =>
                               wv[acts[a].wave].st = "closed"
                      /\ \A w \in DOMAIN ws : wv[w].st \in {"unknown", "closed"}
  <1>1. /\ v.st = st /\ v.waves = wv /\ v.ts = ts /\ v.shards = sh
        /\ v.dec = TerminalDecision(st, ts, runs, clean)
    BY DEF ProjectRecovery
  <1>2. DOMAIN wv = DOMAIN ws /\ \A w \in DOMAIN ws : wv[w] = WaveView(ws[w].log)
    OBVIOUS
  <1>3. DOMAIN ts = Trials /\ \A s \in Locked : sh[s] = Aggregate({ts[t] : t \in ShardTrials({s})})
    OBVIOUS
  <1> HIDE DEF wv, ts, sh, runs
  <1>4. ASSUME NEW w \in DOMAIN ws
        PROVE  /\ wv[w].est \in Estimates
               /\ wv[w].st = "closed" => SeenEndIn(ws[w].log)
               /\ wv[w].st # "unknown" => ws[w].log # <<>>
               /\ wv[w].st = "cleanup_failed" => FailedIn(ws[w].log)
               /\ SeenEndIn(ws[w].log) => wv[w].st \in {"closed", "bad"}
               /\ wv[w].st # "bad"
    <2>1. ws[w].log \in Seq(Events)
      <3>1. ws[w] \in Waves
        OBVIOUS
      <3>2. QED
        BY <3>1 DEF Waves
    <2>2. wv[w].st # "bad"
      BY <1>1, <1>2 DEF Readable
    <2>3. QED
      BY <1>2, <2>1, <2>2, WaveViewTells
  <1>5. \A a \in DOMAIN acts : Lives(a) => acts[a].wave \in DOMAIN ws
    BY WavesOfActions DEF Lives
  <1>6. \A a, b \in DOMAIN acts : Lives(a) /\ Lives(b) /\ a < b => wv[acts[a].wave].st = "closed"
    BY <1>4, <1>5
  <1>7. campaign.st \notin CampaignTerminal
    BY EndsAreRecorded
  <1> HIDE DEF campaign
  <1>8. /\ st = "active" => campaign.st = "active"
        /\ st \in Cancelling =>
             campaign.st # "active" \/ \E w \in DOMAIN ws : wv[w].st = "cleanup_failed"
        /\ st \notin CampaignTerminal
    <2>1. /\ "active" \notin Cancelling /\ "manual_intervention" \notin CampaignTerminal
          /\ "manual_intervention" # "active"
      BY DEF Cancelling, CampaignTerminal
    <2>2. \/ st = campaign.st
          \/ st = "manual_intervention" /\ CleanupFailed(wv) # {}
      BY DEF EffectiveStatus
    <2>3. CleanupFailed(wv) # {} => \E w \in DOMAIN ws : wv[w].st = "cleanup_failed"
      BY <1>2 DEF CleanupFailed
    <2> HIDE DEF st
    <2>4. QED
      BY <1>7, <2>1, <2>2, <2>3
  <1> HIDE DEF st
  <1>9. /\ v.dec \in CampaignTerminal \cup {"none"}
        /\ v.dec # "none" => clean
        /\ v.dec # "none" /\ st \notin Cancelling => \A t \in Trials : ts[t] \in TrialTerminal
    <2> HIDE DEF clean
    <2>1. v.dec \in CampaignTerminal \cup {"none"} /\ (v.dec # "none" => clean)
      BY <1>1, <1>8 DEF TerminalDecision, CampaignTerminal
    <2>2. v.dec # "none" /\ st \notin Cancelling => \A t \in Trials : ts[t] \in TrialTerminal
      BY <1>1, <1>3, <1>8 DEF TerminalDecision, Cancelling
    <2>3. QED
      BY <2>1, <2>2
  <1>10. clean => \A a \in DOMAIN acts : Lives(a) => SeenEndIn(ws[acts[a].wave].log)
    BY <1>4, <1>5 DEF Lives, Bills
  <1>11. ASSUME \A t \in Trials : ts[t] \in TrialTerminal, NEW s \in Locked
         PROVE  sh[s] # "planned"
    <2> DEFINE S == {ts[t] : t \in ShardTrials({s})}
    <2>1. S \subseteq TrialTerminal
      BY <1>11 DEF ShardTrials
    <2>2. sh[s] = Aggregate(S)
      BY <1>3
    <2> HIDE DEF S
    <2>3. Aggregate(S) # "planned"
      BY <2>1 DEF Aggregate, ScoredStatus
    <2>4. QED
      BY <2>2, <2>3
  <1> HIDE DEF clean
  <1>12. QED
    BY <1>1, <1>2, <1>4, <1>6, <1>8, <1>9, <1>10, <1>11 DEF campaign, Tells

(* A pass that has looked knows what its view tells.                        *)
LEMMA ViewIsLoaded ==
    ASSUME ReconcilerInv, Later, NEW at \in {"observed", "recovered"}, NEW xs,
           ReconcilerTypes', TurnsOK', HaltsOK', ~TerminalRecorded',
           Load(at, ProjectRecovery(clog', waves', xs)),
           \A t \in Trials : \A i \in DOMAIN execs'[t] :
             \/ execs'[t][i].seen \/ Overtaken
             \/ at = "recovered" /\ ~SeenEndIn(waves'[execs'[t][i].w].log)
    PROVE  ViewOK' /\ SelectedOK' /\ DecisionOK' /\ ExecutionsOK'
  <1> DEFINE v == ProjectRecovery(clog', waves', xs)
  <1>0. /\ Trials' = Trials /\ Locked' = Locked /\ Estimates' = Estimates /\ Waves' = Waves
        /\ acts' = acts /\ DOMAIN waves' = DOMAIN waves
    BY SetsStay DEF Later
  <1>1. CASE ~Readable(v)
    <2>1. pass' = Idle /\ pass'.pc = "idle"
      BY <1>1 DEF Load, Idle
    <2>2. ViewOK' /\ SelectedOK'
      BY <2>1 DEF ViewOK, SelectedOK, Viewing
    <2>3. DecisionOK'
      BY <2>1 DEF DecisionOK, Deciding, Viewing
    <2>4. ExecutionsOK'
      BY <2>1, LaterKeeps DEF ExecutionsOK
    <2>5. QED
      BY <2>2, <2>3, <2>4
  <1>2. CASE Readable(v)
    <2>1. pass'.pc = at /\ pass'.view = v
      BY <1>2 DEF Load, Idle
    <2>2. \A a \in DOMAIN acts : Lives(a)' = Lives(a)
      BY <1>0 DEF Lives, Bills
    <2>3. \A a, b \in DOMAIN acts :
             Lives(a) /\ Lives(b) /\ a < b => SeenEndIn(waves'[acts[a].wave].log)
      BY <1>0, <2>2 DEF TurnsOK
    <2>4. /\ clog' \in Seq([kind : CampaignKinds, ws : SUBSET Nat]) /\ waves' \in Seq(Waves)
          /\ \A i \in DOMAIN clog' : clog'[i].kind \notin CampaignTerminal
      BY <1>0 DEF ReconcilerTypes, TerminalRecorded
    <2> HIDE DEF v
    <2>5. v = ProjectRecovery(clog', waves', xs)
      BY DEF v
    <2>6. /\ DOMAIN v.waves = DOMAIN waves'
          /\ \A w \in DOMAIN waves' :
               /\ v.waves[w].est \in Estimates
               /\ v.waves[w].st = "closed" => SeenEndIn(waves'[w].log)
               /\ v.waves[w].st # "unknown" => waves'[w].log # <<>>
               /\ v.waves[w].st = "cleanup_failed" => FailedIn(waves'[w].log)
          /\ \A a, b \in DOMAIN acts :
               Lives(a) /\ Lives(b) /\ a < b => v.waves[acts[a].wave].st = "closed"
          /\ v.st = "active" => CampaignView(clog').st = "active"
          /\ v.st \in Cancelling => \/ CampaignView(clog').st # "active"
                                    \/ \E w \in DOMAIN waves' : v.waves[w].st = "cleanup_failed"
          /\ v.dec \in CampaignTerminal \cup {"none"}
          /\ v.dec # "none" =>
               /\ \A a \in DOMAIN acts : Lives(a) => SeenEndIn(waves'[acts[a].wave].log)
               /\ \/ v.st \in Cancelling
                  \/ /\ \A t \in Trials : v.ts[t] \in TrialTerminal
                     /\ \A s \in Locked : v.shards[s] # "planned"
      <3>1. PICK c, ws, u : c = clog' /\ ws = waves' /\ u = v
        OBVIOUS
      <3>2. /\ c \in Seq([kind : CampaignKinds, ws : SUBSET Nat]) /\ ws \in Seq(Waves)
            /\ DOMAIN ws = DOMAIN waves
            /\ \A i \in DOMAIN c : c[i].kind \notin CampaignTerminal
        BY <1>0, <2>4, <3>1
      <3>3. \A a, b \in DOMAIN acts :
              Lives(a) /\ Lives(b) /\ a < b => SeenEndIn(ws[acts[a].wave].log)
        BY <2>3, <3>1
      <3>4. u = ProjectRecovery(c, ws, xs) /\ Readable(u)
        BY <1>2, <2>5, <3>1
      <3>5. Tells(u, c, ws)
        BY <3>2, <3>3, <3>4, ViewTells
      <3>6. QED
        BY <3>1, <3>5 DEF Tells
    <2>7. v.st = "active" => \A w \in DOMAIN waves' :
             waves'[w].job = "none" /\ waves'[w].log # <<>> => Resolved'
      BY <2>6 DEF HaltsOK, Halted, Stopped
    <2>8. v.st \in Cancelling =>
            Halted' \/ \E w \in DOMAIN waves' : v.waves[w].st = "cleanup_failed"
      BY <2>6 DEF Halted, Stopped
    <2>9. ViewOK'
      BY <1>0, <2>1, <2>2, <2>6, <2>7, <2>8 DEF ViewOK
    <2>10. SelectedOK'
      BY <2>1 DEF SelectedOK
    <2>11. v.dec # "none" => Overtaken' \/ Quiet'
      <3>1. SUFFICES ASSUME v.dec # "none", ~Overtaken PROVE Quiet'
        BY LaterKeeps
      <3>2. \A a \in DOMAIN acts : Lives(a) => SeenEndIn(waves'[acts[a].wave].log)
        BY <2>6, <3>1
      <3>3. \A a \in DOMAIN acts' : Lives(a)' => EndIn(waves'[acts'[a].wave].log)
        BY <1>0, <2>2, <3>2 DEF SeenEndIn, EndIn
      <3>4. ASSUME NEW t \in Trials, NEW i \in DOMAIN execs'[t] PROVE execs'[t][i].seen
        <4> DEFINE u == execs'[t][i].w
        <4>1. /\ DOMAIN execs'[t] = DOMAIN execs[t] /\ u = execs[t][i].w
          BY DEF Later
        <4>2. u \in DOMAIN waves /\ waves[u].job \in {"running", "ended"}
          BY <4>1 DEF ReconcilerInv, ExecutionsOK
        <4>3. PICK a \in DOMAIN acts : Lives(a) /\ acts[a].wave = u
          BY <4>2, JobsHaveActions
        <4>4. SeenEndIn(waves'[u].log)
          BY <3>2, <4>3
        <4>5. QED
          BY <3>1, <4>4
      <3>5. QED
        BY <1>0, <3>3, <3>4 DEF Quiet
    <2>12. DecisionOK'
      BY <1>0, <2>1, <2>6, <2>11 DEF DecisionOK, Deciding, Viewing
    <2>13. ExecutionsOK'
      BY <1>0, <2>1, LaterKeeps DEF ExecutionsOK
    <2>14. QED
      BY <2>9, <2>10, <2>12, <2>13
  <1>3. QED
    BY <1>1, <1>2

(* What an observer copies from the Bucket.                                 *)
LEMMA ObservedTells ==
    ASSUME ReconcilerInv, NEW w \in DOMAIN waves
    PROVE  /\ ObservedLog(w) \in Seq(Events)
           /\ EndIn(ObservedLog(w)) <=> EndIn(waves[w].log)
           /\ SeenEndIn(waves[w].log) => SeenEndIn(ObservedLog(w))
           /\ FailedIn(ObservedLog(w)) <=> FailedIn(waves[w].log)
           /\ ObservedLog(w) # <<>> <=> waves[w].log # <<>>
  <1> DEFINE log == waves[w].log
             more == ObservedLog(w)
             n == Len(log)
  <1>1. waves[w] \in Waves /\ log \in Seq(Events) /\ waves[w].marker \in BOOLEAN
    BY WavesOfActions DEF Waves
  <1>2. n \in Nat /\ DOMAIN log = 1..n /\ \A i \in 1..n : log[i] \in Events
    BY <1>1
  <1>3. more = [i \in 1..n |-> [log[i] EXCEPT !.seen = log[i].seen \/ waves[w].marker]]
    BY <1>2 DEF ObservedLog
  <1>4. ASSUME NEW i \in 1..n
        PROVE  /\ more[i] \in Events /\ more[i].kind = log[i].kind
               /\ log[i].seen => more[i].seen
    <2>1. more[i] = [log[i] EXCEPT !.seen = log[i].seen \/ waves[w].marker]
      BY <1>3
    <2>2. (log[i].seen \/ waves[w].marker) \in BOOLEAN
      OBVIOUS
    <2>3. log[i] \in Events
      BY <1>2
    <2> HIDE DEF log, more
    <2>4. QED
      BY <2>1, <2>2, <2>3 DEF Events
  <1> HIDE DEF log, more, n
  <1>5. DOMAIN more = 1..n /\ more \in Seq(Events)
    <2>1. more = [i \in 1..n |-> more[i]]
      BY <1>3
    <2>2. QED
      BY <1>2, <1>4, <2>1
  <1>6. more # <<>> <=> log # <<>>
    BY <1>1, <1>2, <1>5
  <1>7. QED
    BY <1>2, <1>4, <1>5, <1>6 DEF EndIn, SeenEndIn, FailedIn, log, more

(* A pass looks.                                                            *)
LEMMA ObserveKeeps ==
    ASSUME ReconcilerInv, Observe
    PROVE  ReconcilerInv'
  <1> DEFINE X == [w : Nat, out : Outcomes, seen : BOOLEAN]
  <1>1. /\ waves' = [w \in DOMAIN waves |-> [waves[w] EXCEPT !.log = ObservedLog(w)]]
        /\ execs' = [t \in Trials |-> ObservedExecutions(t)]
        /\ Load("observed", ProjectRecovery(clog', waves', execs'))
        /\ UNCHANGED <<clog, acts, ep, plan>> /\ ~TerminalRecorded
    BY DEF Observe, world
  <1>2. /\ Halted' = Halted /\ Resolved' = Resolved /\ ~TerminalRecorded'
        /\ Trials' = Trials /\ Waves' = Waves /\ Actions' = Actions
    BY <1>1, SetsStay DEF Halted, Stopped, Resolved, TerminalRecorded
  <1>3. ASSUME NEW w \in DOMAIN waves
        PROVE  /\ waves'[w] \in Waves /\ waves'[w].log = ObservedLog(w)
               /\ waves'[w].job = waves[w].job /\ waves'[w].revived = waves[w].revived
    <2>1. waves[w] \in Waves /\ ObservedLog(w) \in Seq(Events)
      BY WavesOfActions, ObservedTells
    <2>2. waves'[w] = [waves[w] EXCEPT !.log = ObservedLog(w)]
      BY <1>1
    <2>3. QED
      BY <2>1, <2>2 DEF Waves
  <1>4. DOMAIN waves' = DOMAIN waves /\ waves' \in Seq(Waves)
    <2>1. waves \in Seq(Waves)
      BY DEF ReconcilerInv, ReconcilerTypes
    <2>2. DOMAIN waves' = DOMAIN waves
      BY <1>1
    <2>3. /\ waves' = [w \in 1..Len(waves) |-> waves'[w]]
          /\ Len(waves) \in Nat /\ DOMAIN waves = 1..Len(waves)
      BY <1>1, <2>1
    <2>4. QED
      BY <1>3, <2>2, <2>3
  <1>5. ASSUME NEW t \in Trials
        PROVE  /\ execs'[t] \in Seq(X) /\ DOMAIN execs'[t] = DOMAIN execs[t]
               /\ \A i \in DOMAIN execs[t] : execs'[t][i].w = execs[t][i].w /\ execs'[t][i].seen
    <2> DEFINE n == Len(execs[t])
    <2>1. execs[t] \in Seq(X)
      BY DEF ReconcilerInv, ReconcilerTypes
    <2>2. n \in Nat /\ DOMAIN execs[t] = 1..n /\ \A i \in 1..n : execs[t][i] \in X
      <3> HIDE DEF X
      <3> QED
        BY <2>1
    <2>3. execs'[t] = [i \in 1..n |-> [execs[t][i] EXCEPT !.seen = TRUE]]
      BY <1>1, <2>2 DEF ObservedExecutions
    <2> HIDE DEF n
    <2>4. ASSUME NEW i \in 1..n
          PROVE  execs'[t][i] \in X /\ execs'[t][i].w = execs[t][i].w /\ execs'[t][i].seen
      <3>1. execs[t][i] \in X /\ execs'[t][i] = [execs[t][i] EXCEPT !.seen = TRUE]
        BY <2>2, <2>3
      <3>2. QED
        BY <3>1
    <2>5. DOMAIN execs'[t] = 1..n /\ execs'[t] \in Seq(X)
      <3>1. execs'[t] = [i \in 1..n |-> execs'[t][i]]
        BY <2>3
      <3> HIDE DEF X
      <3>2. QED
        BY <2>2, <2>4, <3>1
    <2>6. QED
      BY <2>2, <2>4, <2>5
  <1>6. execs' \in [Trials -> Seq(X)]
    <2>1. execs' = [t \in Trials |-> execs'[t]]
      BY <1>1
    <2> HIDE DEF X
    <2>2. QED
      BY <1>5, <2>1
  <1>7. pass'.pc \in {"idle", "observed"}
    BY <1>1 DEF Load, Idle
  <1>8. ReconcilerTypes'
    BY <1>1, <1>2, <1>4, <1>6, <1>7 DEF ReconcilerInv, ReconcilerTypes
  <1>9. Later
    BY <1>1, <1>2, <1>3, <1>4, <1>5, ObservedTells DEF Later
  <1>10. Overtaken' <=> Overtaken
    BY <1>9, LaterKeeps
  <1>11. JobsOK' /\ EndsOK' /\ EndpointOK'
    <2>1. JobsOK'
      BY <1>3, <1>4, ObservedTells DEF ReconcilerInv, JobsOK
    <2>2. EndsOK'
      BY <1>3, <1>4, <1>10, ObservedTells DEF ReconcilerInv, EndsOK, Live
    <2>3. EndpointOK'
      BY <1>1, <1>3, <1>4, <1>10, ObservedTells DEF ReconcilerInv, EndpointOK
    <2>4. QED
      BY <2>1, <2>2, <2>3
  <1>12. HaltsOK'
    BY <1>1, <1>2, <1>3, <1>4, <1>9, LaterKeeps, ObservedTells DEF ReconcilerInv, HaltsOK
  <1>13. ActionsOK' /\ TurnsOK'
    BY <1>9, LaterKeeps
  <1>14. ViewOK' /\ SelectedOK' /\ DecisionOK' /\ ExecutionsOK'
    <2>1. \A t \in Trials : \A i \in DOMAIN execs'[t] : execs'[t][i].seen
      BY <1>5
    <2>2. PICK xs : xs = execs'
      OBVIOUS
    <2>3. Load("observed", ProjectRecovery(clog', waves', xs))
      BY <1>1, <2>2
    <2>4. QED
      BY <1>2, <1>8, <1>9, <1>12, <1>13, <2>1, <2>3, ViewIsLoaded
  <1>15. QED
    BY <1>8, <1>11, <1>12, <1>13, <1>14 DEF ReconcilerInv

(* A pass drains the waves whose Jobs ended, and looks again at the events. *)
LEMMA RecoverKeeps ==
    ASSUME ReconcilerInv, RecoverTerminalJobs
    PROVE  ReconcilerInv'
  <1> DEFINE v == pass.view
             ended == EndedJobs(v)
             est(w) == EstimateOf(v, w, acts[CHOOSE a \in ended : acts[a].wave = w].est)
             more(w) == Recorded(waves[w].log, "draining", est(w))
  <1>1. /\ waves' = [w \in DOMAIN waves |->
                       IF \E a \in ended : acts[a].wave = w
                       THEN [waves[w] EXCEPT !.log = more(w)] ELSE waves[w]]
        /\ pass.pc = "observed"
        /\ clog' = clog \/ clog' = WithCampaign("draining", {})
        /\ Load("recovered", ProjectRecovery(clog', waves', execs))
        /\ UNCHANGED <<acts, execs, ep, plan>>
    BY DEF RecoverTerminalJobs, world, DrainCampaign, RecordWave
  <1>2. ~TerminalRecorded
    BY <1>1 DEF ReconcilerInv, DecisionOK, Idle
  <1>3. "draining" \in CampaignKinds /\ "draining" \notin CampaignTerminal /\ {} \in SUBSET Nat
    BY DEF CampaignKinds, CampaignTerminal
  <1>4. /\ clog' \in Seq([kind : CampaignKinds, ws : SUBSET Nat])
        /\ (Halted => Halted') /\ (Resolved => Resolved') /\ ~TerminalRecorded'
    BY <1>1, <1>2, <1>3, CampaignRecords
  <1>5. ASSUME NEW w \in DOMAIN waves
        PROVE  /\ waves'[w] \in Waves
               /\ waves'[w].job = waves[w].job /\ waves'[w].revived = waves[w].revived
               /\ EndIn(waves'[w].log) <=> EndIn(waves[w].log)
               /\ SeenEndIn(waves'[w].log) <=> SeenEndIn(waves[w].log)
               /\ FailedIn(waves'[w].log) <=> FailedIn(waves[w].log)
               /\ waves[w].log # <<>> => waves'[w].log # <<>>
               /\ waves[w].job = "none" => waves'[w] = waves[w]
    <2>1. waves[w] \in Waves /\ waves[w].log \in Seq(Events)
      BY WavesOfActions DEF Waves
    <2>2. CASE ~ \E a \in ended : acts[a].wave = w
      <3>1. waves'[w] = waves[w]
        BY <1>1, <2>2
      <3>2. QED
        BY <2>1, <3>1
    <2>3. CASE \E a \in ended : acts[a].wave = w
      <3>1. waves'[w] = [waves[w] EXCEPT !.log = more(w)] /\ waves[w].job = "ended"
        <4>1. waves[w].job = "ended"
          BY <2>3 DEF EndedJobs
        <4>2. QED
          BY <1>1, <2>3, <4>1
      <3>2. est(w) \in Estimates
        <4> DEFINE a == CHOOSE a \in ended : acts[a].wave = w
        <4>1. a \in ended
          BY <2>3
        <4>2. a \in DOMAIN acts
          BY <4>1 DEF EndedJobs
        <4>3. acts[a].est \in Estimates
          BY <4>2, WavesOfActions DEF Actions
        <4>4. w \in Known(v) => v.waves[w].est \in Estimates
          BY <1>1 DEF Known, ReconcilerInv, ViewOK, Viewing
        <4>5. QED
          BY <4>3, <4>4 DEF EstimateOf
      <3>3. PICK e \in Estimates : e = est(w)
        BY <3>2
      <3> DEFINE m == Recorded(waves[w].log, "draining", e)
      <3>4. /\ m \in Seq(Events) /\ m # <<>>
            /\ EndIn(m) <=> EndIn(waves[w].log)
            /\ SeenEndIn(m) <=> SeenEndIn(waves[w].log)
            /\ FailedIn(m) <=> FailedIn(waves[w].log)
        BY <2>1, RecordedOnce
      <3>5. waves'[w] = [waves[w] EXCEPT !.log = m]
        BY <3>1, <3>3
      <3> HIDE DEF m
      <3>6. /\ waves'[w] \in Waves /\ waves'[w].log = m
            /\ waves'[w].job = waves[w].job /\ waves'[w].revived = waves[w].revived
        BY <2>1, <3>4, <3>5 DEF Waves
      <3>7. QED
        BY <3>1, <3>4, <3>6
    <2>4. QED
      BY <2>2, <2>3
  <1>6. DOMAIN waves' = DOMAIN waves /\ waves' \in Seq(Waves)
    <2>1. waves \in Seq(Waves)
      BY DEF ReconcilerInv, ReconcilerTypes
    <2>2. DOMAIN waves' = DOMAIN waves
      BY <1>1
    <2>3. /\ waves' = [w \in 1..Len(waves) |-> waves'[w]]
          /\ Len(waves) \in Nat /\ DOMAIN waves = 1..Len(waves)
      BY <1>1, <2>1
    <2>4. QED
      BY <1>5, <2>2, <2>3
  <1>7. pass'.pc \in {"idle", "recovered"}
    BY <1>1 DEF Load, Idle
  <1>8. ReconcilerTypes'
    BY <1>1, <1>4, <1>6, <1>7, SetsStay DEF ReconcilerInv, ReconcilerTypes
  <1>9. Later
    BY <1>1, <1>4, <1>5, <1>6 DEF Later
  <1>10. Overtaken' <=> Overtaken
    BY <1>9, LaterKeeps
  <1>11. JobsOK' /\ EndsOK' /\ EndpointOK'
    <2>1. JobsOK'
      BY <1>5, <1>6 DEF ReconcilerInv, JobsOK
    <2>2. EndsOK'
      BY <1>5, <1>6, <1>10 DEF ReconcilerInv, EndsOK, Live
    <2>3. EndpointOK'
      BY <1>1, <1>5, <1>6, <1>10 DEF ReconcilerInv, EndpointOK
    <2>4. QED
      BY <2>1, <2>2, <2>3
  <1>12. HaltsOK'
    <2>1. \A w \in DOMAIN waves' : waves'[w].job = "none" /\ waves'[w].log # <<>> => Halted'
      BY <1>4, <1>5, <1>6 DEF ReconcilerInv, HaltsOK
    <2>2. QED
      BY <1>9, <2>1, LaterKeeps DEF HaltsOK
  <1>13. ActionsOK' /\ TurnsOK'
    BY <1>9, LaterKeeps
  <1>14. ViewOK' /\ SelectedOK' /\ DecisionOK' /\ ExecutionsOK'
    <2>1. ASSUME NEW t \in Trials, NEW i \in DOMAIN execs'[t]
          PROVE  execs'[t][i].seen \/ Overtaken \/ ~SeenEndIn(waves'[execs'[t][i].w].log)
      <3>1. execs' = execs
        BY <1>1
      <3>2. /\ execs[t][i].w \in DOMAIN waves
            /\ execs[t][i].seen \/ Overtaken \/ ~SeenEndIn(waves[execs[t][i].w].log)
        BY <1>1, <2>1, <3>1 DEF ReconcilerInv, ExecutionsOK
      <3>3. QED
        BY <1>5, <3>1, <3>2
    <2>2. PICK xs : xs = execs
      OBVIOUS
    <2>3. Load("recovered", ProjectRecovery(clog', waves', xs))
      BY <1>1, <2>2
    <2>4. QED
      BY <1>4, <1>8, <1>9, <1>12, <1>13, <2>1, <2>3, ViewIsLoaded
  <1>15. QED
    BY <1>8, <1>11, <1>12, <1>13, <1>14 DEF ReconcilerInv

(* A pass that plans no new action takes up one that has no outcome, or     *)
(* goes on to record the end of the campaign.                               *)
LEMMA PlanAddsNothing ==
    ASSUME ReconcilerInv, Judging, UNCHANGED <<plan, clog, acts, waves, execs, ep>>,
           \/ pass' = Idle
           \/ /\ pass.view.dec # "none"
              /\ pass'.pc = "published" /\ pass'.view.dec = pass.view.dec
           \/ /\ pass'.pc = "selected" /\ pass'.view = pass.view
              /\ pass'.act \in Pending(acts)
    PROVE  ReconcilerInv'
  <1>1. ~TerminalRecorded /\ ~TerminalRecorded'
    BY DEF ReconcilerInv, DecisionOK, Judging, Idle, TerminalRecorded
  <1>2. pass'.pc \in {"idle", "published", "selected"}
    BY DEF Idle
  <1>3. /\ clog' \in Seq([kind : CampaignKinds, ws : SUBSET Nat])
        /\ (Halted => Halted') /\ (Resolved => Resolved')
    BY DEF ReconcilerInv, ReconcilerTypes, Halted, Stopped, Resolved
  <1>4. Later /\ ReconcilerTypes' /\ JobsOK' /\ EndsOK' /\ EndpointOK'
    BY <1>2, <1>3, NoWaveChange
  <1>5. HaltsOK'
    BY <1>3, <1>4, LaterKeeps DEF ReconcilerInv, HaltsOK
  <1>6. Estimates' = Estimates
    BY SetsStay
  <1>7. ViewOK'
    <2>1. CASE pass'.pc = "selected"
      <3>1. pass'.view = pass.view /\ pass.pc \in Viewing
        BY <2>1 DEF Idle, Judging, Viewing
      <3>2. QED
        BY <1>3, <1>6, <2>1, <3>1 DEF ReconcilerInv, ViewOK
    <2>2. CASE pass'.pc # "selected"
      BY <1>2, <2>2 DEF ViewOK, Viewing
    <2>3. QED
      BY <2>1, <2>2
  <1>8. SelectedOK'
    BY <1>2 DEF SelectedOK, Idle
  <1>9. ExecutionsOK'
    BY <1>2, <1>4, LaterKeeps DEF ExecutionsOK
  <1>10. DecisionOK'
    <2>1. /\ pass.view.dec \in CampaignTerminal \cup {"none"}
          /\ pass.view.dec # "none" => Overtaken' \/ Quiet'
      BY <1>4, LaterKeeps DEF ReconcilerInv, DecisionOK, Judging, Deciding, Viewing
    <2>2. CASE pass' = Idle
      BY <1>1, <2>2 DEF DecisionOK, Idle, Deciding, Viewing
    <2>3. CASE pass' # Idle
      <3>1. pass'.view.dec = pass.view.dec /\ (pass'.pc = "published" => pass.view.dec # "none")
        BY <2>3
      <3>2. pass'.pc \in {"published", "selected"}
        BY <2>3
      <3>3. QED
        BY <1>1, <2>1, <3>1, <3>2 DEF DecisionOK
    <2>4. QED
      BY <2>2, <2>3
  <1>11. QED
    BY <1>4, <1>5, <1>7, <1>8, <1>9, <1>10, LaterKeeps DEF ReconcilerInv

(* A pass that reserves the first action it plans.                          *)
LEMMA PlanReservesSafely ==
    ASSUME ReconcilerInv, Judging, NEW d \in Planned(pass.view), Reserve(Reservation(d)),
           UNCHANGED <<plan, clog, execs, ep>>,
           \/ pass' = Idle
           \/ /\ pass'.pc = "selected" /\ pass'.view = pass.view
              /\ pass'.act \in Pending(acts')
    PROVE  ReconcilerInv'
  <1> DEFINE c == Reservation(d)
             m == Len(waves) + 1
             new == [trials |-> c.trials, job |-> "none", revived |-> FALSE,
                     marker |-> FALSE, log |-> <<>>]
  <1>1. /\ d \in Candidate
        /\ d.kind \in OnWaveKinds => d.wave \in DOMAIN waves
        /\ d.kind \in {"drain-wave", "cleanup-wave"} /\ waves[d.wave].log = <<>> => Halted
        /\ d.kind \in Billable =>
             /\ pass.view.dec = "none"
             /\ \A a \in DOMAIN acts : Lives(a) => SeenEndIn(waves[acts[a].wave].log)
    BY PlannedIsSafe
  <1>2. /\ acts \in Seq(Actions) /\ waves \in Seq(Waves)
        /\ DOMAIN acts = 1..Len(acts) /\ DOMAIN waves = 1..Len(waves)
        /\ Len(acts) \in Nat /\ Len(waves) \in Nat
    BY DEF ReconcilerInv, ReconcilerTypes
  <1>0. PICK n \in Nat : n = Len(acts) + 1
    BY <1>2
  <1>3. /\ c.kind = d.kind /\ c.trials = d.trials /\ c.st = "reserved"
        /\ c.wave = IF d.kind \in Billable THEN m ELSE d.wave
        /\ c \in Actions
    BY <1>1, <1>2 DEF Reservation, Candidate, Actions
  <1>4. new \in Waves
    BY <1>3 DEF Actions, Waves
  <1>5. /\ acts' = Append(acts, c) /\ acts' \in Seq(Actions) /\ Len(acts') = n
        /\ DOMAIN acts' = DOMAIN acts \cup {n} /\ n \notin DOMAIN acts
        /\ acts'[n] = c /\ \A a \in DOMAIN acts : acts'[a] = acts[a] /\ a < n
    <2>1. acts' = Append(acts, c)
      BY DEF Reserve
    <2> HIDE DEF c
    <2>2. QED
      BY <1>0, <1>2, <1>3, <2>1
  <1>6. /\ waves' = IF d.kind \in Billable THEN Append(waves, new) ELSE waves
        /\ waves' \in Seq(Waves)
        /\ DOMAIN waves' = IF d.kind \in Billable THEN DOMAIN waves \cup {m} ELSE DOMAIN waves
        /\ m \notin DOMAIN waves /\ (d.kind \in Billable => waves'[m] = new)
        /\ \A w \in DOMAIN waves : waves'[w] = waves[w] /\ w < m
    <2>1. waves' = IF d.kind \in Billable THEN Append(waves, new) ELSE waves
      BY <1>3 DEF Reserve
    <2> HIDE DEF new
    <2>2. CASE d.kind \in Billable
      BY <1>2, <1>4, <2>1, <2>2
    <2>3. CASE d.kind \notin Billable
      BY <1>2, <2>1, <2>3
    <2>4. QED
      BY <2>2, <2>3
  <1> HIDE DEF c, m
  <1>7. /\ new.job = "none" /\ new.revived = FALSE /\ new.log = <<>>
        /\ ~EndIn(new.log) /\ ~FailedIn(new.log)
    BY DEF EndIn, FailedIn
  <1> HIDE DEF new
  <1>8. /\ ~TerminalRecorded /\ ~TerminalRecorded'
        /\ Halted' = Halted /\ Resolved' = Resolved
    BY DEF ReconcilerInv, DecisionOK, Judging, Idle, TerminalRecorded, Halted, Stopped, Resolved
  <1>9. pass'.pc \in {"idle", "selected"}
    BY DEF Idle
  <1>10. /\ Trials' = Trials /\ Locked' = Locked /\ Estimates' = Estimates
         /\ Events' = Events /\ Waves' = Waves /\ Actions' = Actions
    BY SetsStay
  <1>11. ReconcilerTypes'
    BY <1>5, <1>6, <1>9, <1>10 DEF ReconcilerInv, ReconcilerTypes
  <1>12. Overtaken' <=> Overtaken
    BY <1>6, <1>7 DEF Overtaken
  <1>13. /\ \A a \in DOMAIN acts : (Bills(a)' <=> Bills(a)) /\ (Lives(a)' <=> Lives(a))
         /\ Bills(n)' <=> d.kind \in Billable
    BY <1>3, <1>5 DEF Bills, Lives
  <1>14. ASSUME NEW a \in DOMAIN acts, acts[a].kind \in Billable \cup OnWaveKinds
         PROVE  acts[a].wave \in DOMAIN waves
    BY <1>14 DEF ReconcilerInv, ActionsOK
  <1>15. ActionsOK'
    <2>1. \A a \in DOMAIN acts' : acts'[a].kind \in Billable \cup OnWaveKinds =>
            acts'[a].wave \in DOMAIN waves'
      BY <1>1, <1>3, <1>5, <1>6, <1>14
    <2>2. \A a \in DOMAIN acts' : Bills(a)' /\ acts'[a].st = "failed" =>
            waves'[acts'[a].wave].job = "none"
      BY <1>3, <1>5, <1>6, <1>13, <1>14 DEF ReconcilerInv, ActionsOK, Bills
    <2>3. ASSUME NEW a \in DOMAIN acts', NEW b \in DOMAIN acts', Bills(a)', Bills(b)', a < b
          PROVE  acts'[a].wave < acts'[b].wave
      <3>1. a \in DOMAIN acts
        BY <1>0, <1>2, <1>5, <2>3
      <3>2. CASE b \in DOMAIN acts
        BY <1>5, <1>13, <2>3, <3>1, <3>2 DEF ReconcilerInv, ActionsOK
      <3>3. CASE b = n
        BY <1>3, <1>5, <1>6, <1>13, <1>14, <2>3, <3>1, <3>3 DEF Bills
      <3>4. QED
        BY <1>5, <3>2, <3>3
    <2>4. \A w \in DOMAIN waves' : \E a \in DOMAIN acts' : Bills(a)' /\ acts'[a].wave = w
      <3>1. ASSUME NEW w \in DOMAIN waves
            PROVE  \E a \in DOMAIN acts' : Bills(a)' /\ acts'[a].wave = w
        <4>1. PICK a \in DOMAIN acts : Bills(a) /\ acts[a].wave = w
          BY DEF ReconcilerInv, ActionsOK
        <4>2. Bills(a)' /\ acts'[a].wave = w /\ a \in DOMAIN acts'
          BY <1>5, <1>13, <4>1
        <4>3. QED
          BY <4>2
      <3>2. ASSUME d.kind \in Billable
            PROVE  Bills(n)' /\ acts'[n].wave = m /\ n \in DOMAIN acts'
        BY <1>3, <1>5, <1>13, <3>2
      <3>3. QED
        BY <1>6, <3>1, <3>2
    <2>5. QED
      BY <2>1, <2>2, <2>3, <2>4 DEF ActionsOK
  <1>16. JobsOK'
    BY <1>6, <1>7 DEF ReconcilerInv, JobsOK
  <1>17. EndsOK'
    BY <1>6, <1>7, <1>12 DEF ReconcilerInv, EndsOK, Live
  <1>18. EndpointOK'
    BY <1>6, <1>12 DEF ReconcilerInv, EndpointOK
  <1>19. TurnsOK'
    <2>1. ASSUME NEW a \in DOMAIN acts', NEW b \in DOMAIN acts', Lives(a)', Lives(b)', a < b
          PROVE  SeenEndIn(waves'[acts'[a].wave].log)
      <3>1. a \in DOMAIN acts
        BY <1>0, <1>2, <1>5, <2>1
      <3>2. Lives(a) /\ acts'[a] = acts[a] /\ acts[a].wave \in DOMAIN waves
        BY <1>5, <1>13, <1>14, <2>1, <3>1 DEF Lives, Bills
      <3>3. waves'[acts'[a].wave] = waves[acts[a].wave]
        BY <1>6, <3>2
      <3>4. CASE b \in DOMAIN acts
        BY <1>13, <2>1, <3>1, <3>2, <3>3, <3>4 DEF ReconcilerInv, TurnsOK
      <3>5. CASE b = n
        BY <1>1, <1>13, <2>1, <3>1, <3>2, <3>3, <3>5 DEF Lives
      <3>6. QED
        BY <1>5, <3>4, <3>5
    <2>2. QED
      BY <2>1 DEF TurnsOK
  <1>20. HaltsOK'
    <2>1. \A w \in DOMAIN waves' : waves'[w].job = "none" /\ waves'[w].log # <<>> => Halted'
      BY <1>6, <1>7, <1>8 DEF ReconcilerInv, HaltsOK
    <2>2. ASSUME NEW a \in DOMAIN acts', acts'[a].kind \in {"drain-wave", "cleanup-wave"},
                 waves'[acts'[a].wave].log = <<>>
          PROVE  Halted'
      <3>1. CASE a \in DOMAIN acts
        <4>1. acts[a].kind \in {"drain-wave", "cleanup-wave"} /\ acts[a].kind \in OnWaveKinds
          BY <1>5, <2>2, <3>1 DEF OnWaveKinds
        <4>2. acts[a].wave \in DOMAIN waves
          BY <1>14, <3>1, <4>1
        <4>3. waves[acts[a].wave].log = <<>>
          BY <1>5, <1>6, <2>2, <3>1, <4>2
        <4>4. QED
          BY <1>8, <3>1, <4>1, <4>3 DEF ReconcilerInv, HaltsOK
      <3>2. CASE a = n
        <4>1. d.kind \in {"drain-wave", "cleanup-wave"} /\ d.kind \notin Billable
          BY <1>3, <1>5, <2>2, <3>2 DEF Billable
        <4>2. d.wave \in DOMAIN waves /\ c.wave = d.wave
          BY <1>1, <1>3, <4>1 DEF OnWaveKinds
        <4>3. waves[d.wave].log = <<>>
          BY <1>5, <1>6, <2>2, <3>2, <4>2
        <4>4. QED
          BY <1>1, <1>8, <4>1, <4>3
      <3>3. QED
        BY <1>5, <3>1, <3>2
    <2>3. QED
      BY <1>8, <1>12, <2>1, <2>2 DEF ReconcilerInv, HaltsOK
  <1>21. ViewOK'
    <2>1. CASE pass'.pc = "selected"
      <3>1. pass'.view = pass.view /\ pass.pc \in Viewing
        BY <2>1 DEF Idle, Judging, Viewing
      <3>2. LET v == pass.view IN
            /\ DOMAIN v.waves \subseteq DOMAIN waves
            /\ \A w \in DOMAIN v.waves :
                  /\ v.waves[w].est \in Estimates
                  /\ v.waves[w].st = "closed" => SeenEndIn(waves[w].log)
                  /\ v.waves[w].st # "unknown" => waves[w].log # <<>>
                  /\ v.waves[w].st = "cleanup_failed" => FailedIn(waves[w].log)
            /\ v.st = "active" => \A w \in DOMAIN waves :
                  waves[w].job = "none" /\ waves[w].log # <<>> => Resolved
        BY <3>1 DEF ReconcilerInv, ViewOK
      <3>3. LET v == pass.view IN
            /\ DOMAIN v.waves \subseteq DOMAIN waves'
            /\ \A w \in DOMAIN v.waves :
                  /\ v.waves[w].est \in Estimates'
                  /\ v.waves[w].st = "closed" => SeenEndIn(waves'[w].log)
                  /\ v.waves[w].st # "unknown" => waves'[w].log # <<>>
                  /\ v.waves[w].st = "cleanup_failed" => FailedIn(waves'[w].log)
        BY <1>6, <1>10, <3>2
      <3>4. pass.view.st = "active" => \A w \in DOMAIN waves' :
                  waves'[w].job = "none" /\ waves'[w].log # <<>> => Resolved'
        BY <1>6, <1>7, <1>8, <3>2
      <3>5. QED
        BY <2>1, <3>1, <3>3, <3>4 DEF ViewOK
    <2>2. CASE pass'.pc # "selected"
      BY <1>9, <2>2 DEF ViewOK, Viewing
    <2>3. QED
      BY <2>1, <2>2
  <1>22. SelectedOK'
    BY <1>9 DEF SelectedOK, Idle
  <1>23. ExecutionsOK'
    BY <1>6, <1>9, <1>10 DEF ReconcilerInv, ExecutionsOK
  <1>24. DecisionOK'
    <2>1. CASE pass' = Idle
      BY <1>8, <2>1 DEF DecisionOK, Idle, Deciding, Viewing
    <2>2. CASE pass' # Idle
      <3>1. pass'.pc = "selected" /\ pass'.view = pass.view
        BY <2>2
      <3>2. /\ pass.view.dec \in CampaignTerminal \cup {"none"}
            /\ pass.view.dec # "none" => Overtaken \/ Quiet
        BY DEF ReconcilerInv, DecisionOK, Judging, Deciding, Viewing
      <3>3. pass.view.dec # "none" => d.kind \notin Billable
        BY <1>1
      <3>4. d.kind \notin Billable /\ Quiet => Quiet'
        <4>1. SUFFICES ASSUME d.kind \notin Billable, Quiet
                       PROVE  Quiet'
          OBVIOUS
        <4>2. \A a \in DOMAIN acts' : Lives(a)' => a \in DOMAIN acts /\ Lives(a)
          BY <1>5, <1>13, <4>1 DEF Lives
        <4>3. \A a \in DOMAIN acts' : Lives(a)' => EndIn(waves'[acts'[a].wave].log)
          BY <1>5, <1>6, <1>14, <4>1, <4>2 DEF Quiet, Lives, Bills
        <4>4. QED
          BY <1>10, <4>1, <4>3 DEF Quiet
      <3>5. QED
        BY <1>8, <1>12, <3>1, <3>2, <3>3, <3>4 DEF DecisionOK
    <2>3. QED
      BY <2>1, <2>2
  <1>25. QED
    BY <1>11, <1>15, <1>16, <1>17, <1>18, <1>19, <1>20, <1>21, <1>22, <1>23, <1>24
       DEF ReconcilerInv

(* A pass plans.                                                            *)
LEMMA PlanKeeps ==
    ASSUME ReconcilerInv, Plan
    PROVE  ReconcilerInv'
  <1> DEFINE v == pass.view
             picks(a) == pass' = [pc |-> "selected", view |-> v, act |-> a, out |-> "none"]
  <1>1. Judging /\ UNCHANGED <<plan, clog, execs, ep>>
    BY DEF Plan, Judging, world
  <1>2. \/ /\ v.dec # "none"
           /\ pass' = [Idle EXCEPT !.pc = "published", !.view = [dec |-> v.dec]]
           /\ UNCHANGED <<acts, waves>>
        \/ /\ pass' = Idle \/ \E a \in Pending(acts) : picks(a)
           /\ UNCHANGED <<acts, waves>>
        \/ /\ \E d \in FirstOf(Planned(v)) : Reserve(Reservation(d))
           /\ pass' = Idle \/ \E a \in Pending(acts') : picks(a)
    BY Zenon DEF Plan
  <1>3. CASE /\ v.dec # "none"
             /\ pass' = [Idle EXCEPT !.pc = "published", !.view = [dec |-> v.dec]]
             /\ UNCHANGED <<acts, waves>>
    <2>1. pass'.pc = "published" /\ pass'.view.dec = v.dec
      BY <1>3 DEF Idle
    <2>2. QED
      BY <1>1, <1>3, <2>1, PlanAddsNothing
  <1>4. CASE /\ pass' = Idle \/ \E a \in Pending(acts) : picks(a)
             /\ UNCHANGED <<acts, waves>>
    <2>1. \/ pass' = Idle
          \/ pass'.pc = "selected" /\ pass'.view = pass.view /\ pass'.act \in Pending(acts)
      BY <1>4
    <2>2. QED
      BY <1>1, <1>4, <2>1, PlanAddsNothing
  <1>5. CASE /\ \E d \in FirstOf(Planned(v)) : Reserve(Reservation(d))
             /\ pass' = Idle \/ \E a \in Pending(acts') : picks(a)
    <2>1. PICK d \in Planned(v) : Reserve(Reservation(d))
      BY <1>5 DEF FirstOf
    <2>2. \/ pass' = Idle
          \/ pass'.pc = "selected" /\ pass'.view = pass.view /\ pass'.act \in Pending(acts')
      BY <1>5
    <2>3. QED
      BY <1>1, <2>1, <2>2, PlanReservesSafely
  <1>6. QED
    BY <1>2, <1>3, <1>4, <1>5

-----------------------------------------------------------------------------
(* The theorems *)

(* A new campaign satisfies the invariant.                                  *)
LEMMA ReconcilerStarts == ReconcilerInit => ReconcilerInv
  <1> SUFFICES ASSUME ReconcilerInit
               PROVE  ReconcilerInv
    OBVIOUS
  <1>1. /\ pass = Idle /\ pass.pc = "idle" /\ ep = "paused"
        /\ clog = <<>> /\ acts = <<>> /\ waves = <<>>
        /\ DOMAIN clog = {} /\ DOMAIN acts = {} /\ DOMAIN waves = {}
    BY DEF ReconcilerInit, Idle
  <1>2. \A t \in Trials : execs[t] = <<>> /\ DOMAIN execs[t] = {}
    BY DEF ReconcilerInit
  <1>3. ReconcilerTypes
    BY <1>1 DEF ReconcilerInit, ReconcilerTypes
  <1>4. ActionsOK /\ JobsOK /\ EndsOK /\ TurnsOK /\ HaltsOK
    BY <1>1 DEF ActionsOK, JobsOK, EndsOK, TurnsOK, HaltsOK, Overtaken
  <1>5. ViewOK /\ SelectedOK /\ EndpointOK /\ ExecutionsOK
    BY <1>1, <1>2 DEF ViewOK, SelectedOK, EndpointOK, ExecutionsOK, Viewing
  <1>6. DecisionOK
    BY <1>1 DEF DecisionOK, Deciding, Viewing, TerminalRecorded
  <1>7. QED
    BY <1>3, <1>4, <1>5, <1>6 DEF ReconcilerInv

(* Every step of the passes, the Jobs, the operator and the clock keeps it. *)
LEMMA ReconcilerStep ==
    ReconcilerInv /\ [ReconcilerNext]_reconcilerVars => ReconcilerInv'
  <1> SUFFICES ASSUME ReconcilerInv, [ReconcilerNext]_reconcilerVars
               PROVE  ReconcilerInv'
    OBVIOUS
  <1>1. CASE Reconcile
    <2>1. CASE Observe \/ RecoverTerminalJobs \/ Plan
      BY <2>1, ObserveKeeps, RecoverKeeps, PlanKeeps
    <2>2. CASE SubmitWave \/ CancelWave \/ DrainWave \/ CleanupWave \/ ManualIntervention
      BY <2>2, SubmitWaveKeeps, CancelWaveKeeps, DrainWaveKeeps, CleanupWaveKeeps,
         ManualInterventionKeeps
    <2>3. CASE ExhaustTrials \/ PublishSummary \/ RecordOutcome \/ RecordTerminal
      BY <2>3, SummaryKeeps, RecordOutcomeKeeps, PassEndsKeeps
    <2>4. QED
      BY <1>1, <2>1, <2>2, <2>3 DEF Reconcile
  <1>2. CASE PassStops
    BY <1>2, PassEndsKeeps
  <1>3. ASSUME NEW w \in DOMAIN waves, Worker(w) \/ JobDies(w)
        PROVE  ReconcilerInv'
    <2>1. CASE WorkerStarts(w) \/ JobDies(w)
      BY <2>1, WorkerStartsKeeps, JobDiesKeeps
    <2>2. ASSUME NEW t \in Trials, NEW out \in Outcomes, TrialEnds(w, t, out)
          PROVE  ReconcilerInv'
      BY <2>2, TrialEndsKeeps
    <2>3. ASSUME NEW cleaned \in BOOLEAN, WorkerEnds(w, cleaned)
          PROVE  ReconcilerInv'
      BY <2>3, WorkerEndsKeeps
    <2>4. QED
      BY <1>3, <2>1, <2>2, <2>3 DEF Worker, Outcomes
  <1>4. CASE CancelRequest \/ Resolve
    BY <1>4, CancelRequestKeeps, ResolveKeeps
  <1>5. CASE GraceElapses
    BY <1>5, OthersKeep DEF GraceElapses, durable
  <1>6. ASSUME NEW t \in Trials, BackoffElapses(t)
        PROVE  ReconcilerInv'
    BY <1>6, OthersKeep DEF BackoffElapses, durable
  <1>7. ASSUME NEW s \in Locked, RetryRequest(s)
        PROVE  ReconcilerInv'
    BY <1>7, OthersKeep DEF RetryRequest
  <1>8. CASE UNCHANGED reconcilerVars
    BY <1>8, OthersKeep DEF reconcilerVars
  <1>9. QED
    BY <1>1, <1>2, <1>3, <1>4, <1>5, <1>6, <1>7, <1>8 DEF ReconcilerNext

(* The invariant of the reconciler, its Jobs and the operator. Of two       *)
(* billable actions that did not fail the earlier one's wave has a seen     *)
(* end, an ended wave has no Job that runs, what the view of a pass tells   *)
(* is still true when the pass acts on it, and an end of the campaign rests *)
(* on waves that ended and executions that were observed.                   *)
THEOREM ReconcilerInvariance == ReconcilerSpec => []ReconcilerInv
  <1>1. QED
    BY ReconcilerStarts, ReconcilerStep, PTL DEF ReconcilerSpec

(* Two Jobs that run would be of two actions, and the earlier one's wave    *)
(* would have ended.                                                        *)
LEMMA OneJobFollows == ReconcilerInv => OneLiveJob
  <1> SUFFICES ASSUME ReconcilerInv
               PROVE  OneLiveJob
    OBVIOUS
  <1>1. Overtaken => Resolved
    BY DEF ReconcilerInv, HaltsOK
  <1>2. ASSUME ~Overtaken, NEW v \in DOMAIN waves, NEW w \in DOMAIN waves, Live(v), Live(w),
               v # w
        PROVE  FALSE
    <2>1. waves[v].job # "none" /\ waves[w].job # "none"
      BY <1>2 DEF Live
    <2>2. PICK a \in DOMAIN acts : Lives(a) /\ acts[a].wave = v
      BY <2>1, JobsHaveActions
    <2>3. PICK b \in DOMAIN acts : Lives(b) /\ acts[b].wave = w
      BY <2>1, JobsHaveActions
    <2>4. a \in Nat /\ b \in Nat /\ a # b
      BY <1>2, <2>2, <2>3, WavesOfActions
    <2>5. SeenEndIn(waves[v].log) \/ SeenEndIn(waves[w].log)
      <3>1. a < b \/ b < a
        BY <2>4
      <3>2. QED
        BY <2>2, <2>3, <3>1 DEF ReconcilerInv, TurnsOK
    <2>6. EndIn(waves[v].log) \/ EndIn(waves[w].log)
      BY <2>5 DEF SeenEndIn, EndIn
    <2>7. QED
      BY <1>2, <2>6 DEF ReconcilerInv, EndsOK
  <1>3. QED
    BY <1>1, <1>2 DEF OneLiveJob

(* One wave Job at a time uses the deployment, whatever was ambiguous,      *)
(* adopted, retried or reserved again, for any number of shards, trials,    *)
(* actions and faults (_submit_wave, deployment_active_waves), unless a     *)
(* wave that was drained before its Job existed is submitted after all,     *)
(* which takes an operator's resolution of a failed cleanup.                *)
THEOREM OneWaveAtATime == ReconcilerSpec => []OneLiveJob
  <1>1. QED
    BY ReconcilerInvariance, OneJobFollows, PTL

(* A recorded end leaves the endpoint paused and nothing that runs.         *)
LEMMA CleanFollows == ReconcilerInv => TerminalIsClean
  <1> SUFFICES ASSUME ReconcilerInv, TerminalRecorded, ~Overtaken
               PROVE  /\ ep = "paused"
                      /\ \A w \in DOMAIN waves : ~Live(w)
                      /\ \A t \in Trials : \A i \in DOMAIN execs[t] : execs[t][i].seen
    BY DEF TerminalIsClean
  <1>1. Quiet
    BY DEF ReconcilerInv, DecisionOK
  <1>2. \A w \in DOMAIN waves : ~Live(w)
    BY <1>1, QuietIsStill
  <1>3. \A t \in Trials : \A i \in DOMAIN execs[t] : execs[t][i].seen
    BY <1>1 DEF Quiet
  <1>4. ASSUME ep # "paused"
        PROVE  FALSE
    <2>1. ep = "running"
      BY <1>4 DEF ReconcilerInv, ReconcilerTypes
    <2>2. PICK w \in DOMAIN waves : waves[w].job \in {"running", "ended"} /\ ~EndIn(waves[w].log)
      BY <2>1 DEF ReconcilerInv, EndpointOK
    <2>3. PICK a \in DOMAIN acts : Lives(a) /\ acts[a].wave = w
      BY <2>2, JobsHaveActions
    <2>4. QED
      BY <1>1, <2>2, <2>3 DEF Quiet
  <1>5. QED
    BY <1>2, <1>3, <1>4

(* When the end of a campaign is recorded the endpoint is paused, no Job    *)
(* runs or is scheduled, and every execution a worker published has been    *)
(* observed (_terminal_decision, _cleanup_wave, _record_terminal), with the *)
(* same exception.                                                          *)
THEOREM EndsClean == ReconcilerSpec => []TerminalIsClean
  <1>1. QED
    BY ReconcilerInvariance, CleanFollows, PTL
=============================================================================
