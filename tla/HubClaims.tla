----------------------------- MODULE HubClaims -----------------------------
(***************************************************************************)
(* Claims kept as files of a private Hub repository (src/harbor_hf/        *)
(* coordination.py: HubClaimStore.acquire and release), as the workers,    *)
(* the reconciler, the publisher and the evidence writer use them: build   *)
(* an owner, acquire, work, release.                                       *)
(*                                                                         *)
(* A client reads the head commit, then the file at that revision, and     *)
(* commits its change with the head as parent; the repository refuses the  *)
(* commit when its head has moved, whichever path moved it.  A commit may  *)
(* also fail, or take effect while its response is lost.  A client may     *)
(* stop at any point, and nothing interrupts its work when its claim       *)
(* expires.                                                                *)
(***************************************************************************)
EXTENDS Integers

CONSTANTS
    Clients, Paths,
    Free,        \* no file at a path
    Target,      \* the path each client claims
    TTL,         \* per client: how long its claim lasts, Never for the Endpoint's
    MaxAttempts, \* _MAX_COMMIT_ATTEMPTS
    MaxTime      \* bound: the last tick of the clock

(* A claim without expires_at never expires.                               *)
Never == -1
Claims == [owner : Clients, expires : Nat \cup {Never}]

ASSUME ClientsAssumption ==
    /\ Target \in [Clients -> Paths]
    /\ TTL \in [Clients -> (Nat \ {0}) \cup {Never}]
ASSUME BoundsAssumption == MaxAttempts \in Nat \ {0} /\ MaxTime \in Nat
ASSUME FreeAssumption == Free \notin Claims

VARIABLES
    claim,   \* per path: Free, or the owner written there and when it expires
    now,     \* the clock of every client
    head,    \* commits of the repository's main branch
    pc,      \* per client: where it is
    base,    \* per client: the head it read
    seen,    \* per client: the file of its path at that head
    mine,    \* per client: the owner it claims with
    attempt, \* per client: commits refused in this call
    entered  \* history: per client, the head when its call began

client == <<pc, base, seen, mine, attempt, entered>>
vars == <<claim, now, head, client>>

Stages == {"idle", "head", "check", "commit", "held", "releaseHead", "verify", "delete",
           "done", "refused", "failed", "crashed"}

Init ==
    /\ claim = [p \in Paths |-> Free] /\ now = 0 /\ head = 0
    /\ pc = [c \in Clients |-> "idle"]
    /\ base = [c \in Clients |-> 0]
    /\ seen = [c \in Clients |-> Free]
    /\ mine = [c \in Clients |-> [owner |-> c, expires |-> Never]]
    /\ attempt = [c \in Clients |-> 0]
    /\ entered = [c \in Clients |-> 0]

(* _claim_expired.                                                         *)
Expired(f) == f.expires # Never /\ f.expires <= now

(* Mutant: a claim without an expiry counts as expired.                    *)
AvailableUnlessExpiring(f) == f = Free \/ f.expires <= now

Available(f) == f = Free \/ Expired(f)

Goto(c, stage) == pc' = [pc EXCEPT ![c] = stage]

-----------------------------------------------------------------------------
(* A caller stamps its owner with the clock, then calls acquire.           *)
Begin(c) ==
    /\ pc[c] = "idle"
    /\ mine' = [mine EXCEPT ![c] =
           [owner |-> c, expires |-> IF TTL[c] = Never THEN Never ELSE now + TTL[c]]]
    /\ entered' = [entered EXCEPT ![c] = head]
    /\ Goto(c, "head")
    /\ UNCHANGED <<claim, now, head, base, seen, attempt>>

(* _head, and the reads pinned to that revision.                           *)
ReadHead(c) ==
    /\ pc[c] \in {"head", "releaseHead"}
    /\ attempt[c] < MaxAttempts
    /\ base' = [base EXCEPT ![c] = head]
    /\ seen' = [seen EXCEPT ![c] = claim[Target[c]]]
    /\ Goto(c, IF pc[c] = "head" THEN "check" ELSE "verify")
    /\ UNCHANGED <<claim, now, head, mine, attempt, entered>>

(* The repository remained contended.                                      *)
GiveUp(c) ==
    /\ pc[c] \in {"head", "releaseHead"}
    /\ attempt[c] = MaxAttempts
    /\ Goto(c, "failed")
    /\ UNCHANGED <<claim, now, head, base, seen, mine, attempt, entered>>

(* A read or a commit raises an error that is no parent conflict.          *)
CallFails(c) ==
    /\ pc[c] \in {"head", "check", "commit", "releaseHead", "verify", "delete"}
    /\ Goto(c, "failed")
    /\ UNCHANGED <<claim, now, head, base, seen, mine, attempt, entered>>

(* acquire: an unexpired claim is a conflict.                              *)
Check(c) ==
    /\ pc[c] = "check"
    /\ Goto(c, IF Available(seen[c]) THEN "commit" ELSE "refused")
    /\ UNCHANGED <<claim, now, head, base, seen, mine, attempt, entered>>

(* Mutant: the commit does not name its parent.                            *)
CommitUnparented(c, stage, file, answers) ==
    /\ pc[c] = stage
    /\ head' = head + 1
    /\ claim' = [claim EXCEPT ![Target[c]] = file]
    /\ \E answer \in answers : Goto(c, answer)
    /\ UNCHANGED <<now, base, seen, mine, attempt, entered>>

(* create_commit with parent_commit: applied on an unmoved head.  When the *)
(* response is lost the caller sees an error although it took effect.      *)
Commit(c, stage, file, answers) ==
    /\ pc[c] = stage /\ base[c] = head
    /\ head' = head + 1
    /\ claim' = [claim EXCEPT ![Target[c]] = file]
    /\ \E answer \in answers : Goto(c, answer)
    /\ UNCHANGED <<now, base, seen, mine, attempt, entered>>

AcquireCommit(c) == Commit(c, "commit", mine[c], {"held", "failed"})
DeleteCommit(c) == Commit(c, "delete", Free, {"done", "failed"})

(* _is_parent_conflict: the head has moved, try again.                     *)
ParentConflict(c) ==
    /\ pc[c] \in {"commit", "delete"} /\ base[c] # head
    /\ attempt' = [attempt EXCEPT ![c] = @ + 1]
    /\ Goto(c, IF pc[c] = "commit" THEN "head" ELSE "releaseHead")
    /\ UNCHANGED <<claim, now, head, base, seen, mine, entered>>

-----------------------------------------------------------------------------
(* Mutant: release goes on counting the refusals of acquire.               *)
FinishCounting(c) ==
    /\ pc[c] = "held"
    /\ entered' = [entered EXCEPT ![c] = head]
    /\ Goto(c, "releaseHead")
    /\ UNCHANGED <<claim, now, head, base, seen, mine, attempt>>

(* The protected work ends and release is called.                          *)
Finish(c) ==
    /\ pc[c] = "held"
    /\ attempt' = [attempt EXCEPT ![c] = 0]
    /\ entered' = [entered EXCEPT ![c] = head]
    /\ Goto(c, "releaseHead")
    /\ UNCHANGED <<claim, now, head, base, seen, mine>>

(* release: the file must exist and hold exactly the client's owner.       *)
Verify(c) ==
    /\ pc[c] = "verify"
    /\ Goto(c, IF seen[c] = mine[c] THEN "delete" ELSE "failed")
    /\ UNCHANGED <<claim, now, head, base, seen, mine, attempt, entered>>

(* The client's process or Job is killed.                                  *)
Crash(c) ==
    /\ pc[c] \notin {"idle", "done", "refused", "failed", "crashed"}
    /\ Goto(c, "crashed")
    /\ UNCHANGED <<claim, now, head, base, seen, mine, attempt, entered>>

Clock ==
    /\ now < MaxTime
    /\ now' = now + 1
    /\ UNCHANGED <<claim, head, client>>

ClientStep(c) ==
    \/ Begin(c) \/ ReadHead(c) \/ GiveUp(c) \/ CallFails(c) \/ Check(c) \/ AcquireCommit(c)
    \/ DeleteCommit(c) \/ ParentConflict(c) \/ Finish(c) \/ Verify(c) \/ Crash(c)

Next == Clock \/ \E c \in Clients : ClientStep(c)

Spec == Init /\ [][Next]_vars
-----------------------------------------------------------------------------
TypeOK ==
    /\ claim \in [Paths -> Claims \cup {Free}]
    /\ now \in Nat /\ head \in Nat
    /\ pc \in [Clients -> Stages]
    /\ base \in [Clients -> Nat]
    /\ seen \in [Clients -> Claims \cup {Free}]
    /\ mine \in [Clients -> Claims]
    /\ attempt \in [Clients -> 0..MaxAttempts]
    /\ entered \in [Clients -> Nat]

Holding(c) == pc[c] \in {"held", "releaseHead", "verify", "delete"}

(* Two clients never both work under an unexpired claim on one path,       *)
(* whatever commits are refused, lost or repeated around them.             *)
MutualExclusion ==
    \A c, d \in Clients :
        /\ Holding(c) /\ Holding(d) /\ Target[c] = Target[d]
        /\ ~Expired(mine[c]) /\ ~Expired(mine[d])
        => c = d

(* An unexpired claim disappears only by its own owner's release: a late   *)
(* release, or an acquire decided on an old revision, never takes it.      *)
NeverTaken ==
    [][\A p \in Paths :
        claim[p] # Free /\ claim'[p] # claim[p] =>
            \/ Expired(claim[p]) /\ claim'[p] # Free
            \/ claim'[p] = Free /\ pc[claim[p].owner] = "delete"]_vars

(* Each refused commit of a call means that another commit was accepted    *)
(* during it: a client gives up only when MaxAttempts others got through.  *)
ContentionIsProgress ==
    \A c \in Clients : attempt[c] <= head - entered[c]

(* The files of the repository behave as leases.                           *)
AsLease == INSTANCE Lease WITH Clients <- Clients, Paths <- Paths, Free <- Free,
                               claim <- claim, now <- now
ImplementsLease == AsLease!Spec
=============================================================================
