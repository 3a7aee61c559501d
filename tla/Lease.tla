------------------------------- MODULE Lease -------------------------------
(***************************************************************************)
(* What a claim on a path promises (coordination.py, Protocol ClaimStore): *)
(* a claim is given to an owner only while nobody holds an unexpired one,  *)
(* and only its owner takes it away.  Time only moves forward.             *)
(***************************************************************************)
EXTENDS Integers

CONSTANTS Clients, Paths, Free

VARIABLES
    claim, \* per path: Free, or the owner on record and when its claim expires
    now    \* the clock

(* A claim without expires_at never expires.                               *)
Never == -1
Claims == [owner : Clients, expires : Nat \cup {Never}]

Expired(f) == f.expires # Never /\ f.expires <= now
Available(f) == f = Free \/ Expired(f)

Init == claim = [p \in Paths |-> Free] /\ now = 0

Acquire(p) ==
    /\ Available(claim[p])
    /\ claim'[p] \in Claims
    /\ claim' = [claim EXCEPT ![p] = claim'[p]]
    /\ UNCHANGED now

Release(p) ==
    /\ claim[p] # Free
    /\ claim' = [claim EXCEPT ![p] = Free]
    /\ UNCHANGED now

Tick == now' = now + 1 /\ UNCHANGED claim

Next ==
    \/ Tick
    \/ \E p \in Paths : Acquire(p) \/ Release(p)

Spec == Init /\ [][Next]_<<claim, now>>
=============================================================================
