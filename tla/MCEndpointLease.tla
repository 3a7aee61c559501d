-------------------------- MODULE MCEndpointLease --------------------------
(* Two Jobs: two waves of a campaign, two runs, two Jobs of one run, a     *)
(* restarted profile of a managed endpoint, or a run and a profile of one  *)
(* existing endpoint.                                                      *)
EXTENDS EndpointLease

CONSTANTS j1, j2

Pair(k1, k2, unit2) ==
  [u \in Users |-> IF u = j1 THEN [kind |-> k1, unit |-> j1] ELSE [kind |-> k2, unit |-> unit2]]

AllCasts == {Pair("wave", "wave", j2), Pair("run", "run", j2), Pair("run", "run", j1),
             Pair("managed-profile", "managed-profile", j1), Pair("run", "profile", j2),
             Pair("profile", "profile", j1)}
=============================================================================
