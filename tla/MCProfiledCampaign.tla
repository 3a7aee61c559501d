-------------------------- MODULE MCProfiledCampaign --------------------------
(* TLC instances of ProfiledCampaign.                                       *)
EXTENDS ProfiledCampaign

MCLadder == {1, 2, 4}
MCRates == {1, 2}
MCRepeatRates == {1}
MCProfilePlans == {[target |-> "endpoint", objective |-> "throughput"],
                   [target |-> "provider", objective |-> "stable"]}

\* A provider manifest: its cells, tasks, shard size and shards per wave.
Manifest(cells, tasks, size, k) ==
    [cells |-> cells, digest |-> [d1 |-> "g1", d2 |-> "g2", d3 |-> "g2"],
     tasks |-> tasks, selected |-> tasks, attempts |-> 1,
     shardSize |-> size, perWave |-> k,
     providers |-> {"g1", "g2"}, policy |-> TRUE,
     concurrent |-> 2, limit |-> 1, profile |-> 0, measured |-> TRUE,
     trialSeconds |-> 3, headroom |-> <<5, 4>>, reserve |-> 2, controllerReserve |-> 5,
     waveTimeout |-> 40, jobTimeout |-> 200, waveCost |-> 10]

Two == <<"d1", "d1">>

\* Chunks that break runs, a wave limit above a run's shards, two deployments,
\* an endpoint campaign, and manifests the planner refuses.
MCUnprofiled ==
    {Manifest(Two, 1..3, 2, 2), Manifest(Two, 1..3, 2, 3), Manifest(Two, 1..5, 2, 2),
     Manifest(Two, 1..5, 2, 4), Manifest(<<"d1", "d2">>, 1..3, 2, 2),
     [Manifest(Two, 1..3, 2, 3) EXCEPT !.providers = {}, !.policy = FALSE],
     [Manifest(<<"d1", "d2">>, 1..3, 2, 2) EXCEPT !.providers = {"g1"}],
     [Manifest(Two, 1..3, 2, 2) EXCEPT !.jobTimeout = 20],
     [Manifest(Two, 1..3, 2, 2) EXCEPT !.selected = 1..2],
     [Manifest(<<"d1">>, 1..3, 2, 2) EXCEPT !.profile = 2, !.measured = FALSE],
     [Manifest(<<"d1">>, 1..3, 2, 2) EXCEPT !.profile = 1],
     Manifest(<<"d2", "d3">>, 1..3, 2, 2)}

MCProfiled == {[Manifest(<<"d1">>, 1..5, 2, 2) EXCEPT !.limit = 4]}

Injections(D, n) == {f \in [D -> 1..n] : \A a, b \in D : a # b => f[a] # f[b]}

\* Full shards of a run are alike: every order of the rest where there are few
\* shards, and every place of the last shard among its run's where there are more.
MCOrders(R, S) ==
    LET n == ShardCount
        alike(f) == \A r, s \in S : r[1] = s[1] /\ r[2] < s[2] /\ s[2] < n => f[r] < f[s]
        place(p, s) == IF s[2] = n THEN p[s[1]]
                       ELSE IF s[2] < p[s[1]] THEN s[2]
                       ELSE s[2] + 1
        ids == IF Cardinality(S) <= 4 THEN {f \in Injections(S, Cardinality(S)) : alike(f)}
               ELSE {[s \in S |-> (s[1] - 1) * n + place(p, s)] : p \in [R -> 1..n]}
    IN {[runs |-> r, ids |-> i] : r \in Injections(R, Cardinality(R)), i \in ids}
=============================================================================
