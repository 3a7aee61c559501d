---------------------------- MODULE MCWaveWorker ----------------------------
(* Two trials, in one shard that runs both at once, or in two shards of which
   one runs at a time.                                     *)
EXTENDS WaveWorker, TLC

CONSTANTS t1, t2

OneShard == [t \in Trials |-> 1]
TwoShards == [t \in Trials |-> IF t = t1 THEN 1 ELSE 2]
BothShardings == {OneShard, TwoShards}
Pools == (OneShard :> 2) @@ (TwoShards :> 1)
=============================================================================
