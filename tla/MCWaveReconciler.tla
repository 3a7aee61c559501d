--------------------------- MODULE MCWaveReconciler ---------------------------
EXTENDS WaveReconciler

CONSTANTS t1, t2

MCShards == {1, 2}

\* One trial and an operator who cancels; two trials in one shard, and two
\* trials in a shard each, without cancellation. The set is symmetric in the trials.
MCLayouts ==
    {[shardOf |-> [t \in {u} |-> 1], cancels |-> TRUE] : u \in {t1, t2}}
      \cup {[shardOf |-> [t \in {t1, t2} |-> 1], cancels |-> FALSE]}
      \cup {[shardOf |-> [t \in {t1, t2} |-> IF t = u THEN 1 ELSE 2], cancels |-> FALSE] :
               u \in {t1, t2}}

TrialSymmetry == Permutations({t1, t2})
=============================================================================
