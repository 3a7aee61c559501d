---------------------------- MODULE MCPublication ----------------------------
(* A small instance: two publications, of two runs. *)
EXTENDS Publication, TLC

MCPubs == {"p1", "p2"}
MCRunOf == "p1" :> "a" @@ "p2" :> "b"
MCCompletedAt == "p1" :> 1 @@ "p2" :> 2
MCDecisions == "d1" :> [pub |-> "p1", action |-> "withdraw", at |-> 1]
               @@ "d2" :> [pub |-> "p1", action |-> "promote", at |-> 2]
MCLegacies == {{}, {"p1"}}
==============================================================================
