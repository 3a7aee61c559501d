-------------------------- MODULE MCJobLifecycle --------------------------
(* TLC instances of JobLifecycle: two launches of one campaign.            *)
EXTENDS JobLifecycle

CONSTANTS l1, l2

TwoLaunches == {l1, l2}
=============================================================================
