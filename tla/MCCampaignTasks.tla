-------------------------- MODULE MCCampaignTasks --------------------------
(* TLC instances of CampaignTasks.                                         *)
EXTENDS CampaignTasks, TLC

CONSTANTS t1, t2

TwoTasks == {t1, t2}
OneBatch == {TwoTasks}
TaskSymmetry == Permutations(TwoTasks)
=============================================================================
