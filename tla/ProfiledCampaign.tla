--------------------------- MODULE ProfiledCampaign ---------------------------
(* A serving profile and the campaign planned with it. An operator profiles  *)
(* a deployment, binds the selected concurrency in the manifest, and submits *)
(* the campaign; or submits a manifest that binds no profile.                *)
EXTENDS ServingProfile, CampaignPlan

CONSTANTS
    Unprofiled,   \* manifests without a serving profile
    Profiled      \* manifests that bind the profile once it is selected

ASSUME ManifestAssumption == \A m \in Unprofiled \cup Profiled : IsManifest(m)

vars == <<pvars, cvars>>

Init == PInit /\ (\/ \E m \in Profiled : CInit(m, "profiling")
                  \/ \E m \in Unprofiled : /\ CInit(m, "manifest")
                                           /\ pplan = CHOOSE p \in ProfilePlans : TRUE)

ProfileStep == phase = "profiling" /\ PNext /\ UNCHANGED cvars

\* The manifest takes over the selection; from then on nobody reads the points
\* of the profile, and the model lets go of them.
BindProfile ==
    /\ phase = "profiling" /\ disk.marker = "_SELECTED"
    /\ spec' = [spec EXCEPT !.profile = disk.profile.choice,
                            !.concurrent = disk.profile.choice]
    /\ phase' = "manifest"
    /\ disk' = [disk EXCEPT !.points = NoPoints, !.archived = {}, !.profile.points = NoPoints]
    /\ spent' = [crashes |-> 0, faults |-> 0] /\ expired' = FALSE
    /\ UNCHANGED <<pplan, job, lock, shards, wave, losses>>

CampaignStep == phase # "profiling" /\ PlanStep /\ UNCHANGED pvars

Next == ProfileStep \/ BindProfile \/ CampaignStep

Spec == Init /\ [][Next]_vars

TypeOK ==
    /\ PTypeOK
    /\ phase \in {"profiling", "manifest", "planned", "locked", "rejected", "error"}
    /\ losses.failures \in 0..MaxFailures /\ losses.cuts \in 0..MaxCuts
    /\ phase = "locked" => DOMAIN shards = Shards
=============================================================================
