---------------------------- MODULE MCDriverUnload ----------------------------
EXTENDS DriverUnload, TLC

CONSTANTS snd_hda_intel, mei_gsc, mei_pxp, i915, drm_kms_helper, drm,
          intel_gtt, driver

\* Dependencies as lsmod shows them: the audio driver and the MEI modules
\* use i915, which uses drm_kms_helper and drm; intel-gtt is independent.
MCDeps == (snd_hda_intel :> {i915, drm_kms_helper, drm})
       @@ (mei_pxp :> {mei_gsc, i915, drm_kms_helper, drm})
       @@ (mei_gsc :> {i915, drm_kms_helper, drm})
       @@ (i915 :> {drm_kms_helper, drm})
       @@ (drm_kms_helper :> {drm})
       @@ (drm :> {})
       @@ (intel_gtt :> {})

MCSound == <<snd_hda_intel>>
MCAux == <<mei_pxp, mei_gsc>>

AllCalls == [fn : {"intel_load", "intel_unload", "amdgpu_load",
                   "amdgpu_unload"}, opts : BOOLEAN]
IntelUnloadCall == {[fn |-> "intel_unload", opts |-> FALSE]}
AmdgpuUnloadCall == {[fn |-> "amdgpu_unload", opts |-> FALSE]}
=============================================================================
