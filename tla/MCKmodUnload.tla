---------------------------- MODULE MCKmodUnload ----------------------------
(***************************************************************************)
(* Instantiates KmodUnload for TLC: the i915 stack (drm <- i915 <- the     *)
(* HDA audio driver and mei_pxp) plus one builtin module.                                  *)
(***************************************************************************)
EXTENDS KmodUnload, TLC

CONSTANTS drm, i915, snd_hda_intel, mei_pxp, video

\* i915 uses drm; snd_hda_intel binds to i915 (as igt_kmod.c line 432 loads
\* it) and so does mei_pxp, so i915 has two holders to visit in turn.
MCDeps == (drm :> {}) @@ (i915 :> {drm}) @@ (snd_hda_intel :> {i915})
              @@ (mei_pxp :> {i915}) @@ (video :> {})

\* A negative garbage value and a non-negative one: the two ways line 275
\* can go with err uninitialised.
MCUninitErr == {-1, 0}

\* A build that happens to leave a non-negative value in err.
MCUninitZero == {0}

=============================================================================
