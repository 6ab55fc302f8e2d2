CONSTANTS
    drm = drm
    i915 = i915
    snd_hda_intel = snd_hda_intel
    mei_pxp = mei_pxp
    video = video
    Modules = {drm, i915, snd_hda_intel, mei_pxp, video}
    Deps <- MCDeps
    Builtin = {video}
    NoExit = {snd_hda_intel}
    MaxTries = 20
    MaxPolls = 2
    MaxRefs = 1
    EnvBudget = 3
    UninitErr <- MCUninitZero
SPECIFICATION Spec
INVARIANTS
    NotFoundIsOwn
