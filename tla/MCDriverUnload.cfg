CONSTANTS
    snd_hda_intel = snd_hda_intel
    mei_gsc = mei_gsc
    mei_pxp = mei_pxp
    i915 = i915
    drm_kms_helper = drm_kms_helper
    drm = drm
    intel_gtt = intel_gtt
    driver = driver
    Modules = {snd_hda_intel, mei_gsc, mei_pxp, i915, drm_kms_helper, drm, intel_gtt}
    Deps <- MCDeps
    Builtin = {}
    Sound <- MCSound
    Aux <- MCAux
    Driver = i915
    Gtt = intel_gtt
    KmsHelper = drm_kms_helper
    Drm = drm
    Literal = driver
    Calls <- AllCalls
    EnvBudget = 1
SPECIFICATION Spec
INVARIANTS
    TypeOK
    WhoNamesFailure
