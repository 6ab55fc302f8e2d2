CONSTANTS
    Envs <- MCEnvs
    NewCanFail = TRUE
SPECIFICATION Spec
INVARIANTS
    EmptySegmentRejected
