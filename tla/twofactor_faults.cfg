SPECIFICATION Spec
CONSTANTS
    SetupStarts = {s1}
    SetupCodes = {v1}
    LoginStarts = {l1, l2}
    LoginCodes = {k1, k2}
    DisableStarts = {}
    DisableCodes = {}
    Regenerations = {}
    Enrolled = {}
    Methods = {"email"}
    MaxAttempts = 1
    NoRequest = NoRequest
    Faults = {"database"}
SYMMETRY Interchangeable
INVARIANTS
    TypeOK
    PassesOnce
    RecoveryCodeOnce
    PassedWithinLimit
PROPERTIES
    ImplementsSecondFactor
