SPECIFICATION FairSpec
CONSTANTS
    SetupStarts = {s1}
    SetupCodes = {v0, w0, v1}
    LoginStarts = {}
    LoginCodes = {}
    DisableStarts = {d1}
    DisableCodes = {x1}
    Regenerations = {g1}
    Enrolled = {v0, w0}
    Methods = {"email", "totp"}
    MaxAttempts = 1
    NoRequest = NoRequest
    Faults = {"restart"}
INVARIANTS
    LeftoverCodesAreRegenerated
PROPERTIES
    RequestsEnd
    ImplementsSecondFactor
