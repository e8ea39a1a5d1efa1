SPECIFICATION Spec
CONSTANTS
    SetupStarts = {}
    SetupCodes = {v0}
    LoginStarts = {l1, l2}
    LoginCodes = {k1}
    DisableStarts = {}
    DisableCodes = {}
    Regenerations = {}
    Enrolled = {v0}
    Methods = {"email"}
    MaxAttempts = 1
    NoRequest = NoRequest
    Faults = {}
PROPERTIES
    SigninGivesAnswerableChallenge
