SPECIFICATION Spec
CONSTANTS
    Signups = {}
    Resends = {}
    Confirms = {}
    Forgots = {}
    Resets = {}
    PasswordChanges = {}
    RecoveryChanges = {b1, b2}
    RecoveryConfirms = {c1, c2}
    Addresses = {a1, a2}
    Faults = {}
    NoAddress = NoAddress
    NoRequest = NoRequest
PROPERTIES
    ConfirmedIsPromoted
