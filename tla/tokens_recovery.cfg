SPECIFICATION Spec
CONSTANTS
    Signups = {}
    Resends = {}
    Confirms = {}
    Forgots = {}
    Resets = {}
    PasswordChanges = {}
    RecoveryChanges = {b1, b2, b3}
    RecoveryConfirms = {c1}
    Addresses = {a1, a2}
    Faults = {"mail", "database", "restart"}
    NoAddress = NoAddress
    NoRequest = NoRequest
SYMMETRY Interchangeable
INVARIANTS
    TypeOK
    LinkFitsPending
    OneRecoveryLink
PROPERTIES
    ImplementsMailedLinks
