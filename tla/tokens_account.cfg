SPECIFICATION FairSpec
CONSTANTS
    Signups = {s1, s2}
    Resends = {e1}
    Confirms = {k1}
    Forgots = {f1}
    Resets = {r1}
    PasswordChanges = {w1}
    RecoveryChanges = {}
    RecoveryConfirms = {}
    Addresses = {}
    Faults = {"mail"}
    NoAddress = NoAddress
    NoRequest = NoRequest
INVARIANTS
    OneAccount
    ResetsOfConfirmedAccounts
PROPERTIES
    OldLinksDie
    RequestsEnd
    ImplementsMailedLinks
