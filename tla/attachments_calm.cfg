SPECIFICATION FairSpec
CONSTANTS
    Notes = {n1}
    Uploads = {u1, u2, u3}
    Removals = {d1}
    Purges = {p1}
    Closures = {c1}
    NoRequest = NoRequest
    MaxAttachments = 1
    Faults = {}
INVARIANTS
    FailedUploadLeavesNothing
    OrphansOnlyOfDeletedNotes
PROPERTIES
    RequestsEnd
