SPECIFICATION Spec
CONSTANTS
    Notes = {n1}
    Uploads = {u1}
    Removals = {}
    Purges = {p1}
    Closures = {}
    NoRequest = NoRequest
    MaxAttachments = 1
    Faults = {}
INVARIANT NoOrphans
