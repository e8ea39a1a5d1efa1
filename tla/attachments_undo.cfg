SPECIFICATION Spec
CONSTANTS
    Notes = {n1}
    Uploads = {u1}
    Removals = {}
    Purges = {}
    Closures = {}
    NoRequest = NoRequest
    MaxAttachments = 1
    Faults = {"disconnect"}
INVARIANT FailedUploadLeavesNothing
