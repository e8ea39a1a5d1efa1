SPECIFICATION Spec
CONSTANTS
    Notes = {n1}
    Uploads = {u1, u2}
    Removals = {d1}
    Purges = {p1}
    Closures = {c1}
    NoRequest = NoRequest
    MaxAttachments = 1
    Faults = {"disconnect", "database", "disk", "crash"}
SYMMETRY Interchangeable
INVARIANTS
    TypeOK
    RowsHaveFile
    AttachmentLimit
PROPERTIES
    UploadsOnlyToLiveNotes
    ImplementsShelf
