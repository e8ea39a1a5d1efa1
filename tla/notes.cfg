SPECIFICATION Spec
SYMMETRY Interchangeable
CONSTANTS
    KeptNotes = {n1}
    KeptTags = {t1, t2}
    Saves = {s1, s2}
    Moves = {m1}
    Purges = {p1}
    TagForms = {f1}
    TagDeletes = {d1}
    Names = {t1, t2}
    MaxTags = 1
    Absent = Absent
    NoRequest = NoRequest
    Faults = {"database"}
INVARIANTS
    TypeOK
    PinnedAreActive
    LinksFitContent
    WaitOrder
    SomebodyGoesOn
PROPERTIES
    ImplementsNotebook
