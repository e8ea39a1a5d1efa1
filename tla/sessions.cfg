SPECIFICATION Spec
SYMMETRY Interchangeable
CONSTANTS
    Signins = {s1, s2}
    Others = {r1, r2}
    Devices = {d1}
    Faults = {"database"}
    NoRequest = NoRequest
    Absent = Absent
INVARIANTS
    TypeOK
    EndedStaysOut
    TokenNamesOneSession
PROPERTIES
    ImplementsGate
