SPECIFICATION Spec
CONSTANTS
    Identities <- SomeIdentities
    Bytes = {"b1", "b2"}
    NoBytes = NoBytes
    Items = {i1, i2}
    Captures <- TwoCaptures
    MaxRuns = 2
    MaxPauses = 1
    MaxChanges = 0
    MaxFaults = 1
SYMMETRY ItemSymmetry
INVARIANTS
    TypeOK
    CompletedMeansAudited
PROPERTIES
    ImplementsLedger
