SPECIFICATION FairSpec
CONSTANTS
    Identities <- SomeIdentities
    Bytes = {"b1", "b2"}
    NoBytes = NoBytes
    Items = {i1}
    Captures <- TwoCaptures
    MaxRuns = 2
    MaxPauses = 1
    MaxChanges = 1
    MaxFaults = 2
PROPERTIES
    EveryItemIsAudited
