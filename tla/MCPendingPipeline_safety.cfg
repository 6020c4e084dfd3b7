SPECIFICATION Spec
CONSTANTS
    d1 = d1
    d2 = d2
    c1 = c1
    c2 = c2
    e1 = e1
    e2 = e2
    Discoveries = {d1, d2}
    NoDiscovery = NoDiscovery
    Contents = {c1, c2}
    ContentOf <- Changing
    Evidence = {e1}
    NoMessage = NoMessage
    ScanModes = {"normal"}
    FeishuStates = {"ready", "disabled", "misconfigured"}
    Faults = {FALSE}
    Ambiguous = FALSE
    Threads = {}
    Pids = {w}
    NoPid = NoPid
    Worker = w
    MaxAttempts = 2
    MaxParses = 1
    MaxCrashes = 1
SYMMETRY Exchanges
CONSTRAINT OneTrouble
INVARIANTS
    TypeOK
    AtMostOnce
    SentMeansShown
