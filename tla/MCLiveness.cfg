SPECIFICATION AllSpec
CONSTANTS
    d1 = d1
    d2 = d2
    c1 = c1
    c2 = c2
    e1 = e1
    e2 = e2
    Discoveries = {d1}
    NoDiscovery = NoDiscovery
    Contents = {c1}
    ContentOf <- OneItem
    Evidence = {e1}
    NoMessage = NoMessage
    ScanModes = {"normal", "baseline", "disabled"}
    FeishuStates = {"ready", "misconfigured"}
    Faults = {FALSE}
    Ambiguous = FALSE
    Threads = {t1}
    Pids = {w}
    NoPid = NoPid
    Worker = w
    MaxAttempts = 2
    MaxParses = 1
    MaxCrashes = 1
    p1 = p1
    p2 = p2
    p3 = p3
PROPERTIES
    NotifiedOrParked
    DeliveredIsErased
    AbandonedWorkIsRecovered
