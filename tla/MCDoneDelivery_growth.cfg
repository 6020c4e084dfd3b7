SPECIFICATION Spec
CONSTANTS
    f1 = f1
    f2 = f2
    x1 = x1
    x2 = x2
    y1 = y1
    Files = {f1, f2}
    Contents = {x1, y1}
    NoContent = NoContent
    Listings <- Growing
    Kinds = {"text", "lossy", "unsupported"}
    Verdicts = {"classified", "needs_review"}
    Damages = {}
    Pids = {w}
    NoPid = NoPid
    Worker = w
    MaxAttempts = 1
    MaxRequests = 1
    MaxTrouble = 0
INVARIANTS
    QuietMeansDelivered
