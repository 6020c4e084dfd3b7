SPECIFICATION FairSpec
CONSTANTS
    f1 = f1
    f2 = f2
    x1 = x1
    x2 = x2
    y1 = y1
    Files = {f1}
    Contents = {x1}
    NoContent = NoContent
    Listings <- OneFile
    Kinds = {"text", "encrypted", "garbled", "unconvertible"}
    Verdicts = {"classified"}
    Damages = {"lost", "changed", "product", "published", "index"}
    Pids = {w}
    NoPid = NoPid
    Worker = w
    MaxAttempts = 1
    MaxRequests = 1
    MaxTrouble = 1
INVARIANTS
    TypeOK
PROPERTIES
    RowsComeToAnEnd
    DeliveredOrShown
