SPECIFICATION AllSpec
CONSTANTS
    w1 = w1
    w2 = w2
    scan1 = scan1
    scan2 = scan2
    browser = browser
    gpu = gpu
    Owners <- MCOwners
    Workers <- MCWorkers
    Resources <- MCResources
    NoOwner = NoOwner
    NoResource = NoResource
    Overrunning = {scan2}
    RecoveryRaces = FALSE
    MaxId = 3
    b1 = b1
    b2 = b2
    NoBytes = NoBytes
    item = item
    child = child
    grandchild = grandchild
    Entries = {item}
    MaxDecisions = 3
    MaxBusy = 2
    Self = "self"
    Persons = {"P"}
    ItemCases <- MetadataItems
    Texts <- MetadataTexts
    Replies <- ModelReplies
    NumberIssuers <- SomeIssuers
    DossierCases <- SomeDossiers
    Identities <- SomeIdentities
    PackageCases <- SomePackageCases
    Bytes = {b1, b2}
    Items = {1, 2, 3}
    Limit = 2
    Elsewhere = {2}
    Configured = {1}
    Backups = {1, 2, 3, 4, 5}
    Week <- Weeks
    Orphans = {6}
    Protected = {2}
    Contents = {b1, b2}
    Runs = {1, 2}
    Commands = {w1, w2}
    Candidates = {item, child}
    BuildIds = {"run"}
    Attachments = {1, 2}
    CutNames = {1}
    ReadyText = {}
    Unreadable = {}
    TwoEngines = {b2}
    PoorText = {b2}
    Separate = {w2}
    MaxLoads = 3
    MaxChanges = 1
    MaxFaults = 1
CONSTRAINT OneTrouble
INVARIANTS
    TypeOK
    ExclusiveUse
    VerdictIsSound
    CaptureIsHonest
    ReadinessIsSound
    ClassificationIsSound
    CandidatesAreSound
    BatchesAreTrue
    CleanupIsSafe
PROPERTIES
    LiveLeaseIsKept
    CompleteMeansListed
CHECK_DEADLOCK FALSE
