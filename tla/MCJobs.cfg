SPECIFICATION JobSpec
CONSTANTS
    i1 = i1
    i2 = i2
    i3 = i3
    NoItem = NoItem
    narrow = narrow
    wide = wide
    NoPolicy = NoPolicy
    Items = {i1, i2}
    Policies = {narrow, wide}
    Matches <- SomeMatches
    MaxJobs = 1
    MaxRestarts = 1
    MaxLogins = 1
    MaxFaults = 2
    Done = {i1, i2}
    DoneJobs = 2
    DoneSessions = 1
    DoneFaults = 1
    Windows = {1, 2}
    ItemsOf <- TwoWindows
    MaxTries = 2
    MaxRunner = 2
    ChunkSize = 2
    CampaignFaults = 1
INVARIANTS
    CampaignCompleteMeansResolved
    StatusIsTrue
PROPERTIES
    CollectionEnds
    CompletedMeansSettled
    CampaignRests
    RetryEnds
CHECK_DEADLOCK FALSE
