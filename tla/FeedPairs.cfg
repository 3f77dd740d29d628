SPECIFICATION MCSpec
CONSTANTS
    Parts = {"feed"}
    q1 = q1
    q2 = q2
    Query = {q1, q2}
    Asked <- Settings
    FileSearchQuantum = 2
    FileSearchBudget = 2
    MaxConcurrentFileSearches = 2
    MaxFileId = 4
    MaxChanges = 2
    MaxReadFaults = 1
    FeedKey = {"a", "b"}
    FeedSettings <- MCFeedSettings
    HnswSettings <- MCHnswSettings
    VectorJobs <- MCVectorJobs
    MaxIter = 3
    Questions <- MCQuestions
    MaxVocab = 2
    BloomBits = 8
    GenerationBits = 2
    TrackedSizes = {1, 3}
    Reader = {r1, r2}
    File = {"f"}
    size <- MCsize
    max_bytes = 3
    CacheSetting <- QuerySettings
    Request = {g1, g2}
    Server = {"s1", "s2"}
    limit <- MClimit
    length = 2
    MAX_INFLIGHT_REQUESTS = 1
    MaxClock = 2
    GuardSetting <- GuardSettings
INVARIANT PairsEmitted
CHECK_DEADLOCK FALSE
