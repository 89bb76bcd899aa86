CONSTANTS
    core = core
    digest = digest
    Service = {core}
    Image <- OneImage
    Other = Other
    Request = {1, 2}
    CacheTTL = 2
    Deadline = 1
    MaxNow = 5
    NoEntry = NoEntry
SPECIFICATION FairSpec
INVARIANT AnswersAreTrue
PROPERTY RequestsReturn
CHECK_DEADLOCK FALSE
