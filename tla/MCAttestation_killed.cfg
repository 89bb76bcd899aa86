CONSTANTS
    core = core
    digest = digest
    Service = {core}
    Image <- OneImage
    Other = Other
    Request = {1, 2}
    CacheTTL = 2
    Deadline = 1
    MaxNow = 5
    NoEntry = NoEntry
SPECIFICATION Spec
PROPERTY OutOfTimeIsUnavailable
CHECK_DEADLOCK FALSE
