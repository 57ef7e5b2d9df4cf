SPECIFICATION RecencySpec
CONSTANTS
    NULL = NULL
    States = {1, 2, 3}
    Sources = {1}
    Digest <- OneDigest
    Recurring = FALSE
    Policies <- LruTwoThree
    MaxAttempts = 0
PROPERTIES LeastRecentFirst
