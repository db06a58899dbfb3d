SPECIFICATION Spec
CONSTANTS
    Slack = 2
    BucketSize = 4
    Scenarios <- Handled
INVARIANTS TypeOK ArchivedIsDurable FileIsHonest
PROPERTY KeepsThePromise
