SPECIFICATION Spec
CONSTANTS
    Slack = 2
    BucketSize = 4
    Scenarios <- Unreadable
INVARIANT ArchivedIsDurable
