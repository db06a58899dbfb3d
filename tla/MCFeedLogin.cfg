SPECIFICATION Spec
CONSTANTS
    Sockets = {s1, s2}
    Others = {loop}
    Cooldown = 3
    Reuse = 1
    MaxHardFailures = 2
    EpisodeMax = 6
    Window = 6
    MaxRefreshes = 2
    Scenarios <- Handled
INVARIANTS TypeOK OnlyOwnToken PagedOnce MintBeforePark RefreshCeiling
PROPERTY SettlesDown
