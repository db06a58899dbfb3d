SPECIFICATION FairSpec
CONSTANTS
    Threshold = 1
    MaxBackoffs = 0
PROPERTY BreakerRecovers
