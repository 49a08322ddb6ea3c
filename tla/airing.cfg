SPECIFICATION FairSpec
CONSTANTS
    Channels = {a}
    Posts = {p}
    Albums = {}
    PoolPosts = {q}
    Cooldown = FALSE
    Ad = ad
    NoItem = none
    MaxFeed = 1
    MaxTrouble = 1
CHECK_DEADLOCK FALSE
INVARIANTS TypeOK RecordedNotCovered
PROPERTIES DetectionsSettled
