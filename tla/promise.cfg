SPECIFICATION BotsDownSpec
CONSTANTS
    Channels = {a, b}
    Posts = {p1, p2}
    Albums = {}
    PoolPosts = {q}
    Cooldown = TRUE
    Ad = ad
    NoItem = none
    MaxFeed = 3
    MaxTrouble = 2
SYMMETRY Symmetry
CHECK_DEADLOCK FALSE
INVARIANTS PostRecordedOnce
PROPERTIES KeepsPromise
