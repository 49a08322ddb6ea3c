SPECIFICATION Spec
CONSTANTS
    Channels = {a}
    Posts = {p}
    Albums = {p}
    PoolPosts = {q}
    Cooldown = FALSE
    Ad = ad
    NoItem = none
    MaxFeed = 1
    MaxTrouble = 0
CHECK_DEADLOCK FALSE
PROPERTIES OwnNotCovered
