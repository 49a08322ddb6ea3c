SPECIFICATION Spec
CONSTANTS
    Names <- Rubric
    Similar <- Parts
    PoolFactor = 2
    MaxPool = 6
    Posts = {1, 2, 3, 4}
    Channels = {c1, c2}
    Scenes <- Situations
    Menus <- Lists
    Hours = 3
    Horizon = 8
    MaxSlots = 3
    Window = 2
    Pools <- Batches
    Counts = {1, 2, 3}
INVARIANTS TypeOK ForecastHonest BatchBalanced
PROPERTIES SpacedOut NoRepeatWhileOther EveryReadyPostGoesOut
CHECK_DEADLOCK FALSE
