SPECIFICATION Spec
CONSTANTS
    s1 = s1
    s2 = s2
    Sources = {s1, s2}
    MaxPost = 4
    BatchLimit = 1
    Scenes <- Small
    Highest = 3
    Penalty <- Penalties
    Bonus = 1
    MaxSetbacks = 2
    MaxBounds = 1
INVARIANTS TypeOK WatermarkSound TickHoldsOneSource
PROPERTIES EveryPostArrives ClimbsOut
CHECK_DEADLOCK FALSE
