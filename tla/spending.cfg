SPECIFICATION Spec
CONSTANTS
    Payers = {"tick", "rubric", "quality", "first", "second"}
    Requests = {"first", "second"}
    Posts = {p1, p2}
    Runs = {1, 2}
    Pairs = {a1, a2}
    Limit = 2
    BatchSize = 1
    PoolSize = 2
    MaxDay = 2
    MaxFaults = 1
    MaxStops = 1
    AtWork = {{"first", "tick"}, {"first", "second"}, {"quality"}}
INVARIANTS TypeOK TickPaidIsBooked QualityLossBounded OvershootBounded DoneIsComplete VerdictIsTheJudges
PROPERTIES JudgedOnce OrderNotOverfilled OrderedRunEnds
CHECK_DEADLOCK FALSE
