SPECIFICATION OvertakenSpec
CONSTANTS
    Candidates = {c1}
    Operators = {o1, o2}
    NoPost = none
    Embeddings = TRUE
    Moderated = TRUE
    ShortOfPosts = TRUE
    Running = {"intake", "score", "rewrite", "force", "publish", "review", "restart"}
SYMMETRY Symmetry
CHECK_DEADLOCK FALSE
INVARIANTS TypeOK WordedHasText OnlyVettedSent
PROPERTIES ScoreOvertakesOnlyOvertaken
