SPECIFICATION ReceivedSpec
CONSTANTS
    Candidates = {c1, c2}
    Operators = {}
    NoPost = none
    Embeddings = TRUE
    Moderated = FALSE
    ShortOfPosts = FALSE
    Running = {"score", "rewrite", "force"}
CHECK_DEADLOCK FALSE
PROPERTIES RowsReleased ForceLeavesNoneSelected
