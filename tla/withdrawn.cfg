SPECIFICATION HistorySpec
CONSTANTS
    Candidates = {c1}
    Operators = {o1}
    NoPost = none
    Embeddings = TRUE
    Moderated = TRUE
    ShortOfPosts = FALSE
    Running = {"intake", "score", "rewrite", "publish", "review"}
CHECK_DEADLOCK FALSE
PROPERTIES WithdrawnNotSent
