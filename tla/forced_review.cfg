SPECIFICATION HistorySpec
CONSTANTS
    Candidates = {c1}
    Operators = {o1}
    NoPost = none
    Embeddings = TRUE
    Moderated = FALSE
    ShortOfPosts = FALSE
    Running = {"intake", "score", "rewrite", "force", "publish"}
CHECK_DEADLOCK FALSE
PROPERTIES ForcedSentOnlyApproved
