------------------------------ MODULE Rubrics ------------------------------
(***************************************************************************)
(* The subtopics of a theme (core/services/rubrics.py): how a text is put  *)
(* under one, which ready posts are next because theirs has not been out   *)
(* for longest, and how a batch is spread over them                        *)
(* (core/services/force_generate.py). Names are compared here without      *)
(* case, as the code compares them.                                        *)
(***************************************************************************)
EXTENDS Integers, Sequences, FiniteSets, SequencesExt

CONSTANTS
    Names,              \* the names of rubrics ...
    Similar,            \* ... and the pairs of them one of which contains the other
    PoolFactor,         \* selection_pool_factor
    MaxPool             \* MAX_POOL

ASSUME RubricsAssumption ==
    /\ Similar \subseteq Names \X Names
    /\ "failed" \notin Names
    /\ PoolFactor \in Nat \ {0} /\ MaxPool \in Nat \ {0}

Labels == Names \union {"none"}

\* What the model may say: a name of the list or another, nothing (which the code
\* finds in every name), something else; or it fails.
Answers == Names \union {"", "other", "failed"}

Fitting(answer) == {n \in Names : n = answer \/ answer = "" \/ <<n, answer>> \in Similar}

\* The first name of the list among these.
First(list, names) ==
    LET found == {i \in DOMAIN list : list[i] \in names} IN
    IF found = {} THEN "none" ELSE list[CHOOSE i \in found : \A j \in found : i <= j]

\* classify: the name word for word, or else the first that contains the answer or
\* is contained in it.
Classify(list, answer) ==
    CASE answer = "failed" -> "none"
      [] answer \in ToSet(list) -> answer
      [] OTHER -> First(list, Fitting(answer))

\* Mutant of Stale: what has not been out lately is taken for the freshest.
StaleKnownOnly(name, recent) ==
    IF name \in ToSet(recent)
    THEN (CHOOSE i \in DOMAIN recent : recent[i] = name /\ \A j \in 1 .. i - 1 : recent[j] # name) - 1
    ELSE 0

\* How long a rubric has not been out, by the rubrics of the last posts.
Stale(name, recent) ==
    IF name \in ToSet(recent)
    THEN (CHOOSE i \in DOMAIN recent : recent[i] = name /\ \A j \in 1 .. i - 1 : recent[j] # name) - 1
    ELSE Len(recent) + 1

\* freshest_by_rubric, on the labels of the ready posts.
Freshest(posts, label, recent) ==
    IF recent = <<>> THEN posts
    ELSE {p \in posts : \A q \in posts : Stale(label[p], recent) >= Stale(label[q], recent)}

-----------------------------------------------------------------------------
\* A batch: pool is the labels of the eligible posts, best score first. Within a
\* rubric the better comes first; the rounds go through the rubrics in the order in
\* which the pool names them.
Round(pool, i) == Cardinality({j \in 1 .. i : pool[j] = pool[i]})
Turn(pool, i) == CHOOSE j \in DOMAIN pool : pool[j] = pool[i] /\ \A k \in 1 .. j - 1 : pool[k] # pool[i]

\* Mutant of Before: one rubric after the other is emptied.
BeforeByRubric(pool, i, j) ==
    \/ Turn(pool, i) < Turn(pool, j)
    \/ Turn(pool, i) = Turn(pool, j) /\ Round(pool, i) < Round(pool, j)

Before(pool, i, j) ==
    \/ Round(pool, i) < Round(pool, j)
    \/ Round(pool, i) = Round(pool, j) /\ Turn(pool, i) < Turn(pool, j)

\* _round_robin_by_rubric: the posts chosen, whose order is then shuffled.
RoundRobin(pool, count) ==
    {i \in DOMAIN pool : Cardinality({j \in DOMAIN pool : Before(pool, j, i)}) < count}

\* _eligible_candidates: nothing to choose, or no rubrics to go by, or round robin.
Chosen(eligible, count, list) ==
    LET limit == IF count * PoolFactor < MaxPool THEN count * PoolFactor ELSE MaxPool
        pool == SubSeq(eligible, 1, IF Len(eligible) < limit THEN Len(eligible) ELSE limit)
    IN CASE Len(pool) <= count -> DOMAIN pool
         [] Len(pool) > count /\ list = <<>> -> 1 .. count
         [] OTHER -> RoundRobin(pool, count)
=============================================================================
