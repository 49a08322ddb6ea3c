--------------------------- MODULE CandidateStore ---------------------------
(***************************************************************************)
(* The candidate_posts table as the concurrent sessions of the program see *)
(* it: the committed row of every candidate, the row locks PostgreSQL      *)
(* holds from a session's first UPDATE (or SELECT ... FOR UPDATE, or the   *)
(* insertion of the row) to its commit or rollback.                        *)
(*                                                                         *)
(* Every session runs at READ COMMITTED and keeps the objects it has       *)
(* loaded: core/db.py builds the sessions with expire_on_commit=False, and *)
(* session.get returns an object still referenced without reading its row  *)
(* again. A flush writes the columns the session changed, whatever the row *)
(* has become meanwhile. The component modules model each session's cached *)
(* objects beside the committed rows of this module.                       *)
(*                                                                         *)
(* The candidates of one theme are modelled; sessions of different themes  *)
(* touch different rows.                                                   *)
(***************************************************************************)
EXTENDS FiniteSets, Naturals

CONSTANTS
    Candidates,     \* the candidate posts of one theme
    NoPost,         \* "no candidate": no row, no post in hand
    Embeddings      \* whether a Voyage key is configured: without one posts are
                    \* not compared

ASSUME StoreAssumption == NoPost \notin Candidates /\ Embeddings \in BOOLEAN

VARIABLES
    status,         \* committed CandidatePost.status; "ABSENT": not inserted yet
    text,           \* what selected_post_version_id points at: "none", a "draft"
                    \* of the model nobody has approved, or a "vetted" text, one
                    \* an operator approved or wrote
    embedded,       \* the candidates whose embedding is stored
    lock            \* the session holding the row's lock, or "free"

store == <<status, text, embedded, lock>>

\* QUEUED is a member of the enumeration no code path assigns.
Status == {"ABSENT", "NEW", "SCORING", "SELECTED", "REWRITTEN", "PENDING_REVIEW",
           "PUBLISHED", "REJECTED", "DUPLICATE"}
Text == {"none", "draft", "vetted"}
Holder == {"free", "rewrite", "force", "publish"}

Unscored == {"NEW", "SCORING"}
Comparable == {"SELECTED", "REWRITTEN", "PUBLISHED"}
Worded == {"PENDING_REVIEW", "REWRITTEN", "PUBLISHED"}

StoreTypeOK ==
    /\ status \in [Candidates -> Status]
    /\ text \in [Candidates -> Text]
    /\ embedded \in SUBSET Candidates
    /\ lock \in [Candidates -> Holder]

StoreInit ==
    /\ status = [c \in Candidates |-> "ABSENT"]
    /\ text = [c \in Candidates |-> "none"]
    /\ embedded = {}
    /\ lock = [c \in Candidates |-> "free"]

-----------------------------------------------------------------------------
\* A session can lock a row nobody else has locked.
Lockable(c, session) == lock[c] \in {"free", session}

\* The locks after `session` commits or rolls back.
Released(session) ==
    [c \in Candidates |-> IF lock[c] = session THEN "free" ELSE lock[c]]

\* The candidates another one of the theme is compared with, when the statuses
\* read are `seen`: those already stored with an embedding and selected or further.
SimilarTo(c, seen) ==
    {d \in embedded \ {c} : seen[d] \in Comparable}

=============================================================================
