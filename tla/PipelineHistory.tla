--------------------------- MODULE PipelineHistory ---------------------------
(***************************************************************************)
(* Pipeline with a history variable, for the properties that speak of what *)
(* an operator has said of a candidate: every step is a step of Pipeline.  *)
(***************************************************************************)
EXTENDS Pipeline

VARIABLE
    wait            \* the operator's word each candidate waits for

\* The approval of a post generated on demand, or a new approval after an operator
\* has withdrawn the first.
Wait == {"nothing", "approval", "reapproval"}

HistoryTypeOK == wait \in [Candidates -> Wait]

HistoryInit == Init /\ wait = [c \in Candidates |-> "nothing"]

\* The rows on which a request for operation op takes effect in this step.
DecidedNow(op) ==
    UNION {req[o].posts : o \in {p \in Operators : req[p].op = op /\ Decided(p)}}

HistoryNext ==
    /\ Next
    /\ wait' = [c \in Candidates |->
                   CASE c \in CommittedByForce /\ draft[c] = "PENDING_REVIEW" -> "approval"
                     [] c \in DecidedNow("approve")                           -> "nothing"
                     [] c \in DecidedNow("unapprove")                         -> "reapproval"
                     [] OTHER                                                 -> wait[c]]

HistorySpec == HistoryInit /\ [][HistoryNext]_<<vars, wait>>

-----------------------------------------------------------------------------
\* What a forced generation prepared is sent only after an operator approved it
\* (the module docstring of force_generate.py).
ForcedSentOnlyApproved == [][PubSend => wait[pub.post] # "approval"]_<<vars, wait>>

\* A post whose approval an operator withdrew is not sent until approved again
\* (review.py:unapprove_candidate answers with an error if it comes too late).
WithdrawnNotSent == [][PubSend => wait[pub.post] # "reapproval"]_<<vars, wait>>
=============================================================================
