------------------------------ MODULE Scoring ------------------------------
(***************************************************************************)
(* score_refresh_job (scheduler.py) with ScoringService: one tick loads    *)
(* every NEW and SCORING candidate, keeps the objects for the whole tick,  *)
(* asks Telegram for each post's counters and writes the verdict, one      *)
(* commit per candidate.                                                   *)
(***************************************************************************)
EXTENDS CandidateStore

VARIABLES
    due,            \* candidates of this tick still to be polled
    view,           \* the status in the session's object; "expired" after a
                    \* rollback, until it is read again
    probing         \* the candidate whose counters are being fetched

scoreVars == <<due, view, probing>>

ScoreTypeOK ==
    /\ due \in SUBSET Candidates
    /\ view \in [Candidates -> Status \union {"expired"}]
    /\ probing \in Candidates \union {NoPost}

Expired == [c \in Candidates |-> "expired"]

ScoreInit == due = {} /\ view = Expired /\ probing = NoPost

\* Start of a tick: the objects are loaded once, those with a checkpoint due
\* (their age decides, here any choice) are the tick's work.
ScoreTick ==
    /\ due = {} /\ probing = NoPost
    /\ \E ready \in SUBSET {c \in Candidates : status[c] \in Unscored} \ {{}} :
          /\ due' = ready
          /\ view' = [c \in Candidates |-> IF c \in ready THEN status[c] ELSE "expired"]
    /\ UNCHANGED <<store, probing>>

\* session.get: the object kept since the start of the tick, or the row again
\* if a rollback has expired it; then the call to Telegram.
ScoreProbe(c) ==
    /\ probing = NoPost /\ c \in due
    /\ probing' = c
    /\ view' = [view EXCEPT ![c] = IF @ = "expired" THEN status[c] ELSE @]
    /\ UNCHANGED <<store, due>>

\* No reader session, no such message any more, or a session that has been told
\* to wait: the candidate is passed over.
ScorePass ==
    /\ probing # NoPost
    /\ due' = due \ {probing}
    /\ view' = [view EXCEPT ![probing] = "expired"]
    /\ probing' = NoPost
    /\ UNCHANGED store

\* FloodWait or any other exception: the rollback expires every object.
ScoreFail ==
    /\ probing # NoPost
    /\ due' = due \ {probing}
    /\ view' = Expired
    /\ probing' = NoPost
    /\ UNCHANGED store

\* The status the object ends with: counters move NEW to SCORING, a score over
\* the threshold selects whatever the status was, and a candidate past its last
\* checkpoint is rejected if the object still says NEW or SCORING.
Verdict(seen, counted, passes, matured) ==
    LET scored == IF counted /\ seen = "NEW" THEN "SCORING" ELSE seen
    IN  IF passes THEN "SELECTED"
        ELSE IF matured /\ scored \in Unscored THEN "REJECTED"
        ELSE scored

\* record_snapshot, promote_if_selected, reject_if_matured and the commit. The
\* UPDATE waits for the row's lock and carries the status only if the object's
\* status changed.
ScoreWrite ==
    /\ probing # NoPost
    /\ Lockable(probing, "score")
    /\ \E counted, passes, matured \in BOOLEAN :
          LET v == Verdict(view[probing], counted, passes, matured)
          IN  status' = [status EXCEPT ![probing] = IF v # view[probing] THEN v ELSE @]
    /\ due' = due \ {probing}
    /\ view' = [view EXCEPT ![probing] = "expired"]
    /\ probing' = NoPost
    /\ UNCHANGED <<text, embedded, lock>>

ScoreNext ==
    \/ ScoreTick
    \/ \E c \in Candidates : ScoreProbe(c)
    \/ ScorePass
    \/ ScoreFail
    \/ ScoreWrite
=============================================================================
