------------------------------- MODULE Intake -------------------------------
(***************************************************************************)
(* How candidates come into being: the readers of the source channels      *)
(* (interfaces/telethon_workers), the periodic backfill of their history   *)
(* (scheduler.py:backfill_job, core/services/backfill.py), both through    *)
(* IngestCandidatesService.receive_post, and the daily digest.             *)
(***************************************************************************)
EXTENDS CandidateStore

VARIABLE again      \* the post the backfill has met again, its row read as NEW

IntakeTypeOK == again \in Candidates \union {NoPost}

IntakeInit == again = NoPost

\* Mutant of Receive: a post seen again resets its row.
ReceiveAgain(c) ==
    /\ Lockable(c, "intake")
    /\ \E s \in {"NEW", "SCORING", "REJECTED"} : status' = [status EXCEPT ![c] = s]
    /\ UNCHANGED <<text, embedded, lock, again>>

\* A source post arrives, live or by backfill. Text too short to rewrite, or an
\* advertisement, is stored already rejected, so it is never received twice; the
\* backfill also records its counters, which moves it to SCORING. The insertion
\* waits for a session that has inserted the same post and not committed; one
\* that finds it inserted fails and changes nothing.
Receive(c) ==
    /\ status[c] = "ABSENT" /\ Lockable(c, "intake")
    /\ \E s \in {"NEW", "SCORING", "REJECTED"} : status' = [status EXCEPT ![c] = s]
    /\ UNCHANGED <<text, embedded, lock, again>>

\* The backfill meets a post the table has already, and reads its row.
SeeAgain(c) ==
    /\ again = NoPost /\ status[c] = "NEW"
    /\ again' = c
    /\ UNCHANGED store

\* record_snapshot: the object said NEW, so the flush writes SCORING, whatever a
\* session holding the row's lock has made of it meanwhile.
Rescore ==
    /\ again # NoPost /\ Lockable(again, "intake")
    /\ status' = [status EXCEPT ![again] = "SCORING"]
    /\ again' = NoPost
    /\ UNCHANGED <<text, embedded, lock>>

\* The post has no counters or is too old to score, or the backfill fails.
PassOver ==
    /\ again # NoPost
    /\ again' = NoPost
    /\ UNCHANGED store

\* The daily digest is inserted as a candidate with its text, waiting for review.
InsertDigest(c) ==
    /\ status[c] = "ABSENT" /\ Lockable(c, "intake")
    /\ status' = [status EXCEPT ![c] = "PENDING_REVIEW"]
    /\ text' = [text EXCEPT ![c] = "draft"]
    /\ UNCHANGED <<embedded, lock, again>>

IntakeNext ==
    \/ \E c \in Candidates : Receive(c) \/ SeeAgain(c) \/ InsertDigest(c)
    \/ Rescore
    \/ PassOver
=============================================================================
