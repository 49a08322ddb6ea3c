----------------------------- MODULE Publishing -----------------------------
(***************************************************************************)
(* The way a candidate takes through publish_pool_job (scheduler.py) and   *)
(* PublisherService.publish_candidate_to_channels: picked, its object kept *)
(* while the photos are downloaded, its row locked, its text sent, its     *)
(* status committed. Whether a publication is due, and the channels, are   *)
(* left open here.                                                         *)
(***************************************************************************)
EXTENDS CandidateStore

VARIABLE pub        \* the candidate being published and the text of the object
                    \* the session holds

PublishStage == {"idle", "held", "sent"}

PublishTypeOK ==
    pub \in [pc : PublishStage, post : Candidates \union {NoPost}, text : Text]

PubIdle == [pc |-> "idle", post |-> NoPost, text |-> "none"]

PublishInit == pub = PubIdle

\* pick_next chooses among the REWRITTEN rows; the object stays referenced.
PubPick(c) ==
    /\ pub.pc = "idle" /\ status[c] = "REWRITTEN"
    /\ pub' = [pc |-> "held", post |-> c, text |-> text[c]]
    /\ UNCHANGED store

\* session.get with_for_update locks the row but does not reload the object the
\* job still holds: the check for REWRITTEN reads the status loaded by the pick.
PubSend ==
    /\ pub.pc = "held" /\ pub.text # "none"
    /\ Lockable(pub.post, "publish")
    /\ lock' = [lock EXCEPT ![pub.post] = "publish"]
    /\ pub' = [pub EXCEPT !.pc = "sent"]
    /\ UNCHANGED <<status, text, embedded>>

\* Mutant of PubCommit: the candidate is queued, a status no type of the model has.
PubQueued ==
    /\ pub.pc = "sent"
    /\ status' = [status EXCEPT ![pub.post] = "QUEUED"]
    /\ lock' = Released("publish")
    /\ pub' = PubIdle
    /\ UNCHANGED <<text, embedded>>

PubCommit ==
    /\ pub.pc = "sent"
    /\ status' = [status EXCEPT ![pub.post] = "PUBLISHED"]
    /\ lock' = Released("publish")
    /\ pub' = PubIdle
    /\ UNCHANGED <<text, embedded>>

\* No text to publish, a refused send, or a failure after it: the job rolls back.
PubFail ==
    /\ pub.pc # "idle"
    /\ lock' = Released("publish")
    /\ pub' = PubIdle
    /\ UNCHANGED <<status, text, embedded>>

PubSession == PubSend \/ PubCommit \/ PubFail

PublishNext == PubSession \/ \E c \in Candidates : PubPick(c)
=============================================================================
