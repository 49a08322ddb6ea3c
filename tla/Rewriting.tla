----------------------------- MODULE Rewriting -----------------------------
(***************************************************************************)
(* dedup_and_rewrite_job (scheduler.py) with DedupService and              *)
(* RewriteService: the SELECTED candidates of the tick, one after another, *)
(* each compared with the theme's posts and then rewritten by the model.   *)
(* One transaction per candidate, open across the calls to Voyage and to   *)
(* the model. How many candidates a tick takes (batch limit, stock, debt,  *)
(* budget) is left open here: a tick may stop after any of them.           *)
(***************************************************************************)
EXTENDS CandidateStore

CONSTANT
    Moderated       \* the theme has premoderation, or its bot an editor

ASSUME RewriteAssumption == Moderated \in BOOLEAN

VARIABLES
    queue,          \* the tick's list of candidates not yet taken
    rw              \* the candidate in hand

rewriteVars == <<queue, rw>>

\* "embed": Voyage has been asked and the row is about to be locked; "demote":
\* waiting to lock a weaker duplicate; "llm": the model is writing.
RewriteStage == {"idle", "loop", "embed", "demote", "llm"}

RewriteTypeOK ==
    /\ queue \in SUBSET Candidates
    /\ rw \in [pc : RewriteStage,
               post : Candidates \union {NoPost},
               other : Candidates \union {NoPost}]

RwAt(pc, c, d) == [pc |-> pc, post |-> c, other |-> d]

RewriteInit == queue = {} /\ rw = RwAt("idle", NoPost, NoPost)

RwTick ==
    /\ rw.pc = "idle"
    /\ queue' = {c \in Candidates : status[c] = "SELECTED"}
    /\ queue' # {}
    /\ rw' = RwAt("loop", NoPost, NoPost)
    /\ UNCHANGED store

RwStop ==
    /\ rw.pc = "loop"
    /\ queue' = {}
    /\ rw' = RwAt("idle", NoPost, NoPost)
    /\ UNCHANGED store

\* The next id of the list, its row read when it is used. Without a Voyage key
\* there is no comparison, and generate refuses a row that is not SELECTED.
RwNext(c) ==
    /\ rw.pc = "loop" /\ c \in queue
    /\ queue' = queue \ {c}
    /\ rw' = IF Embeddings THEN RwAt("embed", c, NoPost)
             ELSE IF status[c] = "SELECTED" THEN RwAt("llm", c, NoPost)
             ELSE RwAt("loop", NoPost, NoPost)
    /\ UNCHANGED store

\* Rollback of the candidate's transaction, the tick goes on.
RwRollback ==
    /\ lock' = Released("rewrite")
    /\ rw' = RwAt("loop", NoPost, NoPost)
    /\ UNCHANGED <<status, text, embedded, queue>>

\* generate reads the row again, now under this session's lock: it starts the
\* model on a SELECTED candidate and raises on any other.
RwGenerate(c, d, locks) ==
    IF status[c] = "SELECTED"
    THEN /\ lock' = locks
         /\ rw' = RwAt("llm", c, d)
         /\ UNCHANGED <<status, text, embedded, queue>>
    ELSE RwRollback

\* embed_and_store's flush locks the row; nothing similar enough is found.
RwUnique ==
    /\ rw.pc = "embed" /\ Lockable(rw.post, "rewrite")
    /\ RwGenerate(rw.post, NoPost, [lock EXCEPT ![rw.post] = "rewrite"])

\* A similar post scores higher: the candidate becomes its duplicate.
RwWeaker ==
    /\ rw.pc = "embed" /\ Lockable(rw.post, "rewrite")
    /\ SimilarTo(rw.post, status) # {}
    /\ status' = [status EXCEPT ![rw.post] = "DUPLICATE"]
    /\ embedded' = embedded \union {rw.post}
    /\ rw' = RwAt("loop", NoPost, NoPost)
    /\ UNCHANGED <<text, lock, queue>>

\* The candidate scores as high or higher: the similar post, whatever stage it
\* has reached, is to become the duplicate; its UPDATE needs its row's lock.
RwStronger ==
    /\ rw.pc = "embed" /\ Lockable(rw.post, "rewrite")
    /\ lock' = [lock EXCEPT ![rw.post] = "rewrite"]
    /\ \E d \in SimilarTo(rw.post, status) : rw' = RwAt("demote", rw.post, d)
    /\ UNCHANGED <<status, text, embedded, queue>>

RwDemote ==
    /\ rw.pc = "demote" /\ Lockable(rw.other, "rewrite")
    /\ RwGenerate(rw.post, rw.other, [lock EXCEPT ![rw.other] = "rewrite"])

\* Mutant of RewrittenStatus: the review of a moderated theme is forgotten.
RewrittenUnreviewed == "REWRITTEN"

\* Where a rewritten candidate goes: to review where the theme is moderated.
RewrittenStatus == IF Moderated THEN "PENDING_REVIEW" ELSE "REWRITTEN"

\* The model's text is stored, the status set, a review requested where the
\* theme is moderated, and all of it committed together.
RwDone ==
    /\ rw.pc = "llm" /\ Lockable(rw.post, "rewrite")
    /\ status' = [c \in Candidates |->
                     CASE c = rw.post  -> RewrittenStatus
                       [] c = rw.other -> "DUPLICATE"
                       [] OTHER        -> status[c]]
    /\ text' = [text EXCEPT ![rw.post] = "draft"]
    /\ embedded' = IF Embeddings THEN embedded \union {rw.post} ELSE embedded
    /\ lock' = Released("rewrite")
    /\ rw' = RwAt("loop", NoPost, NoPost)
    /\ UNCHANGED <<queue>>

\* Voyage or the model fails, or the model finds nothing but advertising.
RwFail == rw.pc \in {"embed", "llm"} /\ RwRollback

RwSession ==
    \/ RwUnique
    \/ RwWeaker
    \/ RwStronger
    \/ RwDemote
    \/ RwDone
    \/ RwFail

RewriteNext ==
    \/ RwTick
    \/ RwStop
    \/ \E c \in Candidates : RwNext(c)
    \/ RwSession
=============================================================================
