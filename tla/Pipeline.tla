------------------------------ MODULE Pipeline ------------------------------
(***************************************************************************)
(* The candidate conveyor: every session that writes candidate_posts,      *)
(* running at once. The jobs of scheduler.py are tasks of one process, each *)
(* at most once at a time; generation on demand and the reviews run in the  *)
(* API and bot processes.                                                  *)
(***************************************************************************)
EXTENDS Intake, Scoring, Rewriting, ForceGeneration, Publishing, Review

CONSTANT
    Running         \* the components at work: all of them, or those whose
                    \* interplay a run is about

Component == {"intake", "score", "rewrite", "force", "publish", "review", "restart"}

ASSUME PipelineAssumption == Running \subseteq Component

jobVars == <<again, scoreVars, rewriteVars, pub>>
vars == <<store, jobVars, forceVars, reviewVars>>

TypeOK ==
    /\ StoreTypeOK
    /\ IntakeTypeOK
    /\ ScoreTypeOK
    /\ RewriteTypeOK
    /\ ForceTypeOK
    /\ PublishTypeOK
    /\ ReviewTypeOK

Init ==
    /\ StoreInit
    /\ IntakeInit
    /\ ScoreInit
    /\ RewriteInit
    /\ ForceInit
    /\ PublishInit
    /\ ReviewInit

\* Mutant of Deadlocked: the database does not look for cycles.
NeverDeadlocked == FALSE

\* PostgreSQL finds two transactions waiting for each other's rows, and makes
\* one of them fail.
Deadlocked ==
    /\ rw.pc = "demote" /\ lock[rw.other] = "force"
    /\ \/ fo.pc \in {"seen", "take"} /\ lock[fo.post] = "rewrite"
       \/ fo.pc = "demote" /\ lock[fo.other] = "rewrite"

RewriteIsVictim == Deadlocked /\ RwRollback
ForceIsVictim == Deadlocked /\ FoAbort

\* The scheduler's process stops: its sessions are rolled back, its lists lost.
SchedulerRestart ==
    /\ rw.pc # "idle" \/ pub.pc # "idle" \/ due # {} \/ probing # NoPost \/ again # NoPost
    /\ again' = NoPost
    /\ due' = {} /\ view' = Expired /\ probing' = NoPost
    /\ queue' = {} /\ rw' = RwAt("idle", NoPost, NoPost)
    /\ pub' = PubIdle
    /\ lock' = [c \in Candidates |-> IF lock[c] \in {"rewrite", "publish"} THEN "free"
                                     ELSE lock[c]]
    /\ UNCHANGED <<status, text, embedded>>

IntakeStep ==
    /\ "intake" \in Running
    /\ IntakeNext
    /\ UNCHANGED <<scoreVars, rewriteVars, pub, forceVars, reviewVars>>
ScoreStep ==
    /\ "score" \in Running
    /\ ScoreNext
    /\ UNCHANGED <<again, rewriteVars, pub, forceVars, reviewVars>>
RewriteStep ==
    /\ "rewrite" \in Running
    /\ RewriteNext \/ RewriteIsVictim
    /\ UNCHANGED <<again, scoreVars, pub, forceVars, reviewVars>>
ForceStep ==
    /\ "force" \in Running
    /\ ForceNext \/ ForceIsVictim
    /\ UNCHANGED <<jobVars, reviewVars>>
PublishStep ==
    /\ "publish" \in Running
    /\ PublishNext
    /\ UNCHANGED <<again, scoreVars, rewriteVars, forceVars, reviewVars>>
ReviewStep == "review" \in Running /\ ReviewNext /\ UNCHANGED <<jobVars, forceVars>>
RestartStep == "restart" \in Running /\ SchedulerRestart /\ UNCHANGED <<forceVars, reviewVars>>

Next ==
    \/ IntakeStep
    \/ ScoreStep
    \/ RewriteStep
    \/ ForceStep
    \/ PublishStep
    \/ ReviewStep
    \/ RestartStep

Spec == Init /\ [][Next]_vars

\* The rows a forced generation moves on, or puts back to NEW, in this step.
CommittedByForce ==
    IF FoCommit THEN {c \in Touched : \/ draft[c] \notin Unscored
                                      \/ status[c] \notin Unscored \union {"ABSENT"}}
                ELSE {}

-----------------------------------------------------------------------------
\* Properties.

\* A post on review, ready or published has a text: whatever overwrites its
\* status, and whoever brings it back from a mass rejection, no interleaving puts
\* in front of an operator or the publisher a candidate without a version
\* (publisher.py refuses it, the review list joins it away).
WordedHasText == \A c \in Candidates : status[c] \in Worded => text[c] # "none"

\* In a moderated theme nothing is sent that no operator has approved or written:
\* neither the stale objects of the other sessions nor the races of the operators
\* between themselves let the model's own text through (scheduler.py, the status
\* set after the rewrite; review.py).
OnlyVettedSent == Moderated /\ pub.pc = "sent" => pub.text = "vetted"

\* A forced generation never leaves a candidate SELECTED: every row it commits is
\* on review, rejected, back to NEW or a duplicate, however the calls to Voyage
\* and the model ended, and whatever it demoted and took again.
ForceLeavesNoneSelected ==
    [][FoCommit => \A c \in Touched : status'[c] # "SELECTED"]_vars

-----------------------------------------------------------------------------
\* The inductive invariant of PipelineProofs.

\* The stages that have a candidate in hand.
InHand == {"seen", "take", "embed", "demote", "llm"}

\* Sessions point at candidates while they work on them.
Pointers ==
    /\ rw.pc \in InHand => rw.post \in Candidates
    /\ fo.pc \in InHand => fo.post \in Candidates
    /\ rw.pc = "demote" => rw.other \in Candidates
    /\ fo.pc = "demote" => fo.other \in Candidates
    /\ pub.pc # "idle" => pub.post \in Candidates

\* A candidate any session will bring on review or publish has a text already.
HeldHasText ==
    /\ pub.pc # "idle" => text[pub.post] # "none"
    /\ \A o \in Operators : \A c \in req[o].posts \union undo[o] : text[c] # "none"

\* What a forced generation has written and not committed.
DraftStatus ==
    /\ \A c \in Candidates :
          draft[c] \in {"same", "NEW", "SCORING", "SELECTED", "PENDING_REVIEW", "REJECTED",
                        "DUPLICATE"}
    /\ \A c \in Candidates :
          draft[c] = "SELECTED" => fo.post = c /\ fo.pc \in {"embed", "demote", "llm"}

\* In a moderated theme only an approval makes a row ready.
ReadyIsVetted ==
    Moderated =>
        /\ \A c \in Candidates : status[c] = "REWRITTEN" => text[c] = "vetted"
        /\ pub.pc # "idle" => pub.text = "vetted"

IInv ==
    /\ TypeOK
    /\ Pointers
    /\ WordedHasText
    /\ HeldHasText
    /\ DraftStatus
    /\ ReadyIsVetted

-----------------------------------------------------------------------------
\* What the runtime guarantees a session in the middle of its work: the calls it
\* awaits return or time out, and PostgreSQL grants a row lock in the order it was
\* asked for, so a session waiting for one is not passed over for ever.
Fairness ==
    /\ SF_vars(RwSession /\ UNCHANGED <<again, scoreVars, pub, forceVars, reviewVars>>)
    /\ SF_vars(FoSession /\ UNCHANGED <<jobVars, reviewVars>>)
    /\ WF_vars(PubSession /\ UNCHANGED <<again, scoreVars, rewriteVars, forceVars, reviewVars>>)
    /\ WF_vars(RewriteIsVictim /\ UNCHANGED <<again, scoreVars, pub, forceVars, reviewVars>>)

FairSpec == Spec /\ Fairness

\* Every row lock is given up: no candidate stays locked for ever by a session
\* that waits for a row another one holds.
RowsReleased == \A c \in Candidates : []<>(lock[c] = "free")
=============================================================================
