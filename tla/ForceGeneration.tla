-------------------------- MODULE ForceGeneration --------------------------
(***************************************************************************)
(* ForceGenerateService.generate (core/services/force_generate.py): the    *)
(* posts an operator asks for on the spot. One transaction for the whole   *)
(* request: every row it touches stays locked, with its new status unseen  *)
(* by the other sessions, until the single commit at the end.              *)
(***************************************************************************)
EXTENDS CandidateStore

CONSTANT
    ShortOfPosts    \* requests may ask for more posts than the theme has candidates

ASSUME ForceAssumption == ShortOfPosts \in BOOLEAN

VARIABLES
    todo,           \* eligible candidates not taken yet
    fo,             \* the candidate in hand
    draft           \* the statuses written and not committed; "same": none

forceVars == <<todo, fo, draft>>

\* "fetch": reading the sources' history; "seen": a post of it is in the table
\* already, as NEW; the others as in the rewriting tick.
ForceStage == {"idle", "fetch", "seen", "loop", "take", "embed", "demote", "llm"}

ForceTypeOK ==
    /\ todo \in SUBSET Candidates
    /\ fo \in [pc : ForceStage,
               post : Candidates \union {NoPost},
               other : Candidates \union {NoPost}]
    /\ draft \in [Candidates -> Status \union {"same"}]

FoAt(pc, c, d) == [pc |-> pc, post |-> c, other |-> d]
Untouched == [c \in Candidates |-> "same"]

ForceInit == todo = {} /\ fo = FoAt("idle", NoPost, NoPost) /\ draft = Untouched

\* The statuses this session reads: its own uncommitted ones, else the rows'.
OwnView == [c \in Candidates |-> IF draft[c] = "same" THEN status[c] ELSE draft[c]]

FoStart ==
    /\ fo.pc = "idle"
    /\ fo' = FoAt("fetch", NoPost, NoPost)
    /\ UNCHANGED <<store, todo, draft>>

\* Where the theme has too few candidates its sources' history is fetched, inside
\* the same transaction: a post not in the table is inserted.
FoInsert(c) ==
    /\ ShortOfPosts /\ fo.pc = "fetch" /\ OwnView[c] = "ABSENT" /\ Lockable(c, "force")
    /\ lock' = [lock EXCEPT ![c] = "force"]
    /\ \E s \in {"NEW", "SCORING", "REJECTED"} : draft' = [draft EXCEPT ![c] = s]
    /\ UNCHANGED <<status, text, embedded, todo, fo>>

FoSeen(c) ==
    /\ ShortOfPosts /\ fo.pc = "fetch" /\ OwnView[c] = "NEW"
    /\ fo' = FoAt("seen", c, NoPost)
    /\ UNCHANGED <<store, todo, draft>>

\* record_snapshot of a post read as NEW, as in the backfill job.
FoRescore ==
    /\ fo.pc = "seen" /\ Lockable(fo.post, "force")
    /\ lock' = [lock EXCEPT ![fo.post] = "force"]
    /\ draft' = [draft EXCEPT ![fo.post] = "SCORING"]
    /\ fo' = FoAt("fetch", NoPost, NoPost)
    /\ UNCHANGED <<status, text, embedded, todo>>

\* The eligible candidates are loaded once, without locking them.
FoList ==
    /\ fo.pc = "fetch"
    /\ \E pool \in SUBSET {c \in Candidates : OwnView[c] \in Unscored} \ {{}} : todo' = pool
    /\ fo' = FoAt("loop", NoPost, NoPost)
    /\ UNCHANGED <<store, draft>>

FoNext(c) ==
    /\ fo.pc = "loop" /\ c \in todo
    /\ todo' = todo \ {c}
    /\ fo' = FoAt("take", c, NoPost)
    /\ UNCHANGED <<store, draft>>

\* The candidate is made SELECTED whatever its row has become since the list was
\* loaded, and flushed: the row is locked from here on.
FoTake ==
    /\ fo.pc = "take" /\ Lockable(fo.post, "force")
    /\ lock' = [lock EXCEPT ![fo.post] = "force"]
    /\ draft' = [draft EXCEPT ![fo.post] = "SELECTED"]
    /\ fo' = [fo EXCEPT !.pc = IF Embeddings THEN "embed" ELSE "llm"]
    /\ UNCHANGED <<status, text, embedded, todo>>

\* The candidate in hand ends with status s in this transaction.
FoSettle(s) ==
    /\ draft' = [draft EXCEPT ![fo.post] = s]
    /\ fo' = FoAt("loop", NoPost, NoPost)
    /\ UNCHANGED <<store, todo>>

FoUnique ==
    /\ fo.pc = "embed"
    /\ fo' = [fo EXCEPT !.pc = "llm"]
    /\ UNCHANGED <<store, todo, draft>>

FoWeaker ==
    /\ fo.pc = "embed"
    /\ SimilarTo(fo.post, OwnView) # {}
    /\ FoSettle("DUPLICATE")

FoStronger ==
    /\ fo.pc = "embed"
    /\ \E d \in SimilarTo(fo.post, OwnView) : fo' = FoAt("demote", fo.post, d)
    /\ UNCHANGED <<store, todo, draft>>

FoDemote ==
    /\ fo.pc = "demote" /\ Lockable(fo.other, "force")
    /\ lock' = [lock EXCEPT ![fo.other] = "force"]
    /\ draft' = [draft EXCEPT ![fo.other] = "DUPLICATE"]
    /\ fo' = [fo EXCEPT !.pc = "llm"]
    /\ UNCHANGED <<status, text, embedded, todo>>

FoRewritten == fo.pc = "llm" /\ FoSettle("PENDING_REVIEW")

\* RewriteError: the post itself is no good.
FoUnsuitable == fo.pc = "llm" /\ FoSettle("REJECTED")

\* Mutant of FoFailed: the candidate stays as it was flushed.
FoLeftSelected == fo.pc \in {"embed", "llm"} /\ FoSettle("SELECTED")

\* Voyage or the model failed: the candidate goes back to NEW, so that it is not
\* left SELECTED; a duplicate already demoted in its favour is not put back.
FoFailed == fo.pc \in {"embed", "llm"} /\ FoSettle("NEW")

\* The rows touched by this transaction.
Touched == {c \in Candidates : draft[c] # "same"}

\* All candidates tried, or enough posts made.
FoCommit ==
    /\ fo.pc = "loop"
    /\ todo = {} \/ \E c \in Candidates : draft[c] = "PENDING_REVIEW"
    /\ status' = OwnView
    /\ text' = [c \in Candidates |-> IF draft[c] = "PENDING_REVIEW" THEN "draft" ELSE text[c]]
    /\ \E lost \in SUBSET {c \in Candidates : draft[c] \in Unscored \union {"REJECTED"}} :
          \* only fetched, or Voyage never answered
          embedded' = IF Embeddings THEN embedded \union (Touched \ lost) ELSE embedded
    /\ lock' = Released("force")
    /\ todo' = {} /\ fo' = FoAt("idle", NoPost, NoPost) /\ draft' = Untouched

\* The request ends in an exception, a lost connection or a restart of the API.
FoAbort ==
    /\ fo.pc # "idle"
    /\ lock' = Released("force")
    /\ todo' = {} /\ fo' = FoAt("idle", NoPost, NoPost) /\ draft' = Untouched
    /\ UNCHANGED <<status, text, embedded>>

\* Nothing to choose from: the request answers with an error, and even what it has
\* fetched is rolled back.
FoNothing ==
    /\ fo.pc = "fetch"
    /\ \A c \in Candidates : OwnView[c] \notin Unscored
    /\ FoAbort

FoSession ==
    \/ \E c \in Candidates : FoInsert(c) \/ FoSeen(c) \/ FoNext(c)
    \/ FoRescore
    \/ FoList
    \/ FoNothing
    \/ FoTake
    \/ FoUnique
    \/ FoWeaker
    \/ FoStronger
    \/ FoDemote
    \/ FoRewritten
    \/ FoUnsuitable
    \/ FoFailed
    \/ FoCommit

ForceNext == FoStart \/ FoSession \/ FoAbort
=============================================================================
