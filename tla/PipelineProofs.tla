--------------------------- MODULE PipelineProofs ---------------------------
(***************************************************************************)
(* Pipeline for any set of candidates and operators: the inductive         *)
(* invariant IInv and the safety properties that follow from it. Each      *)
(* component's steps have a lemma of their own.                            *)
(***************************************************************************)
EXTENDS Pipeline, TLAPS

USE DEF store, scoreVars, rewriteVars, forceVars, reviewVars, jobVars,
        TypeOK, StoreTypeOK, IntakeTypeOK, ScoreTypeOK, RewriteTypeOK, ForceTypeOK, PublishTypeOK,
        ReviewTypeOK

\* The initial state satisfies the invariant: no row, no session at work.
LEMMA InitIInv == Init => IInv
<1>1. Init => TypeOK
  BY DEF Init, StoreInit, IntakeInit, ScoreInit, RewriteInit, ForceInit, PublishInit,
     ReviewInit, Status, Text, Holder, Expired, RwAt, FoAt, RewriteStage, ForceStage, PublishStage,
     PubIdle, Untouched, NoRequest, Operation
<1>2. Init => Pointers /\ WordedHasText /\ HeldHasText /\ DraftStatus /\ ReadyIsVetted
  BY DEF Init, StoreInit, RewriteInit, ForceInit, PublishInit, ReviewInit, RwAt, FoAt,
     PubIdle, Untouched, NoRequest, Pointers, InHand, WordedHasText, Worded, HeldHasText,
     DraftStatus, ReadyIsVetted
<1>3. QED
  BY <1>1, <1>2 DEF IInv

\* Arrivals change a row that was absent, and give a digest its text; a backfill
\* that meets a post again only puts it to SCORING.
LEMMA IntakeStepIInv == IInv /\ IntakeStep => IInv'
<1> SUFFICES ASSUME IInv, IntakeStep PROVE IInv'
  OBVIOUS
<1> USE DEF IInv
<1>1. UNCHANGED <<scoreVars, rewriteVars, pub, forceVars, reviewVars, embedded, lock>>
  BY DEF IntakeStep, IntakeNext, Receive, SeeAgain, Rescore, PassOver, InsertDigest
<1>2. again' \in Candidates \union {NoPost}
  BY DEF IntakeStep, IntakeNext, Receive, SeeAgain, Rescore, PassOver, InsertDigest
<1>3. CASE \E c \in Candidates : InsertDigest(c)
  <2>1. PICK c \in Candidates : InsertDigest(c)
    BY <1>3
  <2>2. TypeOK' /\ Pointers' /\ DraftStatus'
    BY <1>1, <1>2, <2>1 DEF InsertDigest, Status, Text, Pointers, DraftStatus
  <2>3. WordedHasText' /\ HeldHasText' /\ ReadyIsVetted'
    BY <1>1, <2>1 DEF InsertDigest, WordedHasText, Worded, HeldHasText, ReadyIsVetted, Pointers
  <2>4. QED BY <2>2, <2>3
<1>4. CASE ~ \E c \in Candidates : InsertDigest(c)
  <2>1. /\ UNCHANGED text
        /\ \/ UNCHANGED status
           \/ \E c \in Candidates, s \in {"NEW", "SCORING", "REJECTED"} :
                 status' = [status EXCEPT ![c] = s]
    BY <1>4 DEF IntakeStep, IntakeNext, Receive, SeeAgain, Rescore, PassOver
  <2>2. TypeOK' /\ Pointers' /\ DraftStatus'
    BY <1>1, <1>2, <2>1 DEF Status, Pointers, DraftStatus
  <2>3. WordedHasText' /\ HeldHasText' /\ ReadyIsVetted'
    BY <1>1, <2>1 DEF WordedHasText, Worded, HeldHasText, ReadyIsVetted
  <2>4. QED BY <2>2, <2>3
<1>5. QED BY <1>3, <1>4

\* The scoring tick: its verdicts are never a status that needs a text.
LEMMA ScoreStepIInv == IInv /\ ScoreStep => IInv'
<1> SUFFICES ASSUME IInv, ScoreStep PROVE IInv'
  OBVIOUS
<1> USE DEF IInv
<1>1. UNCHANGED <<again, rewriteVars, pub, forceVars, reviewVars>>
  BY DEF ScoreStep
<1>2. UNCHANGED <<text, embedded, lock>>
  BY DEF ScoreStep, ScoreNext, ScoreTick, ScoreProbe, ScorePass, ScoreFail, ScoreWrite
<1>3. /\ due' \in SUBSET Candidates
      /\ view' \in [Candidates -> Status \union {"expired"}]
      /\ probing' \in Candidates \union {NoPost}
  BY DEF ScoreStep, ScoreNext, ScoreTick, ScoreProbe, ScorePass, ScoreFail, ScoreWrite, Expired
<1>4. \/ UNCHANGED status
      \/ \E s \in {"SCORING", "SELECTED", "REJECTED"} : status' = [status EXCEPT ![probing] = s]
      \/ \E s \in Status : status' = [status EXCEPT ![probing] = s] /\ s \notin Worded
  <2>1. CASE ScoreWrite
    BY <2>1 DEF ScoreWrite, Verdict
  <2>2. QED
    BY <2>1 DEF ScoreStep, ScoreNext, ScoreTick, ScoreProbe, ScorePass, ScoreFail
<1>5. TypeOK'
  BY <1>1, <1>2, <1>3, <1>4 DEF Status
<1>6. Pointers' /\ DraftStatus' /\ HeldHasText'
  BY <1>1, <1>2 DEF Pointers, DraftStatus, HeldHasText
<1>7. WordedHasText' /\ ReadyIsVetted'
  BY <1>1, <1>2, <1>4 DEF WordedHasText, Worded, ReadyIsVetted, Status
<1>8. QED BY <1>5, <1>6, <1>7

\* The rewriting tick: a rewritten candidate gets a text with its status, and in a
\* moderated theme never becomes ready.
LEMMA RewriteStepIInv == IInv /\ RewriteStep => IInv'
<1> SUFFICES ASSUME IInv, RewriteStep PROVE IInv'
  OBVIOUS
<1> USE DEF IInv
<1>1. UNCHANGED <<again, scoreVars, pub, forceVars, reviewVars>>
  BY DEF RewriteStep
<1>2. CASE RwTick \/ RwStop \/ \E c \in Candidates : RwNext(c)
  <2>1. UNCHANGED store
    BY <1>2 DEF RwTick, RwStop, RwNext
  <2>2. queue' \in SUBSET Candidates
    BY <1>2 DEF RwTick, RwStop, RwNext
  <2>3. \/ rw' \in {RwAt("idle", NoPost, NoPost), RwAt("loop", NoPost, NoPost)}
        \/ \E c \in Candidates : rw' \in {RwAt("embed", c, NoPost), RwAt("llm", c, NoPost)}
    BY <1>2 DEF RwTick, RwStop, RwNext
  <2>4. TypeOK' /\ Pointers'
    BY <1>1, <2>1, <2>2, <2>3 DEF RwAt, RewriteStage, Pointers, InHand
  <2>5. WordedHasText' /\ HeldHasText' /\ DraftStatus' /\ ReadyIsVetted'
    BY <1>1, <2>1 DEF WordedHasText, HeldHasText, DraftStatus, ReadyIsVetted
  <2>6. QED BY <2>4, <2>5
<1>3. CASE RwUnique \/ RwStronger \/ RwDemote \/ RwFail \/ RewriteIsVictim
  <2>1. UNCHANGED <<status, text, embedded, queue>>
    BY <1>3 DEF RwUnique, RwStronger, RwDemote, RwFail, RewriteIsVictim, RwGenerate, RwRollback
  <2>2. lock' \in [Candidates -> Holder]
    BY <1>3 DEF RwUnique, RwStronger, RwDemote, RwFail, RewriteIsVictim, RwGenerate, RwRollback,
       Released, Holder
  <2>3. \/ rw' = RwAt("loop", NoPost, NoPost)
        \/ rw' = RwAt("llm", rw.post, NoPost) /\ rw.pc = "embed"
        \/ rw' = RwAt("llm", rw.post, rw.other) /\ rw.pc = "demote"
        \/ rw.pc = "embed" /\ \E d \in Candidates : rw' = RwAt("demote", rw.post, d)
    BY <1>3 DEF RwUnique, RwStronger, RwDemote, RwFail, RewriteIsVictim, RwGenerate, RwRollback,
       SimilarTo
  <2>4. TypeOK' /\ Pointers'
    BY <1>1, <2>1, <2>2, <2>3 DEF RwAt, RewriteStage, Pointers, InHand
  <2>5. WordedHasText' /\ HeldHasText' /\ DraftStatus' /\ ReadyIsVetted'
    BY <1>1, <2>1 DEF WordedHasText, HeldHasText, DraftStatus, ReadyIsVetted
  <2>6. QED BY <2>4, <2>5
<1>4. CASE RwWeaker
  <2>1. TypeOK' /\ Pointers'
    BY <1>1, <1>4 DEF RwWeaker, RwAt, RewriteStage, Pointers, InHand, Status
  <2>2. WordedHasText' /\ HeldHasText' /\ DraftStatus' /\ ReadyIsVetted'
    BY <1>1, <1>4 DEF RwWeaker, WordedHasText, Worded, HeldHasText, DraftStatus, ReadyIsVetted
  <2>3. QED BY <2>1, <2>2
<1>5. CASE RwDone
  <2>1. rw.post \in Candidates
    BY <1>5 DEF RwDone, Pointers, InHand
  <2>2. TypeOK' /\ Pointers'
    BY <1>1, <1>5, <2>1 DEF RwDone, RwAt, RewriteStage, Pointers, InHand, Status, Text, Holder,
       Released, RewrittenStatus
  <2>3. \A c \in Candidates : text'[c] = IF c = rw.post THEN "draft" ELSE text[c]
    BY <1>5 DEF RwDone
  <2>4. WordedHasText' /\ HeldHasText' /\ DraftStatus'
    BY <1>1, <1>5, <2>3 DEF RwDone, WordedHasText, Worded, HeldHasText, DraftStatus, Pointers
  <2>5. ReadyIsVetted'
    BY <1>1, <1>5, <2>3 DEF RwDone, ReadyIsVetted, RewrittenStatus
  <2>6. QED BY <2>2, <2>4, <2>5
<1>6. QED
  BY <1>2, <1>3, <1>4, <1>5 DEF RewriteStep, RewriteNext, RwSession

\* A forced generation: what it has written is invisible until FoCommit, and what
\* FoCommit shows has a text if it is on review.
LEMMA ForceStepIInv == IInv /\ ForceStep => IInv'
<1> SUFFICES ASSUME IInv, ForceStep PROVE IInv'
  OBVIOUS
<1> USE DEF IInv
<1>1. UNCHANGED <<jobVars, reviewVars>>
  BY DEF ForceStep
<1>2. CASE \/ FoStart \/ FoList \/ FoUnique \/ FoStronger
           \/ \E c \in Candidates : FoSeen(c) \/ FoNext(c)
  <2>1. UNCHANGED <<store, draft>>
    BY <1>2 DEF FoStart, FoList, FoSeen, FoNext, FoUnique, FoStronger
  <2>2. TypeOK' /\ Pointers'
    BY <1>1, <1>2, <2>1 DEF FoStart, FoList, FoSeen, FoNext, FoUnique, FoStronger, FoAt,
       ForceStage, Pointers, InHand, SimilarTo
  <2>3. WordedHasText' /\ HeldHasText' /\ ReadyIsVetted'
    BY <1>1, <2>1 DEF WordedHasText, HeldHasText, ReadyIsVetted
  <2>4. DraftStatus'
    BY <1>2, <2>1 DEF FoStart, FoList, FoSeen, FoNext, FoUnique, FoStronger, FoAt, DraftStatus
  <2>5. QED BY <2>2, <2>3, <2>4
<1>3. CASE FoRescore \/ \E c \in Candidates : FoInsert(c)
  <2>1. PICK c \in Candidates, s \in {"NEW", "SCORING", "REJECTED"} :
           /\ draft' = [draft EXCEPT ![c] = s]
           /\ lock' = [lock EXCEPT ![c] = "force"]
    BY <1>3 DEF FoRescore, FoInsert, Pointers, InHand
  <2>2. /\ UNCHANGED <<status, text, embedded, todo>>
        /\ fo.pc \in {"fetch", "seen"}
        /\ fo' = fo \/ fo' = FoAt("fetch", NoPost, NoPost)
    BY <1>3 DEF FoRescore, FoInsert
  <2>3. TypeOK' /\ Pointers'
    BY <1>1, <2>1, <2>2 DEF FoAt, ForceStage, Status, Holder, Pointers, InHand
  <2>4. WordedHasText' /\ HeldHasText' /\ ReadyIsVetted'
    BY <1>1, <2>2 DEF WordedHasText, HeldHasText, ReadyIsVetted
  <2>5. DraftStatus'
    BY <2>1, <2>2 DEF DraftStatus
  <2>6. QED BY <2>3, <2>4, <2>5
<1>4. CASE FoTake \/ FoDemote
  <2>1. UNCHANGED <<status, text, embedded, todo>>
    BY <1>4 DEF FoTake, FoDemote
  <2>2. fo.post \in Candidates /\ (FoDemote => fo.other \in Candidates)
    BY <1>4 DEF FoTake, FoDemote, Pointers, InHand
  <2>3. TypeOK' /\ Pointers'
    BY <1>1, <1>4, <2>1, <2>2 DEF FoTake, FoDemote, ForceStage, Pointers, InHand, Status, Holder
  <2>4. WordedHasText' /\ HeldHasText' /\ ReadyIsVetted'
    BY <1>1, <2>1 DEF WordedHasText, HeldHasText, ReadyIsVetted
  <2>5. DraftStatus'
    BY <1>4, <2>2 DEF FoTake, FoDemote, DraftStatus
  <2>6. QED BY <2>3, <2>4, <2>5
<1>5. CASE FoWeaker \/ FoRewritten \/ FoUnsuitable \/ FoFailed
  <2>1. PICK s \in {"DUPLICATE", "PENDING_REVIEW", "REJECTED", "NEW"} : FoSettle(s)
    BY <1>5 DEF FoWeaker, FoRewritten, FoUnsuitable, FoFailed
  <2>2. TypeOK' /\ Pointers'
    BY <1>1, <2>1 DEF FoSettle, FoAt, ForceStage, Pointers, InHand, Status
  <2>3. WordedHasText' /\ HeldHasText' /\ ReadyIsVetted'
    BY <1>1, <2>1 DEF FoSettle, WordedHasText, HeldHasText, ReadyIsVetted
  <2>4. DraftStatus'
    BY <2>1 DEF FoSettle, FoAt, DraftStatus
  <2>5. QED BY <2>2, <2>3, <2>4
<1>6. CASE FoCommit
  <2>1. /\ status' \in [Candidates -> Status]
        /\ text' \in [Candidates -> Text]
        /\ embedded' \in SUBSET Candidates
        /\ lock' \in [Candidates -> Holder]
    BY <1>6 DEF FoCommit, OwnView, Status, Text, Holder, Released, Touched
  <2>2. TypeOK' /\ Pointers'
    BY <1>1, <1>6, <2>1 DEF FoCommit, FoAt, ForceStage, Untouched, Pointers, InHand
  <2>3. \A c \in Candidates :
           /\ status'[c] = IF draft[c] = "same" THEN status[c] ELSE draft[c]
           /\ text'[c] = IF draft[c] = "PENDING_REVIEW" THEN "draft" ELSE text[c]
    BY <1>6 DEF FoCommit, OwnView
  <2>4. WordedHasText'
    BY <2>3 DEF WordedHasText, Worded, DraftStatus
  <2>5. HeldHasText'
    BY <1>1, <2>3 DEF HeldHasText, Pointers
  <2>6. DraftStatus'
    BY <1>6 DEF FoCommit, Untouched, DraftStatus
  <2>7. ReadyIsVetted'
    BY <1>1, <2>3 DEF ReadyIsVetted, DraftStatus
  <2>8. QED BY <2>2, <2>4, <2>5, <2>6, <2>7
<1>7. CASE FoAbort \/ FoNothing \/ ForceIsVictim
  <2>1. /\ lock' \in [Candidates -> Holder]
        /\ todo' = {} /\ fo' = FoAt("idle", NoPost, NoPost) /\ draft' = Untouched
        /\ UNCHANGED <<status, text, embedded>>
    BY <1>7 DEF FoAbort, FoNothing, ForceIsVictim, Released, Holder
  <2>2. TypeOK' /\ Pointers'
    BY <1>1, <2>1 DEF FoAt, ForceStage, Untouched, Pointers, InHand
  <2>3. WordedHasText' /\ HeldHasText' /\ ReadyIsVetted' /\ DraftStatus'
    BY <1>1, <2>1 DEF Untouched, WordedHasText, HeldHasText, ReadyIsVetted, DraftStatus
  <2>4. QED BY <2>2, <2>3
<1>8. QED
  BY <1>2, <1>3, <1>4, <1>5, <1>6, <1>7 DEF ForceStep, ForceNext, FoSession

\* A publication: the object picked carries the text of a ready row.
LEMMA PublishStepIInv == IInv /\ PublishStep => IInv'
<1> SUFFICES ASSUME IInv, PublishStep PROVE IInv'
  OBVIOUS
<1> USE DEF IInv
<1>1. UNCHANGED <<again, scoreVars, rewriteVars, forceVars, reviewVars>>
  BY DEF PublishStep
<1>2. CASE \E c \in Candidates : PubPick(c)
  <2>1. PICK c \in Candidates : PubPick(c)
    BY <1>2
  <2>2. text[c] # "none" /\ (Moderated => text[c] = "vetted")
    BY <2>1 DEF PubPick, WordedHasText, Worded, ReadyIsVetted
  <2>3. TypeOK' /\ Pointers'
    BY <1>1, <2>1 DEF PubPick, PublishStage, Pointers
  <2>4. WordedHasText' /\ HeldHasText' /\ DraftStatus' /\ ReadyIsVetted'
    BY <1>1, <2>1, <2>2 DEF PubPick, WordedHasText, HeldHasText, DraftStatus, ReadyIsVetted
  <2>5. QED BY <2>3, <2>4
<1>3. CASE PubSend
  <2>1. TypeOK' /\ Pointers'
    BY <1>1, <1>3 DEF PubSend, PublishStage, Holder, Pointers
  <2>2. WordedHasText' /\ HeldHasText' /\ DraftStatus' /\ ReadyIsVetted'
    BY <1>1, <1>3 DEF PubSend, WordedHasText, HeldHasText, DraftStatus, ReadyIsVetted
  <2>3. QED BY <2>1, <2>2
<1>4. CASE PubCommit
  <2>1. pub.post \in Candidates /\ text[pub.post] # "none"
    BY <1>4 DEF PubCommit, Pointers, HeldHasText
  <2>2. TypeOK' /\ Pointers'
    BY <1>1, <1>4 DEF PubCommit, PubIdle, PublishStage, Status, Text, Holder, Released, Pointers
  <2>3. WordedHasText' /\ HeldHasText' /\ DraftStatus' /\ ReadyIsVetted'
    BY <1>1, <1>4, <2>1 DEF PubCommit, PubIdle, WordedHasText, HeldHasText, DraftStatus,
       ReadyIsVetted
  <2>4. QED BY <2>2, <2>3
<1>5. CASE PubFail
  <2>1. TypeOK' /\ Pointers'
    BY <1>1, <1>5 DEF PubFail, PubIdle, PublishStage, Text, Holder, Released, Pointers
  <2>2. WordedHasText' /\ HeldHasText' /\ DraftStatus' /\ ReadyIsVetted'
    BY <1>1, <1>5 DEF PubFail, PubIdle, WordedHasText, HeldHasText, DraftStatus, ReadyIsVetted
  <2>3. QED BY <2>1, <2>2
<1>6. QED
  BY <1>2, <1>3, <1>4, <1>5 DEF PublishStep, PublishNext, PubSession

\* An operator's request: whatever the rows have become since they were read, the
\* candidates in it have a text, and an approval vets the text it makes ready.
LEMMA ReviewStepIInv == IInv /\ ReviewStep => IInv'
<1> SUFFICES ASSUME IInv, ReviewStep PROVE IInv'
  OBVIOUS
<1> USE DEF IInv
<1>1. UNCHANGED <<jobVars, forceVars>>
  BY DEF ReviewStep
<1>2. PICK o \in Operators : Decide(o) \/ Decided(o) \/ Dropped(o)
  BY DEF ReviewStep, ReviewNext
<1>3. CASE Decide(o)
  <2>1. PICK op \in Operation, S \in SUBSET Candidates :
           /\ \A c \in S : text[c] # "none"
           /\ req' = [req EXCEPT ![o] = [op |-> op, posts |-> S]]
    <3>1. ASSUME NEW op \in {"approve", "unapprove", "edit", "reject"}, NEW c \in Candidates,
                 status[c] = Expected(op)
          PROVE  text[c] # "none"
      BY <3>1 DEF Expected, WordedHasText, Worded
    <3>2. \A c \in WithStatus(Candidates, "PENDING_REVIEW") : c \in Candidates /\ text[c] # "none"
      BY DEF WithStatus, WordedHasText, Worded
    <3>3. \A c \in Restorable(o) : c \in Candidates /\ text[c] # "none"
      BY <1>2 DEF Restorable, WithStatus, HeldHasText
    <3>4. QED
      BY <1>3, <3>1, <3>2, <3>3 DEF Decide, Operation
  <2>2. UNCHANGED <<store, undo>>
    BY <1>3 DEF Decide
  <2>3. TypeOK' /\ Pointers'
    BY <1>1, <2>1, <2>2 DEF Pointers
  <2>4. WordedHasText' /\ HeldHasText' /\ DraftStatus' /\ ReadyIsVetted'
    BY <1>1, <1>2, <2>1, <2>2 DEF WordedHasText, HeldHasText, DraftStatus, ReadyIsVetted
  <2>5. QED BY <2>3, <2>4
<1>4. CASE Decided(o)
  <2> DEFINE S == req[o].posts
             op == req[o].op
  <2>1. /\ S \in SUBSET Candidates /\ op \in Operation
        /\ \A c \in S \union undo[o] : text[c] # "none"
    BY <1>2 DEF HeldHasText
  <2>2. /\ \A c \in Candidates :
              /\ status'[c] = IF c \in S THEN Written(op, status[c]) ELSE status[c]
              /\ text'[c] = IF c \in S /\ op \in {"approve", "edit"} THEN "vetted" ELSE text[c]
        /\ UNCHANGED <<embedded, lock>>
    BY <1>4 DEF Decided
  <2>3. /\ req' = [req EXCEPT ![o] = [op |-> "none", posts |-> {}]]
        /\ \E U \in {S, {}, undo[o]} : undo' = [undo EXCEPT ![o] = U]
    BY <1>4 DEF Decided, NoRequest
  <2>4. /\ status' \in [Candidates -> Status]
        /\ text' \in [Candidates -> Text]
    BY <1>4 DEF Decided, Written, Status, Text
  <2>5. TypeOK' /\ Pointers' /\ DraftStatus'
    BY <1>1, <1>2, <2>1, <2>2, <2>3, <2>4 DEF Operation, Pointers, DraftStatus
  <2>6. WordedHasText'
    BY <2>1, <2>2 DEF WordedHasText, Worded
  <2>7. HeldHasText'
    <3>1. \A c \in Candidates : text[c] # "none" => text'[c] # "none"
      BY <2>2
    <3>2. \A p \in Operators : \A c \in req'[p].posts \union undo'[p] : text[c] # "none"
      BY <1>2, <2>1, <2>3 DEF HeldHasText
    <3>3. \A p \in Operators : req'[p].posts \union undo'[p] \subseteq Candidates
      BY <2>5
    <3>4. pub.pc # "idle" => text'[pub.post] # "none"
      BY <3>1 DEF HeldHasText, Pointers
    <3>5. QED BY <1>1, <3>1, <3>2, <3>3, <3>4 DEF HeldHasText
  <2>8. ReadyIsVetted'
    BY <1>1, <2>1, <2>2 DEF ReadyIsVetted, Written, Operation
  <2>9. QED BY <2>5, <2>6, <2>7, <2>8
<1>5. CASE Dropped(o)
  <2>1. TypeOK' /\ Pointers'
    BY <1>1, <1>5 DEF Dropped, NoRequest, Operation, Pointers
  <2>2. WordedHasText' /\ HeldHasText' /\ DraftStatus' /\ ReadyIsVetted'
    BY <1>1, <1>2, <1>5 DEF Dropped, NoRequest, WordedHasText, HeldHasText, DraftStatus,
       ReadyIsVetted
  <2>3. QED BY <2>1, <2>2
<1>6. QED BY <1>2, <1>3, <1>4, <1>5

\* A restart of the scheduler loses its lists and locks, and no row.
LEMMA RestartStepIInv == IInv /\ RestartStep => IInv'
<1> SUFFICES ASSUME IInv, RestartStep PROVE IInv'
  OBVIOUS
<1> USE DEF IInv, RestartStep, SchedulerRestart
<1>1. TypeOK' /\ Pointers'
  BY DEF Expired, RwAt, RewriteStage, PubIdle, PublishStage, Text, Holder, Pointers, InHand
<1>2. WordedHasText' /\ HeldHasText' /\ DraftStatus' /\ ReadyIsVetted'
  BY DEF PubIdle, WordedHasText, HeldHasText, DraftStatus, ReadyIsVetted
<1>3. QED BY <1>1, <1>2

\* The invariant holds in every reachable state.
THEOREM Invariance == Spec => []IInv
<1>1. IInv /\ UNCHANGED vars => IInv'
  BY DEF vars, IInv, Pointers, WordedHasText, HeldHasText, DraftStatus, ReadyIsVetted
<1>2. IInv /\ [Next]_vars => IInv'
  BY <1>1, IntakeStepIInv, ScoreStepIInv, RewriteStepIInv, ForceStepIInv, PublishStepIInv,
     ReviewStepIInv, RestartStepIInv DEF Next
<1>3. QED BY <1>2, InitIInv, PTL DEF Spec

\* Every variable keeps its type: in particular no session ever writes a status
\* outside the model's, such as QUEUED, which the enumeration has and no code uses.
THEOREM TypeCorrect == Spec => []TypeOK
<1>1. IInv => TypeOK
  BY DEF IInv
<1>2. QED BY <1>1, Invariance, PTL

\* However the sessions interleave, a post on review, ready or published has a text.
THEOREM WordedAlwaysHasText == Spec => []WordedHasText
<1>1. IInv => WordedHasText
  BY DEF IInv
<1>2. QED BY <1>1, Invariance, PTL

\* In a moderated theme nothing is sent that no operator has approved or written.
THEOREM SentIsVetted == Spec => []OnlyVettedSent
<1>1. IInv => OnlyVettedSent
  BY DEF IInv, ReadyIsVetted, OnlyVettedSent
<1>2. QED BY <1>1, Invariance, PTL

\* A forced generation commits no candidate SELECTED: its flushed SELECTED exists
\* only while that candidate is in hand, and the commit has none in hand.
THEOREM ForceSettlesAll == Spec => ForceLeavesNoneSelected
<1>1. IInv => (FoCommit => \A c \in Touched : status'[c] # "SELECTED")
  <2> SUFFICES ASSUME IInv, FoCommit, NEW c \in Touched PROVE status'[c] # "SELECTED"
    OBVIOUS
  <2>1. c \in Candidates /\ draft[c] # "same" /\ status'[c] = draft[c]
    BY DEF Touched, FoCommit, OwnView
  <2>2. draft[c] # "SELECTED"
    BY <2>1 DEF FoCommit, IInv, DraftStatus
  <2>3. QED BY <2>1, <2>2
<1>2. QED BY <1>1, Invariance, PTL DEF ForceLeavesNoneSelected
=============================================================================
