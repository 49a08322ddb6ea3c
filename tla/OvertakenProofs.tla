--------------------------- MODULE OvertakenProofs ---------------------------
(***************************************************************************)
(* Overtaken for any candidates and operators: over which rows the scoring *)
(* tick may write. Every step is one of Pipeline's, so IInv holds here too.*)
(***************************************************************************)
EXTENDS Overtaken, PipelineProofs

\* The candidates a session other than the scoring tick has in hand, or will take up
\* without reading their status again.
Held(c) ==
    \/ c \in queue
    \/ c \in {rw.post, rw.other, pub.post}
    \/ \E o \in Operators : c \in req[o].posts

\* What is in hand is in the table, and NEW or SCORING only if it was put back; what is
\* on the tick's list is no longer NEW or SCORING only if it was moved since.
Watching(c) ==
    /\ Held(c) => status[c] # "ABSENT" /\ (status[c] \in Unscored => c \in overtaken)
    /\ c \in due => status[c] \in Unscored \/ c \in overtaken

OvertakenInv ==
    /\ IInv
    /\ \A c \in Candidates : Watching(c)
    /\ probing # NoPost => probing \in due

\* Those that the step adds, or that were there.
Seen == overtaken \union CommittedByForce \union RescoredBack

-----------------------------------------------------------------------------
\* A row the step does not write.
LEMMA RowKept ==
    ASSUME NEW c, Watching(c), Watched, status'[c] = status[c],
           Held(c)' => Held(c) \/ status[c] \notin Unscored \union {"ABSENT"},
           c \in due' => c \in due \/ status[c] \in Unscored
    PROVE  Watching(c)'
  BY DEF Watching, Watched

\* A row moved out of NEW and SCORING: not one on the tick's list, unless it is noted.
LEMMA RowMovedOn ==
    ASSUME NEW c, Watched, status'[c] \notin Unscored \union {"ABSENT"}, c \in due' => c \in Seen
    PROVE  Watching(c)'
  BY DEF Watching, Watched, Seen

\* A row that is NEW or SCORING now: nobody's in hand, unless it is noted.
LEMMA RowPutBack ==
    ASSUME NEW c, Watched, status'[c] \in Unscored, Held(c)' => c \in Seen
    PROVE  Watching(c)'
  BY DEF Watching, Watched, Seen, Unscored

LEMMA OvertakenInitial == OvertakenInit => OvertakenInv
<1> SUFFICES ASSUME OvertakenInit PROVE OvertakenInv
  OBVIOUS
<1>1. IInv
  BY InitIInv DEF OvertakenInit
<1>2. \A c \in Candidates : ~Held(c) /\ c \notin due
  BY StoreAssumption DEF OvertakenInit, Init, RewriteInit, RwAt, PublishInit, PubIdle, ReviewInit, NoRequest,
     ScoreInit, Held
<1>3. probing = NoPost
  BY DEF OvertakenInit, Init, ScoreInit
<1>4. QED
  BY <1>1, <1>2, <1>3 DEF OvertakenInv, Watching

-----------------------------------------------------------------------------
\* Arrivals, and posts met again: put back to SCORING, they are noted.
LEMMA IntakeWatched == OvertakenInv /\ IntakeStep /\ Watched => \A c \in Candidates : Watching(c)'
<1> SUFFICES ASSUME OvertakenInv, IntakeStep, Watched, NEW c \in Candidates PROVE Watching(c)'
  OBVIOUS
<1>1. Watching(c) /\ TypeOK
  BY DEF OvertakenInv, IInv
<1>2. UNCHANGED <<due, queue, rw, pub, req>>
  BY DEF IntakeStep, scoreVars, rewriteVars, reviewVars
<1>3. Held(c)' = Held(c)
  BY <1>2 DEF Held
<1>4. CASE status'[c] = status[c]
  BY <1>1, <1>2, <1>3, <1>4, RowKept
<1>5. CASE status'[c] # status[c] /\ status[c] = "ABSENT"
  <2>1. ~Held(c) /\ (c \in due => c \in overtaken)
    BY <1>1, <1>5 DEF Watching, Unscored
  <2>2. status'[c] \in {"NEW", "SCORING", "REJECTED", "PENDING_REVIEW"}
    BY <1>1, <1>5 DEF IntakeStep, IntakeNext, Receive, SeeAgain, Rescore, PassOver, InsertDigest, store,
       TypeOK, StoreTypeOK
  <2>3. QED
    BY <1>2, <1>3, <2>1, <2>2, RowPutBack, RowMovedOn DEF Unscored, Seen
<1>6. CASE status'[c] # status[c] /\ status[c] # "ABSENT"
  <2>1. Rescore /\ c = again /\ status'[c] = "SCORING"
    BY <1>1, <1>6 DEF IntakeStep, IntakeNext, Receive, SeeAgain, Rescore, PassOver, InsertDigest, store,
       TypeOK, StoreTypeOK, IntakeTypeOK
  <2>2. status[c] \notin Unscored => c \in RescoredBack
    BY <2>1 DEF RescoredBack
  <2>3. Held(c)' => c \in Seen
    BY <1>1, <1>3, <2>2 DEF Watching, Seen
  <2>4. QED
    BY <2>1, <2>3, RowPutBack DEF Unscored
<1>7. QED
  BY <1>4, <1>5, <1>6

\* The scoring tick lists rows as they are, and writes a row it takes off its list.
LEMMA ScoreWatched ==
    OvertakenInv /\ ScoreStep /\ Watched =>
        /\ \A c \in Candidates : Watching(c)'
        /\ probing' # NoPost => probing' \in due'
<1> SUFFICES ASSUME OvertakenInv, ScoreStep, Watched
             PROVE  /\ \A c \in Candidates : Watching(c)'
                    /\ probing' # NoPost => probing' \in due'
  OBVIOUS
<1>1. UNCHANGED <<queue, rw, pub, req>> /\ ScoreNext
  BY DEF ScoreStep, rewriteVars, reviewVars
<1>2. TypeOK /\ \A c \in Candidates : Watching(c)
  BY DEF OvertakenInv, IInv
<1>3. probing' # NoPost => probing' \in due'
  BY <1>1 DEF OvertakenInv, ScoreNext, ScoreTick, ScoreProbe, ScorePass, ScoreFail, ScoreWrite
<1>4. ASSUME NEW c \in Candidates PROVE Watching(c)'
  <2>1. Held(c)' = Held(c)
    BY <1>1 DEF Held
  <2>2. CASE status'[c] = status[c]
    <3>1. c \in due' => c \in due \/ status[c] \in Unscored
      BY <1>1 DEF ScoreNext, ScoreTick, ScoreProbe, ScorePass, ScoreFail, ScoreWrite
    <3>2. QED
      BY <1>2, <2>1, <2>2, <3>1, RowKept
  <2>3. CASE status'[c] # status[c]
    <3>1. ScoreWrite
      BY <1>1, <2>3 DEF ScoreNext, ScoreTick, ScoreProbe, ScorePass, ScoreFail, store
    <3>2. c = probing /\ c \notin due' /\ c \in due
      BY <1>2, <2>3, <3>1 DEF ScoreWrite, TypeOK, StoreTypeOK, OvertakenInv
    <3>3. status'[c] \in {"SCORING", "SELECTED", "REJECTED"}
      <4>1. PICK counted \in BOOLEAN, passes \in BOOLEAN, matured \in BOOLEAN :
               LET v == Verdict(view[c], counted, passes, matured)
               IN  status' = [status EXCEPT ![c] = IF v # view[c] THEN v ELSE @]
        BY <3>1, <3>2 DEF ScoreWrite
      <4>2. Verdict(view[c], counted, passes, matured) \in {view[c], "SCORING", "SELECTED", "REJECTED"}
        BY DEF Verdict
      <4>3. QED
        BY <1>2, <2>3, <4>1, <4>2 DEF TypeOK, StoreTypeOK
    <3>4. Held(c)' /\ status'[c] \in Unscored => c \in Seen
      BY <1>2, <2>1, <3>2 DEF Watching, Seen
    <3>5. QED
      BY <3>2, <3>3, <3>4, RowPutBack, RowMovedOn DEF Unscored
  <2>4. QED
    BY <2>2, <2>3
<1>5. QED
  BY <1>3, <1>4

\* The rewriting tick takes up SELECTED rows and demotes published or ready ones.
LEMMA RewriteWatched == OvertakenInv /\ RewriteStep /\ Watched => \A c \in Candidates : Watching(c)'
<1> SUFFICES ASSUME OvertakenInv, RewriteStep, Watched, NEW c \in Candidates PROVE Watching(c)'
  OBVIOUS
<1>1. UNCHANGED <<due, pub, req>> /\ (RewriteNext \/ RewriteIsVictim)
  BY DEF RewriteStep, scoreVars, reviewVars
<1>2. Watching(c) /\ TypeOK /\ c # NoPost
  BY StoreAssumption DEF OvertakenInv, IInv
<1>3. CASE status'[c] = status[c]
  <2>1. (c \in queue' \/ c \in {rw'.post, rw'.other}) =>
            c \in queue \/ c \in {rw.post, rw.other} \/ status[c] \in {"SELECTED", "REWRITTEN", "PUBLISHED"}
    BY <1>1, <1>2 DEF RewriteNext, RewriteIsVictim, RwSession, RwTick, RwStop, RwNext, RwUnique, RwWeaker,
       RwStronger, RwDemote, RwDone, RwFail, RwGenerate, RwRollback, RwAt, SimilarTo, Comparable
  <2>2. Held(c)' => Held(c) \/ status[c] \notin Unscored \union {"ABSENT"}
    BY <1>1, <2>1 DEF Held, Unscored
  <2>3. QED
    BY <1>1, <1>2, <1>3, <2>2, RowKept
<1>4. CASE status'[c] # status[c]
  <2>1. RwWeaker \/ RwDone
    BY <1>1, <1>4 DEF RewriteNext, RewriteIsVictim, RwSession, RwTick, RwStop, RwNext, RwUnique,
       RwStronger, RwDemote, RwFail, RwGenerate, RwRollback, store
  <2>2. c \in {rw.post, rw.other} /\ status'[c] \in {"DUPLICATE", "PENDING_REVIEW", "REWRITTEN"}
    BY <1>2, <1>4, <2>1 DEF RwWeaker, RwDone, RewrittenStatus, TypeOK, StoreTypeOK
  <2>3. c \in due' => c \in Seen
    BY <1>1, <1>2, <2>2 DEF Watching, Held, Seen
  <2>4. QED
    BY <2>2, <2>3, RowMovedOn DEF Unscored
<1>5. QED
  BY <1>3, <1>4

\* A forced generation: every row its commit moves is noted, but one it has inserted.
LEMMA ForceWatched == OvertakenInv /\ ForceStep /\ Watched => \A c \in Candidates : Watching(c)'
<1> SUFFICES ASSUME OvertakenInv, ForceStep, Watched, NEW c \in Candidates PROVE Watching(c)'
  OBVIOUS
<1>1. UNCHANGED <<due, queue, rw, pub, req>> /\ (ForceNext \/ ForceIsVictim)
  BY DEF ForceStep, jobVars, scoreVars, rewriteVars, reviewVars
<1>2. Watching(c) /\ TypeOK /\ DraftStatus
  BY DEF OvertakenInv, IInv
<1>3. Held(c)' = Held(c)
  BY <1>1 DEF Held
<1>4. CASE status'[c] = status[c]
  BY <1>1, <1>2, <1>3, <1>4, RowKept
<1>5. CASE status'[c] # status[c]
  <2>1. FoCommit
    BY <1>1, <1>5 DEF ForceNext, ForceIsVictim, FoSession, FoStart, FoInsert, FoSeen, FoNext, FoRescore,
       FoList, FoNothing, FoTake, FoUnique, FoWeaker, FoStronger, FoDemote, FoRewritten, FoUnsuitable,
       FoFailed, FoSettle, FoAbort, store
  <2>2. status'[c] = draft[c] /\ draft[c] # "same" /\ c \in Touched
    BY <1>5, <2>1 DEF FoCommit, OwnView, Touched
  <2>3. draft[c] # "ABSENT"
    BY <1>2 DEF DraftStatus
  <2>4. CASE draft[c] \notin Unscored
    <3>1. c \in CommittedByForce
      BY <2>1, <2>2, <2>4 DEF CommittedByForce
    <3>2. QED
      BY <2>2, <2>3, <2>4, <3>1, RowMovedOn DEF Seen
  <2>5. CASE draft[c] \in Unscored
    <3>1. status[c] \in Unscored \/ status[c] = "ABSENT" \/ c \in CommittedByForce
      BY <2>1, <2>2 DEF CommittedByForce
    <3>2. Held(c)' => c \in Seen
      BY <1>2, <1>3, <3>1 DEF Watching, Seen
    <3>3. QED
      BY <2>2, <2>5, <3>2, RowPutBack
  <2>6. QED
    BY <2>4, <2>5
<1>6. QED
  BY <1>4, <1>5

\* The publisher picks ready rows.
LEMMA PublishWatched == OvertakenInv /\ PublishStep /\ Watched => \A c \in Candidates : Watching(c)'
<1> SUFFICES ASSUME OvertakenInv, PublishStep, Watched, NEW c \in Candidates PROVE Watching(c)'
  OBVIOUS
<1>1. UNCHANGED <<due, queue, rw, req>> /\ PublishNext
  BY DEF PublishStep, scoreVars, rewriteVars, reviewVars
<1>2. Watching(c) /\ TypeOK /\ c # NoPost
  BY StoreAssumption DEF OvertakenInv, IInv
<1>3. CASE status'[c] = status[c]
  <2>1. c = pub'.post => c = pub.post \/ status[c] = "REWRITTEN"
    BY <1>1, <1>2 DEF PublishNext, PubSession, PubPick, PubSend, PubCommit, PubFail, PubIdle,
       TypeOK, PublishTypeOK
  <2>2. Held(c)' => Held(c) \/ status[c] \notin Unscored \union {"ABSENT"}
    BY <1>1, <2>1 DEF Held, Unscored
  <2>3. QED
    BY <1>1, <1>2, <1>3, <2>2, RowKept
<1>4. CASE status'[c] # status[c]
  <2>1. PubCommit
    BY <1>1, <1>4 DEF PublishNext, PubSession, PubPick, PubSend, PubFail, store
  <2>2. c = pub.post /\ status'[c] = "PUBLISHED"
    BY <1>2, <1>4, <2>1 DEF PubCommit, TypeOK, StoreTypeOK
  <2>3. c \in due' => c \in Seen
    BY <1>1, <1>2, <2>2 DEF Watching, Held, Seen
  <2>4. QED
    BY <2>2, <2>3, RowMovedOn DEF Unscored
<1>5. QED
  BY <1>3, <1>4

\* An operator decides on rows of which the status was read: none of them was NEW.
LEMMA ReviewWatched == OvertakenInv /\ ReviewStep /\ Watched => \A c \in Candidates : Watching(c)'
<1> SUFFICES ASSUME OvertakenInv, ReviewStep, Watched, NEW c \in Candidates PROVE Watching(c)'
  OBVIOUS
<1>1. UNCHANGED <<due, queue, rw, pub>>
  BY DEF ReviewStep, jobVars, scoreVars, rewriteVars
<1>2. Watching(c) /\ TypeOK
  BY DEF OvertakenInv, IInv
<1>3. PICK o \in Operators : Decide(o) \/ Decided(o) \/ Dropped(o)
  BY DEF ReviewStep, ReviewNext
<1>4. \A p \in Operators \ {o} : req'[p] = req[p]
  BY <1>2, <1>3 DEF Decide, Decided, Dropped, TypeOK, ReviewTypeOK
<1>5. CASE status'[c] = status[c]
  <2>1. c \in req'[o].posts =>
            c \in req[o].posts \/ status[c] \in {"PENDING_REVIEW", "REWRITTEN", "REJECTED"}
    <3>1. CASE Decide(o)
      BY <1>2, <3>1 DEF Decide, Expected, WithStatus, Restorable, TypeOK, ReviewTypeOK
    <3>2. CASE Decided(o) \/ Dropped(o)
      BY <1>2, <3>2 DEF Decided, Dropped, NoRequest, TypeOK, ReviewTypeOK
    <3>3. QED
      BY <1>3, <3>1, <3>2
  <2>2. Held(c)' => Held(c) \/ status[c] \notin Unscored \union {"ABSENT"}
    BY <1>1, <1>4, <2>1 DEF Held, Unscored
  <2>3. QED
    BY <1>1, <1>2, <1>5, <2>2, RowKept
<1>6. CASE status'[c] # status[c]
  <2>1. Decided(o)
    BY <1>3, <1>6 DEF Decide, Dropped, store
  <2>2. c \in req[o].posts /\ status'[c] = Written(req[o].op, status[c])
    BY <1>6, <2>1 DEF Decided
  <2>3. status'[c] \in {"REWRITTEN", "PENDING_REVIEW", "REJECTED"}
    BY <1>6, <2>2 DEF Written
  <2>4. c \in due' => c \in Seen
    BY <1>1, <1>2, <2>2 DEF Watching, Held, Seen
  <2>5. QED
    BY <2>3, <2>4, RowMovedOn DEF Unscored
<1>7. QED
  BY <1>5, <1>6

LEMMA RestartWatched == OvertakenInv /\ RestartStep /\ Watched => \A c \in Candidates : Watching(c)'
<1> SUFFICES ASSUME OvertakenInv, RestartStep, Watched, NEW c \in Candidates PROVE Watching(c)'
  OBVIOUS
<1>1. due' = {} /\ status' = status /\ queue' = {} /\ rw' = RwAt("idle", NoPost, NoPost)
      /\ pub' = PubIdle /\ req' = req
  BY DEF RestartStep, SchedulerRestart, reviewVars
<1>2. Watching(c) /\ c # NoPost
  BY StoreAssumption DEF OvertakenInv
<1>3. Held(c)' => Held(c)
  BY <1>1, <1>2 DEF Held, RwAt, PubIdle
<1>4. QED
  BY <1>1, <1>2, <1>3, RowKept

-----------------------------------------------------------------------------
LEMMA OvertakenSteps == OvertakenInv /\ [OvertakenNext]_<<vars, overtaken>> => OvertakenInv'
<1> SUFFICES ASSUME OvertakenInv, [OvertakenNext]_<<vars, overtaken>> PROVE OvertakenInv'
  OBVIOUS
<1>1. CASE UNCHANGED <<vars, overtaken>>
  <2>1. IInv'
    BY <1>1 DEF vars, OvertakenInv, IInv, Pointers, WordedHasText, HeldHasText, DraftStatus, ReadyIsVetted,
       store, scoreVars, rewriteVars, forceVars, reviewVars, jobVars, TypeOK, StoreTypeOK, IntakeTypeOK,
       ScoreTypeOK, RewriteTypeOK, ForceTypeOK, PublishTypeOK, ReviewTypeOK
  <2>2. \A c \in Candidates : Watching(c)' = Watching(c)
    BY <1>1 DEF vars, Watching, Held, store, jobVars, scoreVars, rewriteVars, reviewVars
  <2>3. UNCHANGED <<probing, due>>
    BY <1>1 DEF vars, jobVars, scoreVars
  <2>4. QED
    BY <2>1, <2>2, <2>3 DEF OvertakenInv
<1>2. CASE OvertakenNext
  <2>1. IInv'
    BY <1>2, IntakeStepIInv, ScoreStepIInv, RewriteStepIInv, ForceStepIInv, PublishStepIInv,
       ReviewStepIInv, RestartStepIInv DEF OvertakenNext, OvertakenInv
  <2>2. \A c \in Candidates : Watching(c)'
    BY <1>2, IntakeWatched, ScoreWatched, RewriteWatched, ForceWatched, PublishWatched,
       ReviewWatched, RestartWatched DEF OvertakenNext
  <2>3. probing' # NoPost => probing' \in due'
    <3>1. CASE ScoreStep /\ Watched
      BY <3>1, ScoreWatched
    <3>2. CASE RestartStep
      BY <3>2 DEF RestartStep, SchedulerRestart
    <3>3. CASE IntakeStep \/ RewriteStep \/ ForceStep \/ PublishStep \/ ReviewStep
      <4>1. UNCHANGED <<probing, due>>
        BY <3>3 DEF IntakeStep, RewriteStep, ForceStep, PublishStep, ReviewStep, scoreVars, jobVars
      <4>2. QED
        BY <4>1 DEF OvertakenInv
    <3>4. QED
      BY <1>2, <3>1, <3>2, <3>3 DEF OvertakenNext
  <2>4. QED
    BY <2>1, <2>2, <2>3 DEF OvertakenInv
<1>3. QED
  BY <1>1, <1>2

\* The scoring tick writes only over rows that are still NEW or SCORING, or that a forced
\* generation has moved since the tick began, or a backfill has put back before
\* (scoring.py; score_refresh_job), for any candidates, operators and components at work.
THEOREM OnlyOvertakenIsWrittenOver == OvertakenSpec => ScoreOvertakesOnlyOvertaken
<1>1. OvertakenInv /\ [OvertakenNext]_<<vars, overtaken>> =>
        [\A c \in Candidates :
            (ScoreWrite /\ c = probing /\ status'[c] # status[c])
                => status[c] \in Unscored \/ c \in overtaken]_<<vars, overtaken>>
  BY DEF OvertakenInv, Watching, ScoreWrite
<1>2. QED
  BY <1>1, OvertakenInitial, OvertakenSteps, PTL DEF OvertakenSpec, ScoreOvertakesOnlyOvertaken
=============================================================================
