------------------------------ MODULE Overtaken ------------------------------
(***************************************************************************)
(* Pipeline with one history variable, for what the scoring tick may write *)
(* over: every step is a step of Pipeline.                                 *)
(***************************************************************************)
EXTENDS Pipeline

VARIABLE
    overtaken       \* the candidates another session than the scoring tick has moved out of
                    \* NEW and SCORING, or back into them, while they are there or on the
                    \* tick's list

OvertakenTypeOK == overtaken \in SUBSET Candidates

\* The row a backfill in this step puts back to SCORING from further on.
RescoredBack == {c \in Candidates : Rescore /\ c = again /\ status[c] \notin Unscored}

OvertakenInit == Init /\ overtaken = {}

Watched ==
    overtaken' = {c \in overtaken \union CommittedByForce \union RescoredBack :
                     c \in due' \/ status'[c] \in Unscored}

\* The steps of Pipeline's Next, one by one.
OvertakenNext ==
    \/ IntakeStep /\ Watched
    \/ ScoreStep /\ Watched
    \/ RewriteStep /\ Watched
    \/ ForceStep /\ Watched
    \/ PublishStep /\ Watched
    \/ ReviewStep /\ Watched
    \/ RestartStep /\ Watched

OvertakenSpec == OvertakenInit /\ [][OvertakenNext]_<<vars, overtaken>>

-----------------------------------------------------------------------------
\* The scoring tick writes through objects as old as the tick, yet it changes only
\* rows that are still NEW or SCORING, or rows a forced generation has moved since,
\* or a backfill has put back before: no other session, alone or with others, moves
\* a candidate the tick has in hand.
ScoreOvertakesOnlyOvertaken ==
    [][\A c \in Candidates :
         (ScoreWrite /\ c = probing /\ status'[c] # status[c])
             => status[c] \in Unscored \/ c \in overtaken]_<<vars, overtaken>>
=============================================================================
