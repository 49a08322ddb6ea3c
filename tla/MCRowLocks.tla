----------------------------- MODULE MCRowLocks -----------------------------
(* The sessions that hold several rows at once, started on a theme whose posts *)
(* have all been received and are being scored.                               *)
EXTENDS Pipeline

ReceivedInit ==
    /\ status = [c \in Candidates |-> "SCORING"]
    /\ text = [c \in Candidates |-> "none"]
    /\ embedded = {}
    /\ lock = [c \in Candidates |-> "free"]
    /\ IntakeInit
    /\ ScoreInit
    /\ RewriteInit
    /\ ForceInit
    /\ PublishInit
    /\ ReviewInit

ReceivedNext ==
    \/ ScoreStep
    \/ RewriteStep
    \/ ForceStep

ReceivedSpec == ReceivedInit /\ [][ReceivedNext]_vars /\ Fairness
=============================================================================
