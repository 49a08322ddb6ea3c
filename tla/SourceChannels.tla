--------------------------- MODULE SourceChannels ---------------------------
(***************************************************************************)
(* The source channels: how their posts are read, and how they are trusted.*)
(* The two touch different columns of the row and are looked at apart.     *)
(***************************************************************************)
EXTENDS Ingest, SourceTrust

VARIABLE
    part            \* what is looked at

vars == <<part, ingestVars, trustVars>>

TypeOK ==
    /\ part \in {"reading", "trust"}
    /\ IngestTypeOK
    /\ TrustTypeOK

\* The part not looked at stays in one of its initial states: a scene without a
\* source, the widest bounds.
Init ==
    /\ IngestInit /\ TrustInit
    /\ \/ part = "reading" /\ bounds = [min |-> 0, max |-> Highest] /\ trust = Highest
       \/ part = "trust" /\ Read = {}

ReadingStep == part = "reading" /\ IngestNext /\ UNCHANGED <<part, trustVars>>
TrustStep == part = "trust" /\ TrustNext /\ UNCHANGED <<part, ingestVars>>

Next == ReadingStep \/ TrustStep

Reading(A) == part = "reading" /\ A /\ UNCHANGED <<part, trustVars>>
Trusting(A) == part = "trust" /\ A /\ UNCHANGED <<part, ingestVars>>

\* The backfill comes every 15 minutes, every reader of the history is answered or
\* fails in the end; ticks follow each other, each with a session of its own, which
\* is committed or rolled back, and posts go on being rewritten.
Fairness ==
    /\ WF_vars(Reading(BfStart("tick") \/ BfWork("tick")))
    /\ WF_vars(Reading(BfWork("manual")))
    /\ WF_vars(Trusting(Load("tick")))
    /\ WF_vars(Trusting(\E j \in Judges : CommitTrust(j)))
    /\ SF_vars(Trusting(Adjust("tick", "success")))

Spec == Init /\ [][Next]_vars /\ Fairness

-----------------------------------------------------------------------------
\* The watermark passes no message over: from the first scan on, each message up to
\* it is a candidate, or was refused while the source was off
\* (backfill.py: the watermark moves even if nothing was received).
WatermarkSound ==
    \A s \in Sources :
        source[s].mark # 0 =>
            \A m \in horizon[s] .. source[s].mark : m \in rows[s] \union missed[s]

\* A failure in one source costs the tick nothing it has read from those before
\* (backfill_job: "commit per source").
TickHoldsOneSource ==
    \A e, f \in bf["tick"].pending : e[1] = f[1]

\* Whatever the live reader loses, every message of a source that stays switched on
\* becomes a candidate in the end, from the first scan on.
EveryPostArrives ==
    <>[](part = "reading" =>
            \A s \in Read : \A m \in Upper(horizon[s], 1) .. posted[s] : m \in rows[s] \union missed[s])

\* A source is able to climb out of the lowest trust, whatever sessions with older
\* values have written over it (trust_score.py, on the lower bound).
ClimbsOut == <>[](part = "trust" => trust = bounds.max)
=============================================================================
