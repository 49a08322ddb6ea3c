------------------------------ MODULE Spending ------------------------------
(***************************************************************************)
(* Everything that pays for the model in the background or on demand, on   *)
(* one account: daily batches and their replacements, and quality runs.    *)
(***************************************************************************)
EXTENDS DailyBatch, QualityRun

CONSTANT
    AtWork          \* the sets of payers that may be at work together

ASSUME SpendingAssumption == AtWork \subseteq SUBSET Payers

VARIABLE
    part            \* the payers at work

vars == <<part, batchVars, qualityVars, usageVars>>

TypeOK ==
    /\ part \in AtWork
    /\ UsageTypeOK
    /\ BatchTypeOK
    /\ QualityTypeOK

Init == part \in AtWork /\ UsageInit /\ BatchInit /\ QualityInit

Busy == BatchBusy \union (IF work.pc = "idle" THEN {} ELSE {"quality"})

BatchStep == BatchNext(part) /\ UNCHANGED <<part, qualityVars>>
QualityStep == "quality" \in part /\ QualityNext /\ UNCHANGED <<part, batchVars>>
MidnightStep == Midnight(Busy) /\ UNCHANGED <<part, qualityVars>>

Next == BatchStep \/ QualityStep \/ MidnightStep

\* A tick of quality_run_job comes again and again, and what it asks is answered or
\* fails in the end (the client's timeouts); restarts are bounded by MaxStops.
Fairness == WF_vars("quality" \in part /\ QuWork /\ UNCHANGED <<part, batchVars>>)

Spec == Init /\ [][Next]_vars /\ Fairness

-----------------------------------------------------------------------------
\* However often the tick fails after the model has answered, no rewrite it paid
\* for is missing from the account but those a restart interrupted; and none is
\* counted twice but where its card failed, or midnight fell before the failure
\* (scheduler.py: lost_usage). The answer that classifies a rewrite is not among what is
\* kept for a rollback: it is lost with it, and not counted here.
TickPaidIsBooked == missing["tick"] <= restarts /\ missing["tick"] >= -(cards + 1)

\* A quality run loses the account of one pair at most each time it is cut short.
QualityLossBounded == missing["quality"] \in 0 .. 4 * stops

\* A request pays for an answer to classify each post of its pool, and for two for each
\* post it was asked for.
RequestCost == PoolSize + 2 * BatchSize

\* The limit stops everything that is repeated: requests and pairs that pass the
\* check together may exceed it, but by no more than each can spend in one go
\* (llm_budget.py: the check before the calls that spend).
Allowance == Cardinality(Requests) * RequestCost + Cardinality(Posts) * 2 + 4

OvershootBounded == Limit > 0 => booked < Limit + Allowance + cards

\* A finished run has a verdict on every pair, and its numbers are those verdicts',
\* also when it was resumed with pairs judged before a restart.
DoneIsComplete ==
    \A r \in Runs : run[r].status = "done" =>
        /\ \A p \in Pairs : verdict[r][p] # "none"
        /\ run[r].baseline + run[r].variant + run[r].ties = Cardinality(Pairs)
        /\ run[r].baseline = Wins(r, "baseline") /\ run[r].variant = Wins(r, "variant")

\* A verdict is what the judge saw in the texts: one that goes by the position
\* never makes a winner, whichever text the draw shows first.
VerdictIsTheJudges ==
    \A r \in Runs, p \in Pairs :
        verdict[r][p] # "none" =>
            verdict[r][p] = IF leaning[r][p] \in {"baseline", "variant"} THEN leaning[r][p] ELSE "tie"

\* A pair that has been judged, and paid for, is not judged again after a restart.
JudgedOnce ==
    [][\A r \in Runs, p \in Pairs :
         verdict[r][p] # "none" =>
             /\ verdict'[r][p] = verdict[r][p]
             /\ ~ (work'.pc = "ask" /\ work'.of = r /\ work'.pair = p)]_vars

\* The tick makes no more posts of a batch than were ordered: beyond that come only
\* those that requests and restores have added since it read the debt.
OrderNotOverfilled ==
    [][(TkDone /\ tick.today = tick.date) =>
         Cardinality(AliveIn(tick.today)') <= tick.size + Cardinality(crowd)]_vars

\* An ordered quality run ends: done, failed or deleted (quality_run_job's docstring:
\* runs left running by a restart are taken up again).
OrderedRunEnds ==
    \A r \in Runs : run[r].status \in {"pending", "running"}
                        ~> run[r].status \notin {"pending", "running"}
=============================================================================
