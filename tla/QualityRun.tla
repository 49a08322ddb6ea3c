----------------------------- MODULE QualityRun -----------------------------
(***************************************************************************)
(* Rewrite quality runs (core/services/rewrite_quality.py, ordered in      *)
(* routers/rewrite_quality.py, executed by quality_run_job): every source  *)
(* text is rewritten by two personas and a judge compares the results      *)
(* twice, the second time in the other order. One transaction per pair.    *)
(***************************************************************************)
EXTENDS LlmUsage

CONSTANTS
    Runs,           \* the runs, numbered in the order they are created in
    Pairs,          \* the source texts of each run
    MaxStops        \* bound: errors and restarts in a run

ASSUME QualityAssumption ==
    /\ Runs \subseteq Nat /\ IsFiniteSet(Runs) /\ IsFiniteSet(Pairs)
    /\ MaxStops \in Nat

VARIABLES
    run,            \* the committed row of each run
    verdict,        \* the committed verdict on each pair
    leaning,        \* what the judge of each pair went by
    work,           \* the pair in hand and the answers received for it
    stops           \* times the work on a run was cut short so far

qualityVars == <<run, verdict, leaning, work, stops>>

RunStatus == {"none", "pending", "running", "done", "failed", "deleted"}
Verdict == {"baseline", "variant", "tie"}
\* A judge sees a difference, none, or goes by the position alone.
Leaning == Verdict \union {"first", "second"}

QualityTypeOK ==
    /\ run \in [Runs -> [status : RunStatus, baseline : Nat, variant : Nat, ties : Nat]]
    /\ verdict \in [Runs -> [Pairs -> Verdict \union {"none"}]]
    /\ leaning \in [Runs -> [Pairs -> Leaning \union {"none", "refused"}]]
    /\ work \in [pc : {"idle", "loop", "ask"}, of : Runs \union {0},
                 todo : SUBSET Pairs, pair : Pairs \union {"none"}, answers : 0 .. 4]
    /\ stops \in Nat

Resting == [pc |-> "idle", of |-> 0, todo |-> {}, pair |-> "none", answers |-> 0]

QualityInit ==
    /\ run = [r \in Runs |-> [status |-> "none", baseline |-> 0, variant |-> 0, ties |-> 0]]
    /\ verdict = [r \in Runs |-> [p \in Pairs |-> "none"]]
    /\ leaning = [r \in Runs |-> [p \in Pairs |-> "none"]]
    /\ work = Resting
    /\ stops = 0

Status(r, s) == run' = [run EXCEPT ![r].status = s]
Alive(r) == run[r].status # "deleted"

\* create_run: the sources are copied into the pairs, nothing is counted yet.
QuCreate(r) ==
    /\ run[r].status = "none" /\ \A q \in Runs : q < r => run[q].status # "none"
    /\ Status(r, "pending")
    /\ UNCHANGED <<verdict, leaning, work, stops, usageVars>>

\* delete_run asks nothing about the run's status; the pairs go with it.
QuDelete(r) ==
    /\ run[r].status \notin {"none", "deleted"}
    /\ Status(r, "deleted")
    /\ UNCHANGED <<verdict, leaning, work, stops, usageVars>>

\* Mutant of Waiting: runs a restart has left RUNNING are not looked for.
WaitingNew == {r \in Runs : run[r].status = "pending"}

\* quality_run_job: the oldest run pending, or left running by a restart. The pairs
\* are loaded once, and those that have a verdict passed over.
Waiting == {r \in Runs : run[r].status \in {"pending", "running"}}

\* Mutant of Unjudged: a resumed run begins again.
EveryPair(r) == Pairs

Unjudged(r) == {p \in Pairs : verdict[r][p] = "none"}

QuStart ==
    /\ work.pc = "idle"
    /\ \E r \in Waiting :
          /\ \A q \in Waiting : r <= q
          /\ Status(r, "running")
          /\ work' = [Resting EXCEPT !.pc = "loop", !.of = r, !.todo = Unjudged(r)]
    /\ UNCHANGED <<verdict, leaning, stops, usageVars>>

\* ensure_budget before every pair.
QuPair ==
    /\ work.pc = "loop" /\ ~Exceeded
    /\ \E p \in work.todo :
          work' = [work EXCEPT !.pc = "ask", !.pair = p, !.todo = @ \ {p}, !.answers = 0]
    /\ UNCHANGED <<run, verdict, leaning, stops, usageVars>>

\* The two rewrites, then the two judgements.
QuAnswer ==
    /\ work.pc = "ask" /\ work.answers < 4
    /\ work' = [work EXCEPT !.answers = @ + 1]
    /\ Charge("quality", 1)
    /\ UNCHANGED <<run, verdict, leaning, stops>>

\* What a judge of leaning l answers, shown the baseline's text first or second.
Winner(l, baselineFirst) ==
    CASE l \in {"first", "second", "tie"} -> l
      [] l = "baseline" -> IF baselineFirst THEN "first" ELSE "second"
      [] l = "variant"  -> IF baselineFirst THEN "second" ELSE "first"

\* Mutant of ToVerdict: the order the texts were shown in is forgotten.
ToVerdictUnswapped(winner, firstIsBaseline) ==
    CASE winner = "tie"    -> "tie"
      [] winner = "first"  -> "baseline"
      [] winner = "second" -> "variant"

\* _to_verdict: from positions back to personas.
ToVerdict(winner, firstIsBaseline) ==
    CASE winner = "tie"    -> "tie"
      [] winner = "first"  -> IF firstIsBaseline THEN "baseline" ELSE "variant"
      [] winner = "second" -> IF firstIsBaseline THEN "variant" ELSE "baseline"

\* resolve_pair: verdicts that differ are a tie.
ResolvePair(direct, swapped) == IF direct = swapped THEN direct ELSE "tie"

Judged(l, baselineFirst) ==
    ResolvePair(ToVerdict(Winner(l, baselineFirst), baselineFirst),
                ToVerdict(Winner(l, ~baselineFirst), ~baselineFirst))

\* Mutant of QuStore: the pairs are not committed one by one.
QuStoreOpen(l, v) ==
    /\ Alive(work.of)
    /\ verdict' = [verdict EXCEPT ![work.of][work.pair] = v]
    /\ leaning' = [leaning EXCEPT ![work.of][work.pair] = l]
    /\ work' = [work EXCEPT !.pc = "loop", !.pair = "none", !.answers = 0]
    /\ UNCHANGED <<run, stops, usageVars>>

\* The pair's verdict v, by leaning l, and its transaction committed.
QuStore(l, v) ==
    /\ Alive(work.of)
    /\ verdict' = [verdict EXCEPT ![work.of][work.pair] = v]
    /\ leaning' = [leaning EXCEPT ![work.of][work.pair] = l]
    /\ work' = [work EXCEPT !.pc = "loop", !.pair = "none", !.answers = 0]
    /\ Book("quality", "quality")
    /\ UNCHANGED <<run, stops>>

QuVerdict ==
    /\ work.pc = "ask" /\ work.answers = 4
    /\ \E l \in Leaning, baselineFirst \in BOOLEAN : QuStore(l, Judged(l, baselineFirst))

\* One of the rewrites was refused, or empty: a tie without asking the judge.
QuRefused == work.pc = "ask" /\ work.answers = 2 /\ QuStore("refused", "tie")

Wins(r, v) == Cardinality({p \in Pairs : verdict[r][p] = v})

\* Mutant of QuDone: the run is closed with whatever has been judged.
QuDoneEarly ==
    /\ work.pc = "loop" /\ Alive(work.of)
    /\ run' = [run EXCEPT ![work.of] =
                  [status |-> "done", baseline |-> Wins(work.of, "baseline"),
                   variant |-> Wins(work.of, "variant"), ties |-> Wins(work.of, "tie")]]
    /\ work' = Resting
    /\ Book("quality", "quality")
    /\ UNCHANGED <<verdict, leaning, stops>>

\* The counts are taken from the pairs, and the run is DONE.
QuDone ==
    /\ work.pc = "loop" /\ work.todo = {} /\ Alive(work.of)
    /\ run' = [run EXCEPT ![work.of] =
                  [status |-> "done", baseline |-> Wins(work.of, "baseline"),
                   variant |-> Wins(work.of, "variant"), ties |-> Wins(work.of, "tie")]]
    /\ work' = Resting
    /\ Book("quality", "quality")
    /\ UNCHANGED <<verdict, leaning, stops>>

\* An error of the model, an exhausted budget, or a row that is no longer there:
\* the pair in hand is rolled back and the run FAILED for good. Of a deleted run
\* not even that can be written, and the job ends with the second error.
QuFail ==
    /\ \/ /\ work.pc = "ask" /\ Alive(work.of) /\ stops < MaxStops
          /\ stops' = stops + 1
       \/ /\ work.pc = "ask" /\ ~Alive(work.of) /\ work.answers \in {2, 4}
          /\ stops' = stops + 1
       \/ /\ work.pc = "loop"
          /\ IF work.todo = {} THEN ~Alive(work.of) ELSE Exceeded
          /\ stops' = stops
    /\ IF Alive(work.of) THEN Status(work.of, "failed") ELSE UNCHANGED run
    /\ work' = Resting
    /\ Drop("quality", "quality")
    /\ UNCHANGED <<verdict, leaning>>

\* The scheduler is restarted: the run stays RUNNING.
QuCrash ==
    /\ work.pc # "idle" /\ stops < MaxStops
    /\ stops' = stops + 1
    /\ work' = Resting
    /\ Drop("quality", "quality")
    /\ UNCHANGED <<run, verdict, leaning>>

QuWork == QuStart \/ QuPair \/ QuAnswer \/ QuVerdict \/ QuRefused \/ QuDone \/ QuFail

QualityNext ==
    \/ \E r \in Runs : QuCreate(r) \/ QuDelete(r)
    \/ QuWork
    \/ QuCrash
=============================================================================
