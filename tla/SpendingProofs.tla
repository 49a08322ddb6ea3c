---------------------------- MODULE SpendingProofs ----------------------------
(***************************************************************************)
(* Spending for any payers, posts, runs and pairs: quality runs judge each *)
(* pair once and close with a verdict on every one; what the tick and the  *)
(* quality runs have paid for is on the account; the tick does not make    *)
(* more of a day's batch than was ordered, and the limit is exceeded by    *)
(* what had passed the check at most.                                      *)
(***************************************************************************)
EXTENDS Spending, FiniteSetTheorems, TLAPS

\* The steps that are no step of a quality run leave the runs alone.
LEMMA OtherSteps ==
    ASSUME [Next]_vars
    PROVE  QualityNext \/ UNCHANGED qualityVars
  BY DEF Next, vars, BatchStep, QualityStep, MidnightStep

-----------------------------------------------------------------------------
\* A run in hand is running or was deleted; exactly the pairs it has still to do, with the
\* one it asks about, have no verdict.
WorkInv ==
    work.pc # "idle" =>
        /\ work.of \in Runs /\ run[work.of].status \in {"running", "deleted"}
        /\ work.todo \subseteq Pairs
        /\ work.pc = "ask" => work.pair \in Pairs \ work.todo
        /\ \A p \in Pairs :
              verdict[work.of][p] = "none" <=> (p \in work.todo \/ (work.pc = "ask" /\ p = work.pair))

\* The types of the two rows, and of the work.
RowsOK ==
    /\ run \in [Runs -> [status : RunStatus, baseline : Nat, variant : Nat, ties : Nat]]
    /\ verdict \in [Runs -> [Pairs -> Verdict \union {"none"}]]
    /\ leaning \in [Runs -> [Pairs -> Leaning \union {"none", "refused"}]]
    /\ stops \in Nat

WorkOK == work \in [pc : {"idle", "loop", "ask"}, of : Runs \union {0},
                    todo : SUBSET Pairs, pair : Pairs \union {"none"}, answers : 0 .. 4]

RunInv ==
    /\ QualityTypeOK
    /\ WorkInv
    /\ VerdictIsTheJudges
    /\ DoneIsComplete

LEMMA TypesOK == QualityTypeOK <=> RowsOK /\ WorkOK
  BY DEF QualityTypeOK, RowsOK, WorkOK

LEMMA RestingOK == Resting \in [pc : {"idle", "loop", "ask"}, of : Runs \union {0},
                                todo : SUBSET Pairs, pair : Pairs \union {"none"}, answers : 0 .. 4]
  BY DEF Resting

\* Two judgements that agree, and only they, make a winner, wherever the texts stood.
LEMMA JudgedByTexts ==
    ASSUME NEW l \in Leaning, NEW b \in BOOLEAN
    PROVE  /\ Judged(l, b) \in Verdict
           /\ Judged(l, b) = IF l \in {"baseline", "variant"} THEN l ELSE "tie"
<1>1. CASE l = "baseline"
  BY <1>1 DEF Judged, ResolvePair, ToVerdict, Winner, Verdict
<1>2. CASE l = "variant"
  BY <1>2 DEF Judged, ResolvePair, ToVerdict, Winner, Verdict
<1>3. CASE l = "tie"
  BY <1>3 DEF Judged, ResolvePair, ToVerdict, Winner, Verdict
<1>4. CASE l = "first"
  BY <1>4 DEF Judged, ResolvePair, ToVerdict, Winner, Verdict
<1>5. CASE l = "second"
  BY <1>5 DEF Judged, ResolvePair, ToVerdict, Winner, Verdict
<1>6. QED
  BY <1>1, <1>2, <1>3, <1>4, <1>5 DEF Leaning, Verdict

LEMMA WinsNat ==
    ASSUME NEW r, NEW v
    PROVE  Wins(r, v) \in Nat
<1>1. IsFiniteSet({p \in Pairs : verdict[r][p] = v})
  BY QualityAssumption, FS_Subset
<1>2. QED
  BY <1>1, FS_CardinalityType DEF Wins

\* Once every pair has a verdict, the three counts add up to the pairs.
LEMMA CountsAddUp ==
    ASSUME NEW r, \A p \in Pairs : verdict[r][p] \in Verdict
    PROVE  Wins(r, "baseline") + Wins(r, "variant") + Wins(r, "tie") = Cardinality(Pairs)
<1> DEFINE With(v) == {p \in Pairs : verdict[r][p] = v}
<1>1. IsFiniteSet(With("baseline")) /\ IsFiniteSet(With("variant")) /\ IsFiniteSet(With("tie"))
  BY QualityAssumption, FS_Subset
<1>2. /\ With("baseline") \intersect With("variant") = {}
      /\ (With("baseline") \union With("variant")) \intersect With("tie") = {}
      /\ (With("baseline") \union With("variant")) \union With("tie") = Pairs
  BY DEF Verdict
<1>3. /\ IsFiniteSet(With("baseline") \union With("variant"))
      /\ Cardinality(With("baseline") \union With("variant"))
         = Cardinality(With("baseline")) + Cardinality(With("variant"))
  <2>1. /\ IsFiniteSet(With("baseline") \union With("variant"))
        /\ Cardinality(With("baseline") \union With("variant"))
           = Cardinality(With("baseline")) + Cardinality(With("variant")) - Cardinality({})
    BY <1>1, <1>2, FS_Union
  <2>2. /\ Cardinality(With("baseline")) \in Nat /\ Cardinality(With("variant")) \in Nat
        /\ Cardinality({}) = 0
    BY <1>1, FS_CardinalityType, FS_EmptySet
  <2>3. QED
    BY <2>1, <2>2
<1>4. Cardinality(Pairs)
      = Cardinality(With("baseline") \union With("variant")) + Cardinality(With("tie")) - Cardinality({})
  BY <1>1, <1>2, <1>3, FS_Union
<1>5. /\ Cardinality(With("baseline")) \in Nat /\ Cardinality(With("variant")) \in Nat
      /\ Cardinality(With("tie")) \in Nat /\ Cardinality({}) = 0
  BY <1>1, FS_CardinalityType, FS_EmptySet
<1>6. Wins(r, "baseline") = Cardinality(With("baseline")) /\ Wins(r, "variant") = Cardinality(With("variant"))
      /\ Wins(r, "tie") = Cardinality(With("tie"))
  BY DEF Wins
<1>7. QED
  BY <1>3, <1>4, <1>5, <1>6

\* Whatever leaves the verdicts alone and closes no run keeps the promise about done runs.
LEMMA DoneKept ==
    ASSUME RunInv, verdict' = verdict,
           \A r \in Runs : run'[r].status = "done" => run'[r] = run[r]
    PROVE  DoneIsComplete'
<1>1. \A r \in Runs : \A v : Wins(r, v)' = Wins(r, v)
  BY DEF Wins
<1>2. QED
  BY <1>1 DEF RunInv, DoneIsComplete

LEMMA CreateKeepsRuns ==
    ASSUME RunInv, NEW r \in Runs, QuCreate(r)
    PROVE  RunInv'
<1>1. /\ run[r].status = "none" /\ run' = [run EXCEPT ![r].status = "pending"]
      /\ UNCHANGED <<verdict, leaning, work, stops>>
  BY DEF QuCreate, Status
<1>2. QualityTypeOK'
  BY <1>1 DEF RunInv, QualityTypeOK, RunStatus
<1>3. \A q \in Runs : q # r => run'[q] = run[q]
  BY <1>1 DEF RunInv, QualityTypeOK
<1>4. run'[r].status = "pending"
  BY <1>1 DEF RunInv, QualityTypeOK
<1>5. WorkInv'
  BY <1>1, <1>3 DEF RunInv, WorkInv
<1>6. DoneIsComplete'
  BY <1>1, <1>3, <1>4, DoneKept
<1>7. QED
  BY <1>1, <1>2, <1>5, <1>6 DEF RunInv, VerdictIsTheJudges

LEMMA DeleteKeepsRuns ==
    ASSUME RunInv, NEW r \in Runs, QuDelete(r)
    PROVE  RunInv'
<1>1. run' = [run EXCEPT ![r].status = "deleted"] /\ UNCHANGED <<verdict, leaning, work, stops>>
  BY DEF QuDelete, Status
<1>2. QualityTypeOK'
  BY <1>1 DEF RunInv, QualityTypeOK, RunStatus
<1>3. \A q \in Runs : q # r => run'[q] = run[q]
  BY <1>1 DEF RunInv, QualityTypeOK
<1>4. run'[r].status = "deleted"
  BY <1>1 DEF RunInv, QualityTypeOK
<1>5. WorkInv'
  BY <1>1, <1>3, <1>4 DEF RunInv, WorkInv
<1>6. DoneIsComplete'
  BY <1>1, <1>3, <1>4, DoneKept
<1>7. QED
  BY <1>1, <1>2, <1>5, <1>6 DEF RunInv, VerdictIsTheJudges

LEMMA StartKeepsRuns ==
    ASSUME RunInv, QuStart
    PROVE  RunInv'
<1>1. PICK r \in Waiting :
         /\ run' = [run EXCEPT ![r].status = "running"]
         /\ work' = [Resting EXCEPT !.pc = "loop", !.of = r, !.todo = Unjudged(r)]
  BY DEF QuStart, Status
<1>2. UNCHANGED <<verdict, leaning, stops>>
  BY DEF QuStart
<1>3. r \in Runs
  BY DEF Waiting
<1>4. work' = [pc |-> "loop", of |-> r, todo |-> Unjudged(r), pair |-> "none", answers |-> 0]
  BY <1>1 DEF Resting
<1>5. QualityTypeOK'
  <2>1. RowsOK'
    BY <1>1, <1>2, <1>3, TypesOK DEF RunInv, RowsOK, RunStatus
  <2>2. WorkOK'
    BY <1>3, <1>4 DEF WorkOK, Unjudged
  <2>3. QED
    BY <2>1, <2>2 DEF RowsOK, WorkOK, QualityTypeOK
<1>6. \A q \in Runs : q # r => run'[q] = run[q]
  BY <1>1 DEF RunInv, QualityTypeOK
<1>7. run'[r].status = "running"
  BY <1>1, <1>3 DEF RunInv, QualityTypeOK
<1>8. WorkInv'
  BY <1>2, <1>3, <1>4, <1>7 DEF RunInv, WorkInv, Unjudged
<1>9. DoneIsComplete'
  BY <1>2, <1>6, <1>7, DoneKept
<1>10. QED
  BY <1>2, <1>5, <1>8, <1>9 DEF RunInv, VerdictIsTheJudges

LEMMA PairKeepsRuns ==
    ASSUME RunInv, QuPair
    PROVE  RunInv'
<1>1. PICK p \in work.todo :
         work' = [work EXCEPT !.pc = "ask", !.pair = p, !.todo = @ \ {p}, !.answers = 0]
  BY DEF QuPair
<1>2. work.pc = "loop" /\ UNCHANGED <<run, verdict, leaning, stops>>
  BY DEF QuPair
<1>3. /\ work'.pc = "ask" /\ work'.pair = p /\ work'.todo = work.todo \ {p} /\ work'.of = work.of
      /\ p \in Pairs
  BY <1>1 DEF RunInv, QualityTypeOK
<1>4. QualityTypeOK'
  <2>1. RowsOK'
    BY <1>2, TypesOK DEF RunInv, RowsOK
  <2>2. WorkOK
    BY TypesOK DEF RunInv
  <2>3. work' = [pc |-> "ask", of |-> work.of, todo |-> work.todo \ {p}, pair |-> p, answers |-> 0]
    BY <1>1, <2>2 DEF WorkOK
  <2>4. WorkOK'
    BY <1>3, <2>2, <2>3 DEF WorkOK
  <2>5. QED
    BY <2>1, <2>4 DEF RowsOK, WorkOK, QualityTypeOK
<1>5. WorkInv'
  BY <1>2, <1>3 DEF RunInv, WorkInv
<1>6. DoneIsComplete'
  BY <1>2, DoneKept
<1>7. QED
  BY <1>2, <1>4, <1>5, <1>6 DEF RunInv, VerdictIsTheJudges

LEMMA AnswerKeepsRuns ==
    ASSUME RunInv, QuAnswer
    PROVE  RunInv'
<1>1. /\ work' = [work EXCEPT !.answers = @ + 1] /\ work.answers < 4
      /\ UNCHANGED <<run, verdict, leaning, stops>>
  BY DEF QuAnswer
<1>2. QualityTypeOK'
  <2>1. RowsOK'
    BY <1>1, TypesOK DEF RunInv, RowsOK
  <2>2. WorkOK'
    BY <1>1, TypesOK DEF RunInv, WorkOK
  <2>3. QED
    BY <2>1, <2>2 DEF RowsOK, WorkOK, QualityTypeOK
<1>3. /\ work'.pc = work.pc /\ work'.pair = work.pair /\ work'.todo = work.todo /\ work'.of = work.of
  BY <1>1 DEF RunInv, QualityTypeOK
<1>4. WorkInv'
  BY <1>1, <1>3 DEF RunInv, WorkInv
<1>5. DoneIsComplete'
  BY <1>1, DoneKept
<1>6. QED
  BY <1>1, <1>2, <1>4, <1>5 DEF RunInv, VerdictIsTheJudges

LEMMA StoreKeepsRuns ==
    ASSUME RunInv, work.pc = "ask", NEW l, NEW v \in Verdict, l \in Leaning \union {"refused"},
           v = IF l \in {"baseline", "variant"} THEN l ELSE "tie",
           QuStore(l, v)
    PROVE  RunInv'
<1>1. /\ verdict' = [verdict EXCEPT ![work.of][work.pair] = v]
      /\ leaning' = [leaning EXCEPT ![work.of][work.pair] = l]
      /\ work' = [work EXCEPT !.pc = "loop", !.pair = "none", !.answers = 0]
      /\ UNCHANGED <<run, stops>>
  BY DEF QuStore
<1>2. /\ work.of \in Runs /\ work.pair \in Pairs \ work.todo
      /\ run[work.of].status # "done"
  BY DEF RunInv, WorkInv
<1>3. QualityTypeOK'
  <2>1. verdict' \in [Runs -> [Pairs -> Verdict \union {"none"}]]
    BY <1>1, <1>2 DEF RunInv, QualityTypeOK
  <2>2. leaning' \in [Runs -> [Pairs -> Leaning \union {"none", "refused"}]]
    BY <1>1, <1>2 DEF RunInv, QualityTypeOK
  <2>3. RowsOK'
    BY <1>1, <2>1, <2>2, TypesOK DEF RunInv, RowsOK
  <2>4. WorkOK
    BY TypesOK DEF RunInv
  <2>5. work' = [pc |-> "loop", of |-> work.of, todo |-> work.todo, pair |-> "none", answers |-> 0]
    BY <1>1, <2>4 DEF WorkOK
  <2>6. WorkOK'
    BY <2>4, <2>5 DEF WorkOK
  <2>7. QED
    BY <2>3, <2>6 DEF RowsOK, WorkOK, QualityTypeOK
<1>4. \A r \in Runs, p \in Pairs :
         /\ verdict'[r][p] = IF r = work.of /\ p = work.pair THEN v ELSE verdict[r][p]
         /\ leaning'[r][p] = IF r = work.of /\ p = work.pair THEN l ELSE leaning[r][p]
  BY <1>1, <1>2 DEF RunInv, QualityTypeOK
<1>5. work'.pc = "loop" /\ work'.todo = work.todo /\ work'.of = work.of
  BY <1>1 DEF RunInv, QualityTypeOK
<1>6. v # "none"
  BY DEF Verdict
<1>7. WorkInv'
  BY <1>1, <1>2, <1>4, <1>5, <1>6 DEF RunInv, WorkInv
<1>8. VerdictIsTheJudges'
  BY <1>4 DEF RunInv, VerdictIsTheJudges
<1>9. DoneIsComplete'
  <2>1. \A r \in Runs : r # work.of => verdict'[r] = verdict[r]
    BY <1>1 DEF RunInv, QualityTypeOK
  <2>2. \A r \in Runs : \A w : r # work.of => Wins(r, w)' = Wins(r, w)
    BY <2>1 DEF Wins
  <2>3. QED
    BY <1>1, <1>2, <2>1, <2>2 DEF RunInv, DoneIsComplete
<1>10. QED
  BY <1>3, <1>7, <1>8, <1>9 DEF RunInv

LEMMA DoneKeepsRuns ==
    ASSUME RunInv, QuDone
    PROVE  RunInv'
<1> DEFINE o == work.of
<1>1. /\ work.pc = "loop" /\ work.todo = {}
      /\ run' = [run EXCEPT ![o] = [status |-> "done", baseline |-> Wins(o, "baseline"),
                                    variant |-> Wins(o, "variant"), ties |-> Wins(o, "tie")]]
      /\ work' = Resting /\ UNCHANGED <<verdict, leaning, stops>>
  BY DEF QuDone
<1>2. o \in Runs /\ \A p \in Pairs : verdict[o][p] \in Verdict
  BY <1>1 DEF RunInv, WorkInv, QualityTypeOK
<1>3. /\ Wins(o, "baseline") + Wins(o, "variant") + Wins(o, "tie") = Cardinality(Pairs)
      /\ Wins(o, "baseline") \in Nat /\ Wins(o, "variant") \in Nat /\ Wins(o, "tie") \in Nat
  BY <1>2, CountsAddUp, WinsNat
<1>4. QualityTypeOK'
  BY <1>1, <1>2, <1>3 DEF RunInv, QualityTypeOK, RunStatus, Resting
<1>5. WorkInv'
  BY <1>1 DEF WorkInv, Resting
<1>6. DoneIsComplete'
  <2>1. \A r \in Runs : r # o => run'[r] = run[r]
    BY <1>1 DEF RunInv, QualityTypeOK
  <2>2. \A r \in Runs : \A w : Wins(r, w)' = Wins(r, w)
    BY <1>1 DEF Wins
  <2>3. /\ run'[o].baseline = Wins(o, "baseline") /\ run'[o].variant = Wins(o, "variant")
        /\ run'[o].ties = Wins(o, "tie")
    BY <1>1, <1>2 DEF RunInv, QualityTypeOK
  <2>4. \A p \in Pairs : verdict[o][p] # "none"
    BY <1>2 DEF Verdict
  <2>5. ASSUME NEW r \in Runs, run'[r].status = "done"
        PROVE  /\ \A p \in Pairs : verdict'[r][p] # "none"
               /\ run'[r].baseline + run'[r].variant + run'[r].ties = Cardinality(Pairs)
               /\ run'[r].baseline = Wins(r, "baseline")' /\ run'[r].variant = Wins(r, "variant")'
    <3>1. CASE r = o
      BY <1>1, <1>3, <2>2, <2>3, <2>4, <3>1
    <3>2. CASE r # o
      BY <1>1, <2>1, <2>2, <2>5, <3>2 DEF RunInv, DoneIsComplete
    <3>3. QED
      BY <3>1, <3>2
  <2>6. QED
    BY <2>5 DEF DoneIsComplete
<1>7. QED
  BY <1>1, <1>4, <1>5, <1>6 DEF RunInv, VerdictIsTheJudges

\* A run cut short: the pair in hand has no verdict, the run is failed or left as it was.
LEMMA CutKeepsRuns ==
    ASSUME RunInv, QuFail \/ QuCrash
    PROVE  RunInv'
<1>1. /\ run' = run \/ (work.of \in Runs /\ run' = [run EXCEPT ![work.of].status = "failed"])
      /\ work' = Resting /\ stops' \in {stops, stops + 1} /\ UNCHANGED <<verdict, leaning>>
  BY DEF QuFail, QuCrash, Status, RunInv, WorkInv
<1>2. QualityTypeOK'
  <2>1. RowsOK'
    <3>1. RowsOK
      BY TypesOK DEF RunInv
    <3>2. stops' \in Nat
      BY <1>1, <3>1 DEF RowsOK
    <3>3. run' \in [Runs -> [status : RunStatus, baseline : Nat, variant : Nat, ties : Nat]]
      <4>1. CASE run' = run
        BY <3>1, <4>1 DEF RowsOK
      <4>2. CASE work.of \in Runs /\ run' = [run EXCEPT ![work.of].status = "failed"]
        BY <3>1, <4>2 DEF RowsOK, RunStatus
      <4>3. QED
        BY <1>1, <4>1, <4>2
    <3>4. QED
      BY <1>1, <3>1, <3>2, <3>3 DEF RowsOK
  <2>2. WorkOK'
    BY <1>1, RestingOK DEF WorkOK
  <2>3. QED
    BY <2>1, <2>2 DEF RowsOK, WorkOK, QualityTypeOK
<1>3. WorkInv'
  BY <1>1 DEF WorkInv, Resting
<1>4. \A r \in Runs : run'[r].status = "done" => run'[r] = run[r]
  BY <1>1 DEF RunInv, QualityTypeOK
<1>5. DoneIsComplete'
  BY <1>1, <1>4, DoneKept
<1>6. QED
  BY <1>1, <1>2, <1>3, <1>5 DEF RunInv, VerdictIsTheJudges

LEMMA QualityKeepsRuns ==
    ASSUME RunInv, QualityNext
    PROVE  RunInv'
<1>1. ASSUME QuVerdict PROVE RunInv'
  <2>1. PICK l \in Leaning, b \in BOOLEAN : QuStore(l, Judged(l, b))
    BY <1>1 DEF QuVerdict
  <2>2. Judged(l, b) \in Verdict /\ Judged(l, b) = IF l \in {"baseline", "variant"} THEN l ELSE "tie"
    BY JudgedByTexts
  <2>3. QED
    BY <1>1, <2>1, <2>2, StoreKeepsRuns DEF QuVerdict
<1>2. ASSUME QuRefused PROVE RunInv'
  BY <1>2, StoreKeepsRuns DEF QuRefused, Verdict
<1>3. QED
  BY <1>1, <1>2, CreateKeepsRuns, DeleteKeepsRuns, StartKeepsRuns, PairKeepsRuns, AnswerKeepsRuns,
     DoneKeepsRuns, CutKeepsRuns DEF QualityNext, QuWork

LEMMA RunSteps == RunInv /\ [Next]_vars => RunInv'
<1> SUFFICES ASSUME RunInv, [Next]_vars PROVE RunInv'
  OBVIOUS
<1>1. CASE UNCHANGED qualityVars
  <2>1. \A r \in Runs : \A v : Wins(r, v)' = Wins(r, v)
    BY <1>1 DEF qualityVars, Wins
  <2>2. QED
    BY <1>1, <2>1 DEF qualityVars, RunInv, QualityTypeOK, WorkInv, VerdictIsTheJudges, DoneIsComplete
<1>2. QED
  BY <1>1, OtherSteps, QualityKeepsRuns

LEMMA RunInit == Init => RunInv
<1>1. SUFFICES ASSUME Init PROVE RunInv
  OBVIOUS
<1>2. QualityTypeOK
  BY <1>1 DEF Init, QualityInit, QualityTypeOK, RunStatus, Resting
<1>3. \A r \in Runs, p \in Pairs : verdict[r][p] = "none"
  BY <1>1 DEF Init, QualityInit
<1>4. \A r \in Runs : run[r].status = "none"
  BY <1>1 DEF Init, QualityInit
<1>5. work.pc = "idle"
  BY <1>1 DEF Init, QualityInit, Resting
<1>6. QED
  BY <1>2, <1>3, <1>4, <1>5 DEF RunInv, WorkInv, VerdictIsTheJudges, DoneIsComplete

\* A verdict is what the judge saw in the texts (resolve_pair), for any runs and pairs, and
\* whatever was deleted, failed or restarted.
THEOREM VerdictsAreTheJudges == Spec => []VerdictIsTheJudges
<1>1. RunInv => VerdictIsTheJudges
  BY DEF RunInv
<1>2. QED
  BY <1>1, RunInit, RunSteps, PTL DEF Spec

\* A run that is DONE has a verdict on every pair and the counts of those verdicts, also one
\* that was resumed after restarts (rewrite_quality.py: execute_run, quality_run_job).
THEOREM DoneRunsAreComplete == Spec => []DoneIsComplete
<1>1. RunInv => DoneIsComplete
  BY DEF RunInv
<1>2. QED
  BY <1>1, RunInit, RunSteps, PTL DEF Spec

\* A pair that has its verdict keeps it and is never asked about again (the pairs with a
\* verdict are passed over when a run is resumed).
THEOREM PairsAreJudgedOnce == Spec => JudgedOnce
<1> DEFINE Once == \A r \in Runs, p \in Pairs :
                     verdict[r][p] # "none" =>
                        /\ verdict'[r][p] = verdict[r][p]
                        /\ ~ (work'.pc = "ask" /\ work'.of = r /\ work'.pair = p)
<1>1. ASSUME RunInv, RunInv', [Next]_vars PROVE Once
  <2>1. ASSUME NEW r \in Runs, NEW p \in Pairs, verdict[r][p] # "none"
        PROVE  verdict'[r][p] = verdict[r][p]
    <3>1. CASE verdict' = verdict
      BY <3>1
    <3>2. CASE work.pc = "ask" /\ \E v : verdict' = [verdict EXCEPT ![work.of][work.pair] = v]
      <4>1. PICK v : verdict' = [verdict EXCEPT ![work.of][work.pair] = v]
        BY <3>2
      <4>2. verdict[work.of][work.pair] = "none"
        BY <1>1, <3>2 DEF RunInv, WorkInv
      <4>3. ~ (r = work.of /\ p = work.pair)
        BY <2>1, <4>2
      <4>4. QED
        BY <1>1, <4>1, <4>3 DEF RunInv, QualityTypeOK
    <3>3. QualityNext => verdict' = verdict
                         \/ (work.pc = "ask" /\ \E v : verdict' = [verdict EXCEPT ![work.of][work.pair] = v])
      BY DEF QualityNext, QuCreate, QuDelete, QuWork, QuStart, QuPair, QuAnswer, QuVerdict, QuRefused,
             QuStore, QuDone, QuFail, QuCrash
    <3>4. QED
      BY <1>1, <3>1, <3>2, <3>3, OtherSteps DEF qualityVars
  <2>2. ASSUME NEW r \in Runs, NEW p \in Pairs, verdict[r][p] # "none",
               work'.pc = "ask", work'.of = r, work'.pair = p
        PROVE  FALSE
    <3>1. verdict'[r][p] = "none"
      BY <1>1, <2>2 DEF RunInv, WorkInv
    <3>2. QED
      BY <2>1, <2>2, <3>1
  <2>3. QED
    BY <2>1, <2>2
<1>2. Once => (\A r \in Runs, p \in Pairs :
         verdict[r][p] # "none" =>
             /\ verdict'[r][p] = verdict[r][p]
             /\ ~ (work'.pc = "ask" /\ work'.of = r /\ work'.pair = p))
  OBVIOUS
<1> HIDE DEF Once
<1>3. RunInv /\ RunInv' /\ [Next]_vars => [Once]_vars
  BY <1>1
<1>4. Spec => [][Once]_vars
  BY <1>3, RunInit, RunSteps, PTL DEF Spec
<1>5. QED
  BY <1>4 DEF Once, JudgedOnce

-----------------------------------------------------------------------------
AccountTypes ==
    /\ owed \in [Payers -> Nat] /\ missing \in [Background -> Int]
    /\ restarts \in Nat /\ cards \in Nat /\ stops \in Nat
    /\ "pc" \in DOMAIN tick

\* The open transaction of the tick holds the row of the answer just received, and none
\* besides; a failed card may count one answer twice, a transaction of yesterday another.
TickAccount ==
    /\ owed["tick"] = IF tick.pc \in {"rated", "sorted"} /\ "tick" \notin old THEN 1 ELSE 0
    /\ missing["tick"] <= restarts
    /\ missing["tick"] + cards + 1 >= IF "tick" \in old THEN 1 ELSE 0

\* Of the pair in hand no more is open than was answered.
QualityAccount ==
    /\ owed["quality"] <= IF work.pc = "ask" THEN work.answers ELSE 0
    /\ missing["quality"] >= 0 /\ missing["quality"] <= 4 * stops

AccountInv == AccountTypes /\ TickAccount /\ QualityAccount

LEMMA Accounts ==
    /\ "tick" \in Payers /\ "quality" \in Payers /\ "rubric" \in Payers
    /\ "tick" \in Background /\ "quality" \in Background /\ "rubric" \notin Background
    /\ \A r \in Requests : r \in Payers /\ r \notin Background /\ r # "tick" /\ r # "quality"
  BY UsageAssumption, BatchAssumption DEF Background

LEMMA ChargeEffect ==
    ASSUME AccountTypes, NEW p \in Payers, NEW n \in Nat, Charge(p, n)
    PROVE  /\ missing' = missing /\ old' = old /\ owed' \in [Payers -> Nat]
           /\ \A j \in Payers : owed'[j] = IF j = p /\ p \notin old THEN owed[j] + n ELSE owed[j]
<1>1. /\ owed' = [owed EXCEPT ![p] = IF p \in old THEN @ ELSE @ + n]
      /\ missing' = missing /\ old' = old
  BY DEF Charge
<1>2. owed' = [owed EXCEPT ![p] = IF p \in old THEN owed[p] ELSE owed[p] + n]
  BY <1>1
<1>3. owed[p] \in Nat
  BY DEF AccountTypes
<1>4. (IF p \in old THEN owed[p] ELSE owed[p] + n) \in Nat
  BY <1>3
<1>5. QED
  BY <1>1, <1>2, <1>4 DEF AccountTypes

LEMMA SettledEffect ==
    ASSUME AccountTypes, NEW p \in Payers, NEW q \in Payers, Settled({p, q})
    PROVE  /\ old' = old \ {p, q} /\ owed' \in [Payers -> Nat]
           /\ \A j \in Payers : owed'[j] = IF j = p \/ j = q THEN 0 ELSE owed[j]
<1>1. owed' = [j \in Payers |-> IF j \in {p, q} THEN 0 ELSE owed[j]] /\ old' = old \ {p, q}
  BY DEF Settled
<1>2. \A j \in Payers : owed[j] \in Nat
  BY DEF AccountTypes
<1>3. QED
  BY <1>1, <1>2

LEMMA RebookEffect ==
    ASSUME AccountTypes, NEW p \in Payers, NEW q \in Payers, NEW n \in Nat, Rebook(p, q, n)
    PROVE  /\ old' = old \ {p, q} /\ owed' \in [Payers -> Nat]
           /\ \A j \in Payers : owed'[j] = IF j = p \/ j = q THEN 0 ELSE owed[j]
           /\ missing' \in [Background -> Int]
           /\ \A j \in Background :
                 missing'[j] = IF j = p THEN missing[j] + owed[j] - n
                               ELSE IF j = q THEN missing[j] + owed[j] ELSE missing[j]
<1>1. Settled({p, q})
  BY DEF Rebook
<1>2. missing' = [j \in Background |->
                      CASE j = p          -> missing[j] + owed[p] - n
                        [] j # p /\ j = q -> missing[j] + owed[q]
                        [] OTHER          -> missing[j]]
  BY DEF Rebook
<1>3. \A j \in Background :
         (CASE j = p          -> missing[j] + owed[p] - n
            [] j # p /\ j = q -> missing[j] + owed[q]
            [] OTHER          -> missing[j])
         = IF j = p THEN missing[j] + owed[j] - n ELSE IF j = q THEN missing[j] + owed[j] ELSE missing[j]
  OBVIOUS
<1>4. /\ owed[p] \in Nat /\ owed[q] \in Nat /\ \A j \in Background : missing[j] \in Int
  BY DEF AccountTypes
<1>5. missing' = [j \in Background |-> IF j = p THEN missing[j] + owed[j] - n
                                       ELSE IF j = q THEN missing[j] + owed[j] ELSE missing[j]]
  BY <1>2, <1>3
<1>6. \A j \in Background : (IF j = p THEN missing[j] + owed[j] - n
                             ELSE IF j = q THEN missing[j] + owed[j] ELSE missing[j]) \in Int
  BY <1>4
<1>7. missing' \in [Background -> Int]
  BY <1>5, <1>6
<1>8. QED
  BY <1>1, <1>5, <1>7, SettledEffect

\* What touches neither the tick nor its account.
LEMMA TickKept ==
    ASSUME TickAccount, owed'["tick"] = owed["tick"], missing'["tick"] = missing["tick"],
           restarts' = restarts, cards' = cards, "tick" \in old' <=> "tick" \in old,
           tick'.pc \in {"rated", "sorted"} <=> tick.pc \in {"rated", "sorted"}
    PROVE  TickAccount'
  BY DEF TickAccount

LEMMA QualityKept ==
    ASSUME QualityAccount, owed'["quality"] = owed["quality"], missing'["quality"] = missing["quality"],
           work' = work, stops' = stops
    PROVE  QualityAccount'
  BY DEF QualityAccount

\* What a request lists, and pays for before it has chosen.
LEMMA Listed ==
    ASSUME NEW r \in Requests, FgList(r)
    PROVE  \E chosen \in SUBSET Posts, n \in Nat :
              /\ Cardinality(chosen) <= BatchSize /\ n <= PoolSize /\ (chosen = {} => n = 0)
              /\ req' = [req EXCEPT ![r] = IF chosen = {} THEN Finished
                                           ELSE [req[r] EXCEPT !.pc = "loop", !.todo = chosen]]
              /\ Charge(r, n)
<1>1. PICK pool \in Pools : \E chosen \in SUBSET pool, n \in 0 .. Cardinality(pool) :
          /\ IF Cardinality(pool) <= BatchSize THEN chosen = pool /\ n = 0
                                               ELSE Cardinality(chosen) = BatchSize
          /\ req' = [req EXCEPT ![r] = IF chosen = {} THEN Finished
                                       ELSE [req[r] EXCEPT !.pc = "loop", !.todo = chosen]]
          /\ Charge(r, n)
  BY DEF FgList
<1>2. pool \in SUBSET Posts /\ Cardinality(pool) <= PoolSize
  BY DEF Pools
<1>3. Cardinality(pool) \in Nat
  BY <1>2, BatchAssumption, FS_Subset, FS_CardinalityType
<1>4. PICK chosen \in SUBSET pool, n \in 0 .. Cardinality(pool) :
          /\ IF Cardinality(pool) <= BatchSize THEN chosen = pool /\ n = 0
                                               ELSE Cardinality(chosen) = BatchSize
          /\ req' = [req EXCEPT ![r] = IF chosen = {} THEN Finished
                                       ELSE [req[r] EXCEPT !.pc = "loop", !.todo = chosen]]
          /\ Charge(r, n)
  BY <1>1
<1>5. /\ chosen \in SUBSET Posts /\ n \in Nat /\ n <= PoolSize /\ Cardinality(chosen) <= BatchSize
      /\ chosen = {} => n = 0
  BY <1>2, <1>3, <1>4, BatchAssumption, FS_EmptySet
<1>6. QED
  BY <1>4, <1>5

LEMMA QuietKeepsAccounts ==
    ASSUME AccountInv, UNCHANGED <<tick, restarts, cards, work, stops>>, UNCHANGED usageVars
    PROVE  AccountInv'
  BY DEF AccountInv, AccountTypes, TickAccount, QualityAccount, usageVars

LEMMA RequestKeepsAccounts ==
    ASSUME AccountInv, NEW r \in Requests, FgNext(r), UNCHANGED qualityVars
    PROVE  AccountInv'
<1>1. UNCHANGED <<tick, restarts, cards, work, stops>>
  <2>1. ASSUME NEW p \in Posts, FgTake(r, p) PROVE UNCHANGED <<tick, restarts, cards>>
    BY <2>1 DEF FgTake, counters
  <2>2. QED
    BY <2>1 DEF FgNext, FgStart, FgList, FgRewritten, FgUnsuitable, FgUnpaid, FgFailed, FgSettle, FgCommit,
                FgOrder, FgAbort, counters, qualityVars
<1>2. UNCHANGED usageVars \/ (\E n \in Nat : Charge(r, n)) \/ Book(r, r) \/ Rebook(r, r, 0)
  <2>1. ASSUME FgList(r) \/ FgRewritten(r) \/ FgUnsuitable(r) \/ FgFailed(r) PROVE \E n \in Nat : Charge(r, n)
    <3>1. ASSUME FgRewritten(r) \/ FgFailed(r) PROVE \E n \in Nat : Charge(r, n)
      BY <3>1 DEF FgRewritten, FgFailed
    <3>2. ASSUME FgUnsuitable(r) PROVE Charge(r, 1)
      BY <3>2 DEF FgUnsuitable
    <3>3. ASSUME FgList(r) PROVE \E n \in Nat : Charge(r, n)
      BY <3>3, Listed
    <3>4. QED
      BY <2>1, <3>1, <3>2, <3>3
  <2>2. ASSUME FgStart(r) \/ FgUnpaid(r) \/ \E p \in Posts : FgTake(r, p)
        PROVE  UNCHANGED usageVars
    BY <2>2 DEF FgStart, FgUnpaid, FgTake
  <2>3. FgCommit(r) \/ FgOrder(r) => Book(r, r)
    BY DEF FgCommit, FgOrder
  <2>4. FgAbort(r) => Rebook(r, r, 0)
    BY DEF FgAbort, Drop
  <2>5. QED
    BY <2>1, <2>2, <2>3, <2>4 DEF FgNext
<1>3. /\ r \in Payers /\ r \notin Background /\ r # "tick" /\ r # "quality"
      /\ "tick" \in Payers /\ "quality" \in Payers /\ "tick" \in Background /\ "quality" \in Background
  BY Accounts
<1>4. ASSUME owed' \in [Payers -> Nat], missing' \in [Background -> Int],
             owed'["tick"] = owed["tick"], owed'["quality"] = owed["quality"],
             missing'["tick"] = missing["tick"], missing'["quality"] = missing["quality"],
             "tick" \in old' <=> "tick" \in old
      PROVE  AccountInv'
  <2>1. TickAccount'
    BY <1>1, <1>4, TickKept DEF AccountInv
  <2>2. QualityAccount'
    BY <1>1, <1>4, QualityKept DEF AccountInv
  <2>3. AccountTypes'
    BY <1>1, <1>4 DEF AccountInv, AccountTypes
  <2>4. QED
    BY <2>1, <2>2, <2>3 DEF AccountInv
<1>5. CASE UNCHANGED usageVars
  BY <1>1, <1>5, QuietKeepsAccounts
<1>6. ASSUME NEW n \in Nat, Charge(r, n) PROVE AccountInv'
  <2>1. /\ missing' = missing /\ old' = old /\ owed' \in [Payers -> Nat]
        /\ \A j \in Payers : owed'[j] = IF j = r /\ r \notin old THEN owed[j] + n ELSE owed[j]
    BY <1>3, <1>6, ChargeEffect DEF AccountInv
  <2>2. QED
    BY <1>3, <1>4, <2>1 DEF AccountInv, AccountTypes
<1>7. CASE Book(r, r)
  <2>1. Settled({r, r}) /\ missing' = missing
    BY <1>7 DEF Book
  <2>2. /\ old' = old \ {r, r} /\ owed' \in [Payers -> Nat]
        /\ \A j \in Payers : owed'[j] = IF j = r \/ j = r THEN 0 ELSE owed[j]
    BY <1>3, <2>1, SettledEffect DEF AccountInv
  <2>3. QED
    BY <1>3, <1>4, <2>1, <2>2 DEF AccountInv, AccountTypes
<1>8. CASE Rebook(r, r, 0)
  <2>1. /\ old' = old \ {r, r} /\ owed' \in [Payers -> Nat]
        /\ \A j \in Payers : owed'[j] = IF j = r \/ j = r THEN 0 ELSE owed[j]
        /\ missing' \in [Background -> Int]
        /\ \A j \in Background :
              missing'[j] = IF j = r THEN missing[j] + owed[j] - 0
                            ELSE IF j = r THEN missing[j] + owed[j] ELSE missing[j]
    BY <1>3, <1>8, RebookEffect DEF AccountInv
  <2>2. QED
    BY <1>3, <1>4, <2>1
<1>9. QED
  BY <1>2, <1>5, <1>6, <1>7, <1>8

\* What the tick leaves alone of the quality runs' account.
LEMMA TickLeavesQuality ==
    ASSUME AccountInv, UNCHANGED qualityVars,
           owed'["quality"] = owed["quality"], missing'["quality"] = missing["quality"]
    PROVE  QualityAccount'
  BY QualityKept DEF AccountInv, qualityVars

LEMMA TickKeepsAccounts ==
    ASSUME AccountInv, TkNext, UNCHANGED qualityVars
    PROVE  AccountInv'
<1> USE DEF AccountInv
<1>0. /\ "tick" \in Payers /\ "quality" \in Payers /\ "rubric" \in Payers
      /\ "tick" \in Background /\ "quality" \in Background
      /\ owed["tick"] \in Nat /\ owed["quality"] \in Nat /\ missing["tick"] \in Int
      /\ missing["quality"] \in Int /\ stops' = stops
  BY Accounts DEF AccountTypes, qualityVars
\* The steps that pay and book nothing.
<1>1. ASSUME UNCHANGED <<restarts, cards>>, UNCHANGED usageVars, "pc" \in DOMAIN tick',
             tick'.pc \notin {"rated", "sorted"}, tick.pc \notin {"rated", "sorted"}
      PROVE  AccountInv'
  <2>1. TickAccount'
    BY <1>1, TickKept DEF usageVars
  <2>2. QualityAccount'
    BY <1>1, TickLeavesQuality DEF usageVars
  <2>3. AccountTypes'
    BY <1>0, <1>1 DEF AccountTypes, usageVars
  <2>4. QED
    BY <2>1, <2>2, <2>3
<1>2. ASSUME TkDebt PROVE AccountInv'
  <2>1. tick.pc = "idle" /\ tick'.pc = "today" /\ "pc" \in DOMAIN tick'
    BY <1>2 DEF TkDebt, NoTick
  <2>2. QED
    BY <1>1, <1>2, <2>1 DEF TkDebt
<1>3. ASSUME TkList PROVE AccountInv'
  <2>1. tick.pc = "today" /\ tick'.pc \in {"idle", "loop"} /\ "pc" \in DOMAIN tick'
    BY <1>3 DEF TkList, NoTick, AccountTypes
  <2>2. QED
    BY <1>1, <1>3, <2>1 DEF TkList, counters
<1>4. ASSUME NEW p \in Posts, TkTake(p) PROVE AccountInv'
  <2>1. tick.pc = "loop" /\ tick'.pc \in {"ask", "loop"} /\ "pc" \in DOMAIN tick'
    BY <1>4 DEF TkTake, AccountTypes
  <2>2. QED
    BY <1>1, <1>4, <2>1 DEF TkTake, counters
<1>5. ASSUME TkCard PROVE AccountInv'
  <2>1. tick.pc = "card" /\ tick'.pc = "loop" /\ "pc" \in DOMAIN tick'
    BY <1>5 DEF TkCard, AccountTypes
  <2>2. QED
    BY <1>1, <1>5, <2>1 DEF TkCard, counters
\* The two answers.
<1>6. ASSUME TkAnswer PROVE AccountInv'
  <2>1. /\ tick.pc = "ask" /\ tick'.pc = "rated" /\ "pc" \in DOMAIN tick'
        /\ UNCHANGED <<restarts, cards>> /\ Charge("tick", 1)
    BY <1>6 DEF TkAnswer, AccountTypes, counters
  <2>2. /\ missing' = missing /\ old' = old /\ owed' \in [Payers -> Nat]
        /\ \A j \in Payers : owed'[j] = IF j = "tick" /\ "tick" \notin old THEN owed[j] + 1 ELSE owed[j]
    BY <1>0, <2>1, ChargeEffect
  <2>3. TickAccount'
    BY <1>0, <2>1, <2>2 DEF TickAccount
  <2>4. QualityAccount'
    BY <1>0, <2>2, TickLeavesQuality
  <2>5. QED
    BY <1>0, <2>1, <2>2, <2>3, <2>4 DEF AccountTypes
<1>7. ASSUME TkClassify PROVE AccountInv'
  <2>1. /\ tick.pc = "rated" /\ tick'.pc = "sorted" /\ "pc" \in DOMAIN tick'
        /\ UNCHANGED <<restarts, cards>> /\ Charge("rubric", 1)
    BY <1>7 DEF TkClassify, AccountTypes, counters
  <2>2. /\ missing' = missing /\ old' = old /\ owed' \in [Payers -> Nat]
        /\ \A j \in Payers : owed'[j] = IF j = "rubric" /\ "rubric" \notin old THEN owed[j] + 1 ELSE owed[j]
    BY <1>0, <2>1, ChargeEffect
  <2>3. TickAccount'
    BY <1>0, <2>1, <2>2, TickKept
  <2>4. QualityAccount'
    BY <1>0, <2>2, TickLeavesQuality
  <2>5. QED
    BY <1>0, <2>1, <2>2, <2>3, <2>4 DEF AccountTypes
\* The transaction ends.
<1>8. ASSUME TkDone PROVE AccountInv'
  <2>1. /\ tick'.pc = "card" /\ "pc" \in DOMAIN tick' /\ UNCHANGED <<restarts, cards>>
        /\ Settled({"tick", "rubric"}) /\ missing' = missing
    BY <1>8 DEF TkDone, AccountTypes, counters, Book
  <2>2. /\ old' = old \ {"tick", "rubric"} /\ owed' \in [Payers -> Nat]
        /\ \A j \in Payers : owed'[j] = IF j = "tick" \/ j = "rubric" THEN 0 ELSE owed[j]
    BY <1>0, <2>1, SettledEffect
  <2>3. TickAccount'
    <3>1. /\ owed'["tick"] = 0 /\ missing'["tick"] = missing["tick"] /\ "tick" \notin old'
          /\ tick'.pc \notin {"rated", "sorted"} /\ restarts' = restarts /\ cards' = cards
      BY <1>0, <2>1, <2>2
    <3>2. restarts \in Nat /\ cards \in Nat
      BY DEF AccountTypes
    <3>3. QED
      BY <1>0, <3>1, <3>2 DEF TickAccount
  <2>4. QualityAccount'
    BY <1>0, <2>1, <2>2, TickLeavesQuality
  <2>5. QED
    BY <1>0, <2>1, <2>2, <2>3, <2>4 DEF AccountTypes
<1>9. ASSUME NEW n \in {0, 1}, Rebook("tick", "rubric", n), "pc" \in DOMAIN tick',
             tick'.pc \notin {"rated", "sorted"},
             cards' \in Nat, restarts' \in Nat, cards' >= cards, restarts' >= restarts,
             \/ n = 0 /\ tick.pc \notin {"rated", "sorted"}
             \/ n = 0 /\ restarts' = restarts + 1
             \/ n = 1 /\ tick.pc \in {"rated", "sorted"}
             \/ n = 1 /\ cards' = cards + 1
      PROVE  AccountInv'
  <2>1. /\ old' = old \ {"tick", "rubric"} /\ owed' \in [Payers -> Nat]
        /\ \A j \in Payers : owed'[j] = IF j = "tick" \/ j = "rubric" THEN 0 ELSE owed[j]
        /\ missing' \in [Background -> Int]
        /\ \A j \in Background :
              missing'[j] = IF j = "tick" THEN missing[j] + owed[j] - n
                            ELSE IF j = "rubric" THEN missing[j] + owed[j] ELSE missing[j]
    BY <1>0, <1>9, RebookEffect
  <2>2. /\ owed'["tick"] = 0 /\ missing'["tick"] = missing["tick"] + owed["tick"] - n
        /\ "tick" \notin old' /\ owed'["quality"] = owed["quality"]
        /\ missing'["quality"] = missing["quality"]
    BY <1>0, <2>1
  <2>3. TickAccount'
    <3>1. restarts \in Nat /\ cards \in Nat
      BY DEF AccountTypes
    <3>2. QED
      BY <1>0, <1>9, <2>2, <3>1 DEF TickAccount
  <2>4. QualityAccount'
    BY <2>2, TickLeavesQuality
  <2>5. QED
    BY <1>0, <1>9, <2>1, <2>3, <2>4 DEF AccountTypes
<1>10. restarts \in Nat /\ cards \in Nat /\ restarts + 1 \in Nat /\ cards + 1 \in Nat
       /\ restarts + 1 >= restarts /\ cards + 1 >= cards /\ restarts >= restarts /\ cards >= cards
  BY DEF AccountTypes
<1>11. ASSUME TkStop PROVE AccountInv'
  <2>1. /\ Rebook("tick", "rubric", 0) /\ tick.pc = "loop" /\ UNCHANGED <<restarts, cards>>
        /\ tick'.pc = "idle" /\ "pc" \in DOMAIN tick'
    BY <1>11 DEF TkStop, Drop, NoTick, counters
  <2>2. QED
    BY <1>9, <1>10, <2>1
<1>12. ASSUME TkFailEarly PROVE AccountInv'
  <2>1. /\ Rebook("tick", "rubric", 0) /\ tick.pc = "ask" /\ UNCHANGED <<restarts, cards>>
        /\ tick'.pc = "loop" /\ "pc" \in DOMAIN tick'
    BY <1>12 DEF TkFailEarly, Drop, AccountTypes, counters
  <2>2. QED
    BY <1>9, <1>10, <2>1
<1>13. ASSUME TkFailPaid PROVE AccountInv'
  <2>1. /\ Rebook("tick", "rubric", 1) /\ tick.pc \in {"rated", "sorted"}
        /\ UNCHANGED <<restarts, cards>> /\ tick'.pc = "loop" /\ "pc" \in DOMAIN tick'
    BY <1>13 DEF TkFailPaid, TkRebook, AccountTypes, counters
  <2>2. QED
    BY <1>9, <1>10, <2>1
<1>14. ASSUME TkFailCard PROVE AccountInv'
  <2>1. /\ Rebook("tick", "rubric", 1) /\ cards' = cards + 1 /\ restarts' = restarts
        /\ tick'.pc = "loop" /\ "pc" \in DOMAIN tick'
    BY <1>14 DEF TkFailCard, TkRebook, AccountTypes
  <2>2. QED
    BY <1>9, <1>10, <2>1
<1>15. ASSUME TkCrash PROVE AccountInv'
  <2>1. /\ Rebook("tick", "rubric", 0) /\ restarts' = restarts + 1 /\ cards' = cards
        /\ tick'.pc = "idle" /\ "pc" \in DOMAIN tick'
    BY <1>15 DEF TkCrash, Drop, NoTick
  <2>2. QED
    BY <1>9, <1>10, <2>1
<1>16. QED
  BY <1>2, <1>3, <1>4, <1>5, <1>6, <1>7, <1>8, <1>11, <1>12, <1>13, <1>14, <1>15 DEF TkNext

LEMMA QualityKeepsAccounts ==
    ASSUME AccountInv, RunInv, QualityNext, UNCHANGED batchVars
    PROVE  AccountInv'
<1> USE DEF AccountInv
<1>0. /\ "tick" \in Payers /\ "quality" \in Payers /\ "tick" \in Background /\ "quality" \in Background
      /\ owed["tick"] \in Nat /\ owed["quality"] \in Nat /\ missing["tick"] \in Int
      /\ missing["quality"] \in Int /\ stops \in Nat
      /\ UNCHANGED <<tick, restarts, cards>>
  BY Accounts DEF AccountTypes, batchVars, counters
<1>1. work.answers \in 0 .. 4 /\ WorkOK
  BY TypesOK DEF RunInv, WorkOK
<1>2. ASSUME UNCHANGED usageVars, work.pc # "ask", stops' = stops PROVE AccountInv'
  <2>1. TickAccount'
    BY <1>0, <1>2, TickKept DEF usageVars
  <2>2. AccountTypes'
    BY <1>0, <1>2 DEF AccountTypes, usageVars
  <2>3. owed["quality"] = 0
    BY <1>0, <1>2 DEF QualityAccount
  <2>4. work'.pc = "ask" => work'.answers = 0
    <3>1. ASSUME QuPair PROVE work'.answers = 0
      BY <1>1, <3>1 DEF QuPair, WorkOK
    <3>2. ASSUME work'.pc = "ask" PROVE QuPair
      <4>1. ~ (QuAnswer \/ QuVerdict \/ QuRefused)
        BY <1>2 DEF QuAnswer, QuVerdict, QuRefused
      <4>2. QuDone \/ QuFail \/ QuCrash => work'.pc = "idle"
        BY DEF QuDone, QuFail, QuCrash, Resting
      <4>3. QuStart => work'.pc = "loop"
        BY DEF QuStart, Resting
      <4>4. (\E r \in Runs : QuCreate(r) \/ QuDelete(r)) => work' = work
        BY DEF QuCreate, QuDelete
      <4>5. QED
        BY <1>2, <3>2, <4>1, <4>2, <4>3, <4>4 DEF QualityNext, QuWork
    <3>3. QED
      BY <3>1, <3>2
  <2>5. QualityAccount'
    BY <1>0, <1>2, <2>3, <2>4 DEF QualityAccount, usageVars
  <2>6. QED
    BY <2>1, <2>2, <2>5
<1>3. ASSUME QuStart \/ QuPair PROVE AccountInv'
  BY <1>2, <1>3 DEF QuStart, QuPair
<1>4. ASSUME NEW r \in Runs, QuCreate(r) \/ QuDelete(r) PROVE AccountInv'
  <2>1. UNCHANGED <<tick, restarts, cards, work, stops>> /\ UNCHANGED usageVars
    BY <1>0, <1>4 DEF QuCreate, QuDelete
  <2>2. QED
    BY <2>1, QuietKeepsAccounts
<1>5. ASSUME QuAnswer PROVE AccountInv'
  <2>1. /\ work.pc = "ask" /\ work'.pc = "ask" /\ work'.answers = work.answers + 1 /\ stops' = stops
        /\ Charge("quality", 1)
    BY <1>1, <1>5 DEF QuAnswer, WorkOK
  <2>2. /\ missing' = missing /\ old' = old /\ owed' \in [Payers -> Nat]
        /\ \A j \in Payers : owed'[j] = IF j = "quality" /\ "quality" \notin old THEN owed[j] + 1 ELSE owed[j]
    BY <1>0, <2>1, ChargeEffect
  <2>3. TickAccount'
    BY <1>0, <2>2, TickKept
  <2>4. QualityAccount'
    BY <1>0, <1>1, <2>1, <2>2 DEF QualityAccount
  <2>5. QED
    BY <1>0, <2>1, <2>2, <2>3, <2>4 DEF AccountTypes
<1>6. ASSUME QuVerdict \/ QuRefused \/ QuDone, Book("quality", "quality"), stops' = stops
      PROVE  AccountInv'
  <2>1. Settled({"quality", "quality"}) /\ missing' = missing
    BY <1>6 DEF Book
  <2>2. /\ old' = old \ {"quality", "quality"} /\ owed' \in [Payers -> Nat]
        /\ \A j \in Payers : owed'[j] = IF j = "quality" \/ j = "quality" THEN 0 ELSE owed[j]
    BY <1>0, <2>1, SettledEffect
  <2>3. TickAccount'
    BY <1>0, <2>1, <2>2, TickKept
  <2>4. work'.answers \in Nat
    <3>1. work' = Resting \/ work' = [work EXCEPT !.pc = "loop", !.pair = "none", !.answers = 0]
      BY <1>6 DEF QuVerdict, QuRefused, QuStore, QuDone
    <3>2. work'.answers = 0
      <4>1. CASE work' = Resting
        BY <4>1 DEF Resting
      <4>2. CASE work' = [work EXCEPT !.pc = "loop", !.pair = "none", !.answers = 0]
        BY <1>1, <4>2 DEF WorkOK
      <4>3. QED
        BY <3>1, <4>1, <4>2
    <3>3. QED
      BY <3>2
  <2>5. QualityAccount'
    BY <1>0, <1>6, <2>1, <2>2, <2>4 DEF QualityAccount
  <2>6. QED
    BY <1>0, <1>6, <2>1, <2>2, <2>3, <2>5 DEF AccountTypes
<1>7. ASSUME QuVerdict \/ QuRefused \/ QuDone PROVE AccountInv'
  BY <1>6, <1>7 DEF QuVerdict, QuRefused, QuStore, QuDone
<1>8. ASSUME QuFail \/ QuCrash PROVE AccountInv'
  <2>1. /\ Rebook("quality", "quality", 0) /\ work' = Resting
        /\ stops' = stops + 1 \/ (stops' = stops /\ work.pc = "loop")
    BY <1>8 DEF QuFail, QuCrash, Drop
  <2>2. /\ old' = old \ {"quality", "quality"} /\ owed' \in [Payers -> Nat]
        /\ \A j \in Payers : owed'[j] = IF j = "quality" \/ j = "quality" THEN 0 ELSE owed[j]
        /\ missing' \in [Background -> Int]
        /\ \A j \in Background :
              missing'[j] = IF j = "quality" THEN missing[j] + owed[j] - 0
                            ELSE IF j = "quality" THEN missing[j] + owed[j] ELSE missing[j]
    BY <1>0, <2>1, RebookEffect
  <2>3. TickAccount'
    BY <1>0, <2>2, TickKept
  <2>4. owed'["quality"] = 0 /\ missing'["quality"] = missing["quality"] + owed["quality"]
    BY <1>0, <2>2
  <2>5. owed["quality"] <= 4 /\ (work.pc = "loop" => owed["quality"] = 0)
    BY <1>0, <1>1 DEF QualityAccount
  <2>6. work'.pc # "ask"
    BY <2>1 DEF Resting
  <2>7. QualityAccount'
    BY <1>0, <2>1, <2>4, <2>5, <2>6 DEF QualityAccount
  <2>8. QED
    BY <1>0, <2>1, <2>2, <2>3, <2>7 DEF AccountTypes
<1>9. QED
  BY <1>3, <1>4, <1>5, <1>7, <1>8 DEF QualityNext, QuWork

\* The day's sums begin again; what is open then is dated yesterday.
LEMMA MidnightKeepsAccounts ==
    ASSUME AccountInv, RunInv, MidnightStep
    PROVE  AccountInv'
<1>1. /\ owed' = [p \in Payers |-> 0] /\ missing' = [j \in Background |-> 0] /\ old' = Busy
      /\ UNCHANGED <<tick, restarts, cards, work, stops>>
  BY DEF MidnightStep, Midnight, NewDay, qualityVars, counters
<1>2. owed'["tick"] = 0 /\ owed'["quality"] = 0 /\ missing'["tick"] = 0 /\ missing'["quality"] = 0
  BY <1>1, Accounts
<1>3. tick.pc \in {"rated", "sorted"} => "tick" \in old'
  BY <1>1 DEF Busy, BatchBusy
<1>4. restarts \in Nat /\ cards \in Nat /\ stops \in Nat /\ work.answers \in Nat
  BY TypesOK DEF AccountInv, AccountTypes, RunInv, WorkOK
<1>5. TickAccount'
  BY <1>1, <1>2, <1>3, <1>4 DEF TickAccount
<1>6. QualityAccount'
  BY <1>1, <1>2, <1>4 DEF QualityAccount
<1>7. AccountTypes'
  BY <1>1, <1>4 DEF AccountTypes, AccountInv
<1>8. QED
  BY <1>5, <1>6, <1>7 DEF AccountInv

LEMMA AccountSteps == RunInv /\ AccountInv /\ [Next]_vars => AccountInv'
<1> SUFFICES ASSUME RunInv, AccountInv, [Next]_vars PROVE AccountInv'
  OBVIOUS
<1>1. CASE BatchStep
  <2>1. CASE PostNext
    <3>1. UNCHANGED <<tick, restarts, cards>> /\ UNCHANGED usageVars
      BY <2>1 DEF PostNext, Choose, Lose, Restore, counters
    <3>2. QED
      BY <1>1, <3>1, QuietKeepsAccounts DEF BatchStep, qualityVars
  <2>2. UNCHANGED qualityVars /\ (TkNext \/ PostNext \/ \E r \in Requests : FgNext(r))
    BY <1>1 DEF BatchStep, BatchNext
  <2>3. QED
    BY <2>1, <2>2, TickKeepsAccounts, RequestKeepsAccounts
<1>2. CASE QualityStep
  BY <1>2, QualityKeepsAccounts DEF QualityStep
<1>3. CASE MidnightStep
  BY <1>3, MidnightKeepsAccounts
<1>4. CASE UNCHANGED vars
  BY <1>4, QuietKeepsAccounts DEF vars, batchVars, qualityVars, counters
<1>5. QED
  BY <1>1, <1>2, <1>3, <1>4 DEF Next

LEMMA AccountInit == Init => AccountInv
<1>1. SUFFICES ASSUME Init PROVE AccountInv
  OBVIOUS
<1>2. /\ owed = [p \in Payers |-> 0] /\ missing = [j \in Background |-> 0] /\ old = {}
      /\ restarts = 0 /\ cards = 0 /\ stops = 0
  BY <1>1 DEF Init, UsageInit, BatchInit, QualityInit
<1>3. tick.pc = "idle" /\ "pc" \in DOMAIN tick /\ work.pc = "idle"
  BY <1>1 DEF Init, BatchInit, QualityInit, NoTick, Resting
<1>4. owed["tick"] = 0 /\ owed["quality"] = 0 /\ missing["tick"] = 0 /\ missing["quality"] = 0
  BY <1>2, Accounts
<1>5. QED
  BY <1>2, <1>3, <1>4 DEF AccountInv, AccountTypes, TickAccount, QualityAccount

\* Of what the tick has paid nothing is missing but what restarts interrupted, whatever
\* else fails (lost_usage in dedup_and_rewrite_job).
THEOREM TickIsBooked == Spec => []TickPaidIsBooked
<1>1. AccountInv => TickPaidIsBooked
  BY Accounts DEF AccountInv, AccountTypes, TickAccount, TickPaidIsBooked
<1>2. QED
  BY <1>1, RunInit, RunSteps, AccountInit, AccountSteps, PTL DEF Spec

\* A quality run cut short loses no more than the account of the pair in hand.
THEOREM QualityLosses == Spec => []QualityLossBounded
<1>1. AccountInv => QualityLossBounded
  BY Accounts DEF AccountInv, AccountTypes, QualityAccount, QualityLossBounded
<1>2. QED
  BY <1>1, RunInit, RunSteps, AccountInit, AccountSteps, PTL DEF Spec

-----------------------------------------------------------------------------
\* What a request and the tick have in hand is not in their queues any more, and the tick
\* takes nothing in hand that is not owed.
HandsOK ==
    /\ tick.pc \in {"ask", "rated", "sorted"} => tick.debt > 0
    /\ tick.pc \in {"ask", "rated", "sorted", "card"} => tick.post \in Posts \ tick.queue
    /\ tick.pc \in {"idle", "today"} => tick.queue = {}
    /\ \A r \in Requests : req[r].pc = "ask" => req[r].post \in Posts \ req[r].todo

\* BatchTypeOK by parts: the theme's order and the posts, the requests, the tick.
ThemeOK ==
    /\ day \in Days
    /\ order \in [date : Days \union {0}, size : Nat]
    /\ st \in [Posts -> Stage]
    /\ batch \in [Posts -> Days \union {0}]
    /\ crowd \in SUBSET Posts /\ restarts \in Nat /\ cards \in Nat

Request == [pc : {"none", "list", "loop", "ask", "order", "done"},
            kind : {"batch", "count"}, today : Days,
            todo : SUBSET Posts, post : Posts \union {"none"}, made : SUBSET Posts]

RequestsOK ==
    /\ req \in [Requests -> Request]
    /\ draft \in [Requests -> [Posts -> Stage \union {"same"}]]

TickOK ==
    tick \in [pc : {"idle", "today", "loop", "ask", "rated", "sorted", "card"},
              debt : Nat, date : Days \union {0}, size : Nat, today : Days,
              queue : SUBSET Posts, post : Posts \union {"none"}]

BatchInv == BatchTypeOK /\ HandsOK

LEMMA BatchParts == BatchTypeOK <=> ThemeOK /\ RequestsOK /\ TickOK
  BY DEF BatchTypeOK, ThemeOK, RequestsOK, Request, TickOK

LEMMA SomeDays == 1 \in Days /\ Days \subseteq Nat
  BY BatchAssumption DEF Days

LEMMA StagesOf == {"raw", "chosen", "alive", "dead"} = Stage
  BY DEF Stage

LEMMA NoRequestOK == NoRequest \in Request /\ Finished = [NoRequest EXCEPT !.pc = "done"] /\ Finished \in Request
  BY SomeDays DEF NoRequest, Request, Finished

LEMMA OutstandingNat ==
    ASSUME ThemeOK
    PROVE  Outstanding \in Nat
<1>1. IsFiniteSet(AliveIn(order.date))
  BY BatchAssumption, FS_Subset DEF AliveIn
<1>2. Cardinality(AliveIn(order.date)) \in Nat /\ order.size \in Nat
  BY <1>1, FS_CardinalityType DEF ThemeOK
<1>3. QED
  BY <1>2 DEF Outstanding

\* A request writes its own row and draft, and what it commits.
LEMMA RequestKeepsTypes ==
    ASSUME BatchInv, NEW r \in Requests, FgNext(r)
    PROVE  BatchInv'
<1> DEFINE q == req[r]
<1>0. /\ ThemeOK /\ RequestsOK /\ TickOK /\ q \in Request
      /\ \A s \in Requests : req[s].pc = "ask" => req[s].post \in Posts \ req[s].todo
  BY BatchParts DEF BatchInv, HandsOK, RequestsOK
\* It is enough to look at the row and the draft it leaves.
<1>1. ASSUME NEW x \in Request, NEW d \in [Posts -> Stage \union {"same"}],
             req' = [req EXCEPT ![r] = x], draft' = [draft EXCEPT ![r] = d],
             x.pc = "ask" => x.post \in Posts \ x.todo,
             ThemeOK', tick' = tick
      PROVE  BatchInv'
  <2>1. RequestsOK'
    BY <1>0, <1>1 DEF RequestsOK
  <2>2. \A s \in Requests : req'[s] = IF s = r THEN x ELSE req[s]
    BY <1>0, <1>1 DEF RequestsOK
  <2>3. TickOK'
    BY <1>0, <1>1 DEF TickOK
  <2>4. HandsOK'
    BY <1>0, <1>1, <2>2 DEF BatchInv, HandsOK
  <2>5. BatchTypeOK'
    BY <1>1, <2>1, <2>3 DEF BatchTypeOK, ThemeOK, RequestsOK, Request, TickOK
  <2>6. QED
    BY <2>4, <2>5 DEF BatchInv
<1>2. draft[r] \in [Posts -> Stage \union {"same"}] /\ draft = [draft EXCEPT ![r] = draft[r]]
      /\ Untouched \in [Posts -> Stage \union {"same"}]
  BY <1>0 DEF RequestsOK, Untouched
<1>3. UNCHANGED <<day, order, posts, counters>> => ThemeOK'
  BY <1>0 DEF ThemeOK, posts, counters
<1>4. CASE FgStart(r)
  <2>1. PICK k \in {"batch", "count"} :
          req' = [req EXCEPT ![r] = [NoRequest EXCEPT !.pc = "list", !.kind = k, !.today = day]]
    BY <1>4 DEF FgStart
  <2> DEFINE x == [NoRequest EXCEPT !.pc = "list", !.kind = k, !.today = day]
  <2>2. x \in Request /\ x.pc = "list"
    BY <1>0, NoRequestOK DEF Request, NoRequest, ThemeOK
  <2>3. QED
    BY <1>1, <1>2, <1>3, <1>4, <2>1, <2>2 DEF FgStart
<1>5. CASE FgList(r)
  <2>1. PICK chosen \in SUBSET Posts :
          req' = [req EXCEPT ![r] = IF chosen = {} THEN Finished
                                    ELSE [req[r] EXCEPT !.pc = "loop", !.todo = chosen]]
    BY <1>5, Listed
  <2> DEFINE x == IF chosen = {} THEN Finished ELSE [req[r] EXCEPT !.pc = "loop", !.todo = chosen]
  <2>2. x \in Request /\ x.pc \in {"done", "loop"}
    BY <1>0, NoRequestOK DEF Request, Finished, NoRequest
  <2>3. req' = [req EXCEPT ![r] = x] /\ draft' = draft /\ tick' = tick
    BY <1>5, <2>1 DEF FgList
  <2>4. QED
    BY <1>1, <1>2, <1>3, <1>5, <2>2, <2>3 DEF FgList
<1>6. ASSUME NEW p \in Posts, FgTake(r, p) PROVE BatchInv'
  <2> DEFINE x == [q EXCEPT !.pc = "ask", !.post = p, !.todo = @ \ {p}]
             d == [draft[r] EXCEPT ![p] = "chosen"]
  <2>1. x \in Request /\ x.pc = "ask" /\ x.post = p /\ x.todo = q.todo \ {p}
    BY <1>0 DEF Request
  <2>2. d \in [Posts -> Stage \union {"same"}]
    BY <1>2 DEF Stage
  <2>3. req' = [req EXCEPT ![r] = x] /\ draft' = [draft EXCEPT ![r] = d] /\ tick' = tick
    BY <1>0, <1>6 DEF FgTake, RequestsOK
  <2>4. QED
    BY <1>1, <1>3, <1>6, <2>1, <2>2, <2>3 DEF FgTake
<1>7. ASSUME NEW s \in Stage, q.pc = "ask", FgSettle(r, s) PROVE BatchInv'
  <2> DEFINE x == [q EXCEPT !.pc = "loop", !.post = "none",
                            !.made = IF s = "alive" THEN @ \union {req[r].post} ELSE @]
             d == [draft[r] EXCEPT ![req[r].post] = s]
  <2>1. x \in Request /\ x.pc = "loop"
    BY <1>0, <1>7 DEF Request
  <2>2. d \in [Posts -> Stage \union {"same"}]
    BY <1>2
  <2>3. req' = [req EXCEPT ![r] = x] /\ draft' = [draft EXCEPT ![r] = d] /\ tick' = tick
    BY <1>0, <1>7 DEF FgSettle, RequestsOK
  <2>4. QED
    BY <1>1, <1>3, <1>7, <2>1, <2>2, <2>3 DEF FgSettle
<1>8. CASE FgRewritten(r) \/ FgUnsuitable(r) \/ FgUnpaid(r) \/ FgFailed(r)
  BY <1>7, <1>8 DEF FgRewritten, FgUnsuitable, FgUnpaid, FgFailed, Stage
<1>9. CASE FgCommit(r)
  <2> DEFINE x == IF q.kind = "batch" /\ q.made # {} THEN [q EXCEPT !.pc = "order", !.todo = {}] ELSE Finished
  <2>1. x \in Request /\ x.pc \in {"order", "done"}
    BY <1>0, NoRequestOK DEF Request, Finished, NoRequest
  <2>2. /\ req' = [req EXCEPT ![r] = x] /\ draft' = [draft EXCEPT ![r] = Untouched] /\ tick' = tick
        /\ UNCHANGED <<day, order, restarts, cards>>
    BY <1>9 DEF FgCommit
  <2>3. st' \in [Posts -> Stage]
    BY <1>0, <1>2, <1>9 DEF FgCommit, ThemeOK
  <2>4. batch' \in [Posts -> Days \union {0}]
    BY <1>0, <1>9 DEF FgCommit, FgLabel, ThemeOK, Request
  <2>5. crowd' \in SUBSET Posts
    BY <1>0, <1>9 DEF FgCommit, Crowded, ThemeOK, Request
  <2>6. ThemeOK'
    BY <1>0, <2>2, <2>3, <2>4, <2>5 DEF ThemeOK
  <2>7. QED
    BY <1>1, <1>2, <2>1, <2>2, <2>6
<1>10. CASE FgOrder(r)
  <2>1. Finished \in Request /\ Finished.pc = "done"
    BY NoRequestOK DEF Finished, NoRequest
  <2>2. order' \in [date : Days \union {0}, size : Nat]
    BY <1>0, <1>10, BatchAssumption DEF FgOrder, ThemeOK
  <2>3. ThemeOK'
    BY <1>0, <1>10, <2>2 DEF FgOrder, ThemeOK, posts, counters
  <2>4. QED
    BY <1>1, <1>2, <1>10, <2>1, <2>3 DEF FgOrder
<1>11. CASE FgAbort(r)
  <2>1. Finished \in Request /\ Finished.pc = "done"
    BY NoRequestOK DEF Finished, NoRequest
  <2>2. QED
    BY <1>1, <1>2, <1>3, <1>11, <2>1 DEF FgAbort
<1>12. QED
  BY <1>4, <1>5, <1>6, <1>8, <1>9, <1>10, <1>11 DEF FgNext

TickRecord == [pc : {"idle", "today", "loop", "ask", "rated", "sorted", "card"},
               debt : Nat, date : Days \union {0}, size : Nat, today : Days,
               queue : SUBSET Posts, post : Posts \union {"none"}]

LEMMA NoTickOK == NoTick \in TickRecord /\ NoTick.queue = {} /\ NoTick.pc = "idle"
  BY SomeDays DEF NoTick, TickRecord

\* The tick writes its own record and the post in hand.
LEMMA TickKeepsTypes ==
    ASSUME BatchInv, TkNext
    PROVE  BatchInv'
<1>0. /\ ThemeOK /\ RequestsOK /\ tick \in TickRecord
      /\ tick.pc \in {"ask", "rated", "sorted"} => tick.debt > 0
      /\ tick.pc \in {"ask", "rated", "sorted", "card"} => tick.post \in Posts \ tick.queue
  BY BatchParts DEF BatchInv, HandsOK, TickOK, TickRecord
<1>1. ASSUME tick' \in TickRecord, req' = req, draft' = draft, ThemeOK',
             tick'.pc \in {"ask", "rated", "sorted"} => tick'.debt > 0,
             tick'.pc \in {"ask", "rated", "sorted", "card"} => tick'.post \in Posts \ tick'.queue,
             tick'.pc \in {"idle", "today"} => tick'.queue = {}
      PROVE  BatchInv'
  <2>1. HandsOK'
    BY <1>1 DEF BatchInv, HandsOK
  <2>2. RequestsOK' /\ TickOK'
    BY <1>0, <1>1 DEF RequestsOK, TickOK, TickRecord
  <2>3. BatchTypeOK'
    BY <1>1, <2>2 DEF BatchTypeOK, ThemeOK, RequestsOK, Request, TickOK
  <2>4. QED
    BY <2>1, <2>3 DEF BatchInv
<1>2. ASSUME UNCHANGED <<day, order, posts>>, crowd' \in SUBSET Posts, restarts' \in Nat, cards' \in Nat
      PROVE  ThemeOK'
  BY <1>0, <1>2 DEF ThemeOK, posts
<1>3. /\ crowd \in SUBSET Posts /\ restarts \in Nat /\ restarts + 1 \in Nat
      /\ cards \in Nat /\ cards + 1 \in Nat /\ day \in Days
  BY <1>0 DEF ThemeOK
<1>4. CASE TkDebt
  <2>1. Outstanding \in Nat /\ order.date \in Days \union {0} /\ order.size \in Nat
    BY <1>0, OutstandingNat DEF ThemeOK
  <2>2. tick' = [pc |-> "today", debt |-> Outstanding, date |-> order.date, size |-> order.size,
                 today |-> 1, queue |-> {}, post |-> "none"]
    BY <1>4 DEF TkDebt, NoTick
  <2>3. tick' \in TickRecord /\ tick'.pc = "today" /\ tick'.queue = {}
    BY <2>1, <2>2, SomeDays DEF TickRecord
  <2>4. QED
    BY <1>1, <1>2, <1>3, <1>4, <2>3 DEF TkDebt
<1>5. CASE TkList
  <2>1. /\ tick' \in TickRecord /\ tick'.pc \in {"idle", "loop"}
        /\ tick'.pc = "idle" => tick'.queue = {}
    <3>1. CASE Exceeded
      BY <1>5, <3>1, NoTickOK DEF TkList
    <3>2. CASE ~Exceeded
      BY <1>0, <1>3, <1>5, <3>2 DEF TkList, TickRecord
    <3>3. QED
      BY <3>1, <3>2
  <2>2. QED
    BY <1>1, <1>2, <1>3, <1>5, <2>1 DEF TkList, counters
<1>6. CASE TkStop
  BY <1>1, <1>2, <1>3, <1>6, NoTickOK DEF TkStop, counters
<1>7. ASSUME NEW p \in Posts, TkTake(p) PROVE BatchInv'
  <2>1. /\ tick' \in TickRecord
        /\ \/ tick'.pc = "loop"
           \/ tick'.pc = "ask" /\ tick'.debt > 0 /\ tick'.post = p /\ tick'.queue = tick.queue \ {p}
    BY <1>0, <1>7 DEF TkTake, TickRecord
  <2>2. QED
    BY <1>1, <1>2, <1>3, <1>7, <2>1 DEF TkTake, counters
<1>8. CASE TkAnswer \/ TkClassify
  <2>1. /\ tick' \in TickRecord /\ tick'.pc \in {"rated", "sorted"} /\ tick'.debt = tick.debt
        /\ tick'.post = tick.post /\ tick'.queue = tick.queue /\ tick.pc \in {"ask", "rated"}
    BY <1>0, <1>8 DEF TkAnswer, TkClassify, TickRecord
  <2>2. QED
    BY <1>0, <1>1, <1>2, <1>3, <1>8, <2>1 DEF TkAnswer, TkClassify, counters
<1>9. CASE TkDone
  <2>1. /\ tick' \in TickRecord /\ tick'.pc = "card" /\ tick'.post = tick.post
        /\ tick'.queue = tick.queue
    <3>1. TkRemaining \in Nat /\ tick.pc \in {"rated", "sorted"}
      BY <1>0, <1>9 DEF TkDone, TkRemaining, TickRecord
    <3>2. tick' = [tick EXCEPT !.pc = "card", !.debt = TkRemaining]
      BY <1>9 DEF TkDone
    <3>3. QED
      BY <1>0, <3>1, <3>2 DEF TickRecord
  <2>2. st' \in [Posts -> Stage] /\ batch' \in [Posts -> Days \union {0}]
    BY <1>0, <1>9 DEF TkDone, ThemeOK, Stage, TickRecord
  <2>3. ThemeOK'
    BY <1>0, <1>9, <2>2 DEF TkDone, ThemeOK, counters
  <2>4. QED
    BY <1>0, <1>1, <1>9, <2>1, <2>3 DEF TkDone
<1>10. CASE TkCard \/ TkFailEarly \/ TkFailPaid \/ TkFailCard
  <2>1. tick' \in TickRecord /\ tick'.pc = "loop"
    BY <1>0, <1>10 DEF TkCard, TkFailEarly, TkFailPaid, TkFailCard, TickRecord
  <2>2. QED
    BY <1>1, <1>2, <1>3, <1>10, <2>1 DEF TkCard, TkFailEarly, TkFailPaid, TkFailCard, counters
<1>11. CASE TkCrash
  BY <1>1, <1>2, <1>3, <1>11, NoTickOK DEF TkCrash
<1>12. QED
  BY <1>4, <1>5, <1>6, <1>7, <1>8, <1>9, <1>10, <1>11 DEF TkNext

\* Scoring, operators and midnight move one post, or the date.
LEMMA OthersKeepTypes ==
    ASSUME BatchInv, PostNext \/ MidnightStep
    PROVE  BatchInv'
<1>0. ThemeOK
  BY BatchParts DEF BatchInv
<1>1. ASSUME ThemeOK', UNCHANGED <<req, draft, tick>>
      PROVE  BatchInv'
  BY <1>1 DEF BatchInv, BatchTypeOK, ThemeOK, HandsOK
<1>2. ASSUME NEW p \in Posts, Choose(p) \/ Lose(p) \/ Restore(p) PROVE ThemeOK' /\ UNCHANGED <<req, draft, tick>>
  BY <1>0, <1>2 DEF Choose, Lose, Restore, ThemeOK, Stage, Crowded, counters
<1>3. ASSUME MidnightStep PROVE ThemeOK' /\ UNCHANGED <<req, draft, tick>>
  BY <1>0, <1>3, BatchAssumption DEF MidnightStep, Midnight, ThemeOK, Days, posts, counters
<1>4. QED
  BY <1>1, <1>2, <1>3 DEF PostNext

LEMMA BatchSteps == BatchInv /\ [Next]_vars => BatchInv'
<1> SUFFICES ASSUME BatchInv, [Next]_vars PROVE BatchInv'
  OBVIOUS
<1>1. CASE BatchStep
  BY <1>1, RequestKeepsTypes, TickKeepsTypes, OthersKeepTypes DEF BatchStep, BatchNext
<1>2. CASE MidnightStep
  BY <1>2, OthersKeepTypes
<1>3. CASE QualityStep \/ UNCHANGED vars
  <2>1. UNCHANGED <<day, order, st, batch, req, draft, tick, crowd, restarts, cards>>
    BY <1>3 DEF QualityStep, vars, batchVars
  <2>2. QED
    BY <2>1 DEF BatchInv, BatchTypeOK, HandsOK
<1>4. QED
  BY <1>1, <1>2, <1>3 DEF Next

LEMMA BatchInitOK == Init => BatchInv
<1> SUFFICES ASSUME Init PROVE BatchInv
  OBVIOUS
<1>1. BatchInit
  BY DEF Init
<1>2. ThemeOK
  BY <1>1, SomeDays DEF BatchInit, ThemeOK, Stage
<1>3. RequestsOK
  BY <1>1, NoRequestOK DEF BatchInit, RequestsOK, Untouched
<1>4. TickOK
  BY <1>1, NoTickOK DEF BatchInit, TickOK, TickRecord
<1>5. HandsOK
  BY <1>1 DEF BatchInit, HandsOK, NoTick, NoRequest
<1>6. QED
  BY <1>2, <1>3, <1>4, <1>5, BatchParts DEF BatchInv

\* Every step does one thing at most to the account.
UsageMove ==
    \/ UNCHANGED usageVars
    \/ \E p \in Payers, n \in Nat : Charge(p, n)
    \/ \E p \in Payers, q \in Payers : Book(p, q) \/ \E n \in {0, 1} : Rebook(p, q, n)
    \/ NewDay(Busy)

LEMMA UsageMoves == [Next]_vars => UsageMove
<1> SUFFICES ASSUME [Next]_vars PROVE UsageMove
  OBVIOUS
<1>0. "tick" \in Payers /\ "quality" \in Payers /\ "rubric" \in Payers /\ Requests \subseteq Payers
  BY Accounts
<1>1. ASSUME NEW r \in Requests, FgNext(r) PROVE UsageMove
  <2>1. CASE FgStart(r) \/ FgUnpaid(r) \/ \E p \in Posts : FgTake(r, p)
    BY <2>1 DEF FgStart, FgUnpaid, FgTake, UsageMove
  <2>2. CASE FgList(r) \/ FgRewritten(r) \/ FgUnsuitable(r) \/ FgFailed(r)
    <3>1. \E n \in Nat : Charge(r, n)
      <4>1. CASE FgRewritten(r) \/ FgFailed(r)
        BY <4>1 DEF FgRewritten, FgFailed
      <4>2. CASE FgUnsuitable(r)
        BY <4>2 DEF FgUnsuitable
      <4>3. CASE FgList(r)
        BY <4>3, Listed
      <4>4. QED
        BY <2>2, <4>1, <4>2, <4>3
    <3>2. QED
      BY <1>0, <3>1 DEF UsageMove
  <2>3. CASE FgCommit(r) \/ FgOrder(r)
    BY <1>0, <2>3 DEF FgCommit, FgOrder, UsageMove
  <2>4. CASE FgAbort(r)
    BY <1>0, <2>4 DEF FgAbort, Drop, UsageMove
  <2>5. QED
    BY <1>1, <2>1, <2>2, <2>3, <2>4 DEF FgNext
<1>2. ASSUME TkNext PROVE UsageMove
  <2>1. CASE TkDebt \/ TkList \/ TkCard \/ \E p \in Posts : TkTake(p)
    BY <2>1 DEF TkDebt, TkList, TkCard, TkTake, UsageMove
  <2>2. CASE TkAnswer \/ TkClassify
    BY <1>0, <2>2 DEF TkAnswer, TkClassify, UsageMove
  <2>3. CASE TkDone
    BY <1>0, <2>3 DEF TkDone, UsageMove
  <2>4. CASE TkStop \/ TkFailEarly \/ TkFailPaid \/ TkFailCard \/ TkCrash
    BY <1>0, <2>4 DEF TkStop, TkFailEarly, TkFailPaid, TkFailCard, TkCrash, TkRebook, Drop, UsageMove
  <2>5. QED
    BY <1>2, <2>1, <2>2, <2>3, <2>4 DEF TkNext
<1>3. ASSUME QualityNext PROVE UsageMove
  <2>1. CASE QuStart \/ QuPair \/ \E r \in Runs : QuCreate(r) \/ QuDelete(r)
    BY <2>1 DEF QuStart, QuPair, QuCreate, QuDelete, UsageMove
  <2>2. CASE QuAnswer
    BY <1>0, <2>2 DEF QuAnswer, UsageMove
  <2>3. CASE QuVerdict \/ QuRefused \/ QuDone
    BY <1>0, <2>3 DEF QuVerdict, QuRefused, QuStore, QuDone, UsageMove
  <2>4. CASE QuFail \/ QuCrash
    BY <1>0, <2>4 DEF QuFail, QuCrash, Drop, UsageMove
  <2>5. QED
    BY <1>3, <2>1, <2>2, <2>3, <2>4 DEF QualityNext, QuWork
<1>4. PostNext => UsageMove
  BY DEF PostNext, Choose, Lose, Restore, UsageMove
<1>5. MidnightStep => UsageMove
  BY DEF MidnightStep, Midnight, UsageMove
<1>6. UNCHANGED vars => UsageMove
  BY DEF vars, usageVars, UsageMove
<1>7. QED
  BY <1>1, <1>2, <1>3, <1>4, <1>5, <1>6 DEF Next, BatchStep, BatchNext, QualityStep

UsageInv == UsageTypeOK /\ part \in AtWork

LEMMA UsageSteps == UsageInv /\ AccountInv /\ AccountInv' /\ [Next]_vars => UsageInv'
<1> SUFFICES ASSUME UsageInv, AccountInv, AccountInv', [Next]_vars PROVE UsageInv'
  OBVIOUS
<1>1. part' = part
  BY DEF Next, BatchStep, QualityStep, MidnightStep, vars
<1>2. owed' \in [Payers -> Nat] /\ missing' \in [Background -> Int]
  BY DEF AccountInv, AccountTypes
<1>3. booked \in Nat /\ old \in SUBSET Payers /\ \A p \in Payers : owed[p] \in Nat
  BY DEF UsageInv, UsageTypeOK
<1>4. booked' \in Nat /\ old' \in SUBSET Payers
  <2>1. CASE UNCHANGED usageVars
    BY <1>3, <2>1 DEF usageVars
  <2>2. CASE \E p \in Payers, n \in Nat : Charge(p, n)
    BY <1>3, <2>2 DEF Charge
  <2>3. ASSUME NEW p \in Payers, NEW q \in Payers, Book(p, q)
        PROVE  booked' \in Nat /\ old' \in SUBSET Payers
    BY <1>3, <2>3 DEF Book, Settled
  <2>4. ASSUME NEW p \in Payers, NEW q \in Payers, NEW n \in {0, 1}, Rebook(p, q, n)
        PROVE  booked' \in Nat /\ old' \in SUBSET Payers
    BY <1>3, <2>4 DEF Rebook, Settled
  <2>5. CASE NewDay(Busy)
    <3>1. Busy \subseteq Payers
      BY Accounts DEF Busy, BatchBusy
    <3>2. QED
      BY <2>5, <3>1 DEF NewDay
  <2>6. QED
    BY <2>1, <2>2, <2>3, <2>4, <2>5, UsageMoves DEF UsageMove
<1>5. QED
  BY <1>1, <1>2, <1>3, <1>4 DEF UsageInv, UsageTypeOK

LEMMA UsageInitOK == Init => UsageInv
  BY UsageAssumption DEF Init, UsageInit, UsageInv, UsageTypeOK

\* Every variable of the payers keeps its type: nothing is ever booked below zero, and of
\* an order the debt the tick works off is a number of posts (daily_batch.py: outstanding).
THEOREM SpendingIsTyped == Spec => []TypeOK
<1>1. UsageInv /\ BatchInv /\ RunInv => TypeOK
  BY DEF UsageInv, BatchInv, RunInv, TypeOK
<1>2. QED
  BY <1>1, UsageInitOK, UsageSteps, BatchInitOK, BatchSteps, RunInit, RunSteps, AccountInit, AccountSteps,
     PTL DEF Spec

-----------------------------------------------------------------------------
\* A request at work has made every post it has a text for; the others have no text.
DraftsOK ==
    \A r \in Requests, p \in Posts :
        draft[r][p] = "alive" => p \in req[r].made /\ req[r].pc \in {"loop", "ask"}

\* What the tick still owes fits beside the posts that were there when it read the debt and
\* those it has made since; the others have come in the crowd.
DebtInv ==
    tick.pc # "idle" /\ tick.debt > 0 =>
        Cardinality(AliveIn(tick.date) \ crowd) + tick.debt <= tick.size

OrderInv == DraftsOK /\ DebtInv

LEMMA SomePosts ==
    ASSUME NEW S \in SUBSET Posts
    PROVE  IsFiniteSet(S) /\ Cardinality(S) \in Nat
<1>1. IsFiniteSet(S)
  BY BatchAssumption, FS_Subset
<1>2. QED
  BY <1>1, FS_CardinalityType

LEMMA FewerPosts ==
    ASSUME NEW S \in SUBSET Posts, NEW T \in SUBSET S
    PROVE  Cardinality(T) <= Cardinality(S)
  BY SomePosts, FS_Subset

LEMMA OnePostMore ==
    ASSUME NEW S \in SUBSET Posts, NEW p \in Posts, NEW T \in SUBSET (S \union {p})
    PROVE  Cardinality(T) <= Cardinality(S) + 1
<1>1. IsFiniteSet(S) /\ Cardinality(S) \in Nat
  BY SomePosts
<1>2. /\ IsFiniteSet(S \union {p})
      /\ Cardinality(S \union {p}) = IF p \in S THEN Cardinality(S) ELSE Cardinality(S) + 1
  BY <1>1, FS_AddElement
<1>3. Cardinality(T) <= Cardinality(S \union {p})
  BY <1>2, FS_Subset
<1>4. Cardinality(T) \in Nat
  BY SomePosts
<1>5. QED
  BY <1>1, <1>2, <1>3, <1>4

LEMMA BothPosts ==
    ASSUME NEW S \in SUBSET Posts, NEW C \in SUBSET Posts
    PROVE  Cardinality(S) <= Cardinality(S \ C) + Cardinality(C)
<1>1. IsFiniteSet(S \ C) /\ IsFiniteSet(C) /\ (S \ C) \intersect C = {} /\ S \subseteq (S \ C) \union C
  BY SomePosts
<1>2. /\ IsFiniteSet((S \ C) \union C)
      /\ Cardinality((S \ C) \union C) = Cardinality(S \ C) + Cardinality(C) - Cardinality({})
  BY <1>1, FS_Union
<1>3. Cardinality(S) <= Cardinality((S \ C) \union C)
  BY <1>1, <1>2, FS_Subset
<1>4. /\ Cardinality({}) = 0 /\ Cardinality(S) \in Nat
      /\ Cardinality(S \ C) \in Nat /\ Cardinality(C) \in Nat
  BY SomePosts, FS_EmptySet
<1>5. QED
  BY <1>2, <1>3, <1>4

\* While the tick is at work, no post of its day comes to life outside the crowd.
LEMMA DebtKept ==
    ASSUME BatchInv, DebtInv, tick' = tick, crowd' \in SUBSET Posts,
           tick.pc # "idle" => AliveIn(tick.date)' \ crowd' \subseteq AliveIn(tick.date) \ crowd
    PROVE  DebtInv'
<1>1. CASE tick.pc # "idle" /\ tick.debt > 0
  <2> DEFINE A == AliveIn(tick.date) \ crowd
             B == AliveIn(tick.date)' \ crowd'
  <2>1. A \in SUBSET Posts /\ B \in SUBSET A
    BY <1>1 DEF AliveIn
  <2>2. Cardinality(B) <= Cardinality(A) /\ Cardinality(A) \in Nat /\ Cardinality(B) \in Nat
    BY <2>1, FewerPosts, SomePosts
  <2>3. tick.debt \in Nat /\ tick.size \in Nat
    BY BatchParts DEF BatchInv, TickOK
  <2>4. Cardinality(A) + tick.debt <= tick.size
    BY <1>1 DEF DebtInv
  <2>5. Cardinality(B) + tick'.debt <= tick'.size
    BY <2>2, <2>3, <2>4
  <2>6. B = (AliveIn(tick.date) \ crowd)'
    OBVIOUS
  <2>7. QED
    BY <2>5 DEF DebtInv
<1>2. CASE ~ (tick.pc # "idle" /\ tick.debt > 0)
  BY <1>2 DEF DebtInv
<1>3. QED
  BY <1>1, <1>2

LEMMA SameDebt ==
    ASSUME DebtInv, UNCHANGED <<st, batch, crowd>>,
           \/ tick' = NoTick
           \/ /\ tick.pc # "idle" /\ tick'.debt = tick.debt
              /\ tick'.date = tick.date /\ tick'.size = tick.size
    PROVE  DebtInv'
  BY DEF DebtInv, AliveIn, NoTick

LEMMA RequestKeepsOrder ==
    ASSUME BatchInv, BatchInv', OrderInv, NEW r \in Requests, FgNext(r)
    PROVE  OrderInv'
<1> DEFINE q == req[r]
<1>0. /\ ThemeOK /\ RequestsOK /\ TickOK /\ q \in Request /\ draft[r] \in [Posts -> Stage \union {"same"}]
      /\ q.pc = "ask" => q.post \in Posts
  BY BatchParts DEF BatchInv, HandsOK, RequestsOK
<1>1. crowd' \in SUBSET Posts
  BY BatchParts DEF BatchInv, BatchTypeOK
<1>2. tick' = tick
  <2>1. ASSUME NEW p \in Posts, FgTake(r, p) PROVE tick' = tick
    BY <2>1 DEF FgTake
  <2>2. QED
    BY <2>1 DEF FgNext, FgStart, FgList, FgRewritten, FgUnsuitable, FgUnpaid, FgFailed, FgSettle, FgCommit,
                FgOrder, FgAbort
\* Only the commit is seen by others.
<1>3. DebtInv'
  <2>1. CASE UNCHANGED <<st, batch, crowd>>
    BY <1>1, <1>2, <2>1, DebtKept DEF OrderInv, AliveIn
  <2>2. CASE FgCommit(r)
    <3>1. ASSUME tick.pc # "idle", NEW p \in AliveIn(tick.date)' \ crowd'
          PROVE  p \in AliveIn(tick.date) \ crowd
      <4>1. p \in Posts /\ st'[p] = "alive" /\ batch'[p] = tick.date /\ p \notin crowd /\ p \notin q.made
        BY <1>2, <2>2, <3>1 DEF AliveIn, FgCommit, Crowded
      <4>2. draft[r][p] # "alive"
        BY <4>1 DEF OrderInv, DraftsOK
      <4>3. st'[p] = (IF draft[r][p] = "same" THEN st[p] ELSE draft[r][p]) /\ batch'[p] = batch[p]
        BY <2>2, <4>1, <4>2 DEF FgCommit, FgLabel
      <4>4. QED
        BY <4>1, <4>2, <4>3 DEF AliveIn
    <3>2. QED
      BY <1>1, <1>2, <3>1, DebtKept DEF OrderInv
  <2>3. ASSUME NEW p \in Posts, FgTake(r, p) PROVE UNCHANGED <<st, batch, crowd>>
    BY <2>3 DEF FgTake, posts, counters
  <2>4. FgNext(r) => UNCHANGED <<st, batch, crowd>> \/ FgCommit(r)
    BY <2>3 DEF FgNext, FgStart, FgList, FgRewritten, FgUnsuitable, FgUnpaid, FgFailed, FgSettle,
                FgOrder, FgAbort, posts, counters
  <2>5. QED
    BY <2>1, <2>2, <2>4
<1>4. DraftsOK'
  <2>1. ASSUME NEW x, NEW d \in [Posts -> Stage \union {"same"}],
               req' = [req EXCEPT ![r] = x], draft' = [draft EXCEPT ![r] = d],
               \A p \in Posts : d[p] = "alive" => p \in x.made /\ x.pc \in {"loop", "ask"}
        PROVE  DraftsOK'
    <3>1. \A s \in Requests : req'[s] = (IF s = r THEN x ELSE req[s]) /\ draft'[s] = IF s = r THEN d ELSE draft[s]
      BY <1>0, <2>1 DEF RequestsOK
    <3>2. QED
      BY <2>1, <3>1 DEF OrderInv, DraftsOK
  <2>2. /\ draft = [draft EXCEPT ![r] = draft[r]] /\ Untouched \in [Posts -> Stage \union {"same"}]
        /\ \A p \in Posts : Untouched[p] # "alive"
        /\ \A p \in Posts : draft[r][p] = "alive" => p \in q.made /\ q.pc \in {"loop", "ask"}
    BY <1>0 DEF RequestsOK, Untouched, OrderInv, DraftsOK
  <2>3. CASE FgStart(r)
    <3>1. PICK k \in {"batch", "count"} :
            req' = [req EXCEPT ![r] = [NoRequest EXCEPT !.pc = "list", !.kind = k, !.today = day]]
      BY <2>3 DEF FgStart
    <3>2. \A p \in Posts : draft[r][p] # "alive"
      BY <2>2, <2>3 DEF FgStart
    <3>3. QED
      BY <1>0, <2>1, <2>2, <2>3, <3>1, <3>2 DEF FgStart
  <2>4. CASE FgList(r)
    <3>1. \A p \in Posts : draft[r][p] # "alive"
      BY <2>2, <2>4 DEF FgList
    <3>2. PICK x : req' = [req EXCEPT ![r] = x]
      BY <2>4, Listed
    <3>3. QED
      BY <1>0, <2>1, <2>2, <2>4, <3>1, <3>2 DEF FgList
  <2>5. ASSUME NEW p \in Posts, FgTake(r, p) PROVE DraftsOK'
    <3> DEFINE x == [q EXCEPT !.pc = "ask", !.post = p, !.todo = @ \ {p}]
               d == [draft[r] EXCEPT ![p] = "chosen"]
    <3>1. x.made = q.made /\ x.pc = "ask" /\ d \in [Posts -> Stage \union {"same"}]
          /\ \A o \in Posts : d[o] = "alive" => draft[r][o] = "alive"
      BY <1>0 DEF Request, Stage
    <3>2. req' = [req EXCEPT ![r] = x] /\ draft' = [draft EXCEPT ![r] = d]
      BY <1>0, <2>5 DEF FgTake, RequestsOK
    <3>3. \A o \in Posts : d[o] = "alive" => o \in x.made /\ x.pc \in {"loop", "ask"}
      BY <2>2, <3>1
    <3> HIDE DEF x, d
    <3>4. QED
      BY <2>1, <3>1, <3>2, <3>3
  <2>6. ASSUME NEW s \in Stage, q.pc = "ask", FgSettle(r, s) PROVE DraftsOK'
    <3> DEFINE x == [q EXCEPT !.pc = "loop", !.post = "none",
                              !.made = IF s = "alive" THEN @ \union {req[r].post} ELSE @]
               d == [draft[r] EXCEPT ![req[r].post] = s]
    <3>1. /\ x.made = (IF s = "alive" THEN q.made \union {q.post} ELSE q.made) /\ x.pc = "loop"
          /\ d \in [Posts -> Stage \union {"same"}]
          /\ \A o \in Posts : d[o] = IF o = q.post THEN s ELSE draft[r][o]
      BY <1>0, <2>6 DEF Request
    <3>2. req' = [req EXCEPT ![r] = x] /\ draft' = [draft EXCEPT ![r] = d]
      BY <1>0, <2>6 DEF FgSettle, RequestsOK
    <3>3. \A o \in Posts : d[o] = "alive" => o \in x.made /\ x.pc \in {"loop", "ask"}
      BY <2>2, <3>1
    <3> HIDE DEF x, d
    <3>4. QED
      BY <2>1, <3>1, <3>2, <3>3
  <2>7. CASE FgRewritten(r) \/ FgUnsuitable(r) \/ FgUnpaid(r) \/ FgFailed(r)
    BY <2>6, <2>7 DEF FgRewritten, FgUnsuitable, FgUnpaid, FgFailed, Stage
  <2>8. CASE FgCommit(r) \/ FgAbort(r)
    BY <1>0, <2>1, <2>2, <2>8 DEF FgCommit, FgAbort
  <2>9. CASE FgOrder(r)
    <3>1. \A p \in Posts : draft[r][p] # "alive"
      BY <2>2, <2>9 DEF FgOrder
    <3>2. QED
      BY <1>0, <2>1, <2>2, <2>9, <3>1 DEF FgOrder
  <2>10. QED
    BY <2>3, <2>4, <2>5, <2>7, <2>8, <2>9 DEF FgNext
<1>5. QED
  BY <1>3, <1>4 DEF OrderInv

\* The tick changes the post in hand and no other.
LEMMA OneMoreAlive ==
    ASSUME BatchInv, TkDone, NEW p \in Posts, p # tick.post
    PROVE  st'[p] = st[p] /\ batch'[p] = batch[p]
<1>1. /\ st' = [st EXCEPT ![tick.post] = "alive"]
      /\ batch' = [batch EXCEPT ![tick.post] = tick.today]
  BY DEF TkDone
<1>2. st \in [Posts -> Stage] /\ batch \in [Posts -> Days \union {0}]
  BY DEF BatchInv, BatchTypeOK
<1>3. QED
  BY <1>1, <1>2

\* The post the tick has made was counted as owed until then.
LEMMA DoneFits ==
    ASSUME BatchInv, OrderInv, TkDone
    PROVE  /\ Cardinality(AliveIn(tick.date)' \ crowd) + tick.debt - 1 <= tick.size
           /\ crowd' = crowd /\ tick.debt \in Nat
           /\ tick'.debt = tick.debt - 1 /\ tick'.date = tick.date /\ tick'.size = tick.size
<1> DEFINE A == AliveIn(tick.date) \ crowd
           B == AliveIn(tick.date)' \ crowd
<1>1. /\ tick.pc \in {"rated", "sorted"} /\ tick' = [tick EXCEPT !.pc = "card", !.debt = TkRemaining]
      /\ crowd' = crowd
  BY DEF TkDone, counters
<1>2. TickOK /\ tick.debt > 0 /\ tick.post \in Posts
  BY <1>1, BatchParts DEF BatchInv, HandsOK
<1>3. tick'.debt = tick.debt - 1 /\ tick'.date = tick.date /\ tick'.size = tick.size
  BY <1>1, <1>2 DEF TickOK, TkRemaining
<1>4. A \in SUBSET Posts /\ B \in SUBSET (A \union {tick.post})
  BY <1>3, OneMoreAlive DEF AliveIn
<1>5. Cardinality(B) <= Cardinality(A) + 1 /\ Cardinality(A) \in Nat /\ Cardinality(B) \in Nat
  BY <1>2, <1>4, OnePostMore, SomePosts
<1>6. Cardinality(A) + tick.debt <= tick.size
  BY <1>1, <1>2 DEF OrderInv, DebtInv
<1>7. tick.debt \in Nat /\ tick.size \in Nat
  BY <1>2 DEF TickOK
<1>8. QED
  BY <1>1, <1>5, <1>6, <1>7, <1>3

LEMMA TickKeepsOrder ==
    ASSUME BatchInv, OrderInv, TkNext
    PROVE  OrderInv'
<1>0. ThemeOK /\ TickOK
  BY BatchParts DEF BatchInv
<1>1. DraftsOK'
  <2>1. UNCHANGED <<req, draft>>
    BY DEF TkNext, TkDebt, TkList, TkStop, TkTake, TkAnswer, TkClassify, TkDone, TkCard, TkFailEarly,
           TkFailPaid, TkFailCard, TkCrash
  <2>2. QED
    BY <2>1 DEF OrderInv, DraftsOK
<1>2. CASE TkDebt
  <2>1. /\ tick'.debt = Outstanding /\ tick'.date = order.date /\ tick'.size = order.size
        /\ crowd' = {} /\ UNCHANGED <<st, batch>>
    BY <1>2 DEF TkDebt, NoTick, posts
  <2> DEFINE A == AliveIn(order.date)
  <2>2. Cardinality(A) \in Nat /\ order.size \in Nat
    <3>1. A \in SUBSET Posts
      BY DEF AliveIn
    <3>2. QED
      BY <1>0, <3>1, SomePosts DEF ThemeOK
  <2>3. Outstanding > 0 => Cardinality(A) + Outstanding <= order.size
    BY <2>2 DEF Outstanding
  <2>4. (AliveIn(tick.date) \ crowd)' = A
    BY <2>1 DEF AliveIn
  <2>5. DebtInv'
    BY <2>1, <2>3, <2>4 DEF DebtInv
  <2>6. QED
    BY <1>1, <2>5 DEF OrderInv
<1>3. CASE TkDone
  <2>1. /\ Cardinality(AliveIn(tick.date)' \ crowd) + tick.debt - 1 <= tick.size
        /\ crowd' = crowd /\ tick.debt \in Nat
        /\ tick'.debt = tick.debt - 1 /\ tick'.date = tick.date /\ tick'.size = tick.size
    BY <1>3, DoneFits
  <2>2. (AliveIn(tick.date) \ crowd)' = AliveIn(tick.date)' \ crowd
    BY <2>1 DEF AliveIn
  <2>3. Cardinality(AliveIn(tick.date)' \ crowd) \in Nat
    <3>1. AliveIn(tick.date)' \ crowd \in SUBSET Posts
      BY DEF AliveIn
    <3>2. QED
      BY <3>1, SomePosts
  <2>4. DebtInv'
    BY <1>0, <2>1, <2>2, <2>3 DEF DebtInv, TickOK
  <2>5. QED
    BY <1>1, <2>4 DEF OrderInv
<1>4. CASE TkList \/ TkStop \/ TkAnswer \/ TkClassify \/ TkCard \/ TkFailEarly \/ TkFailPaid
           \/ TkFailCard \/ TkCrash \/ \E p \in Posts : TkTake(p)
  <2>1. UNCHANGED <<st, batch, crowd>>
    BY <1>4 DEF TkList, TkStop, TkAnswer, TkClassify, TkCard, TkFailEarly, TkFailPaid, TkFailCard,
                TkCrash, TkTake, posts, counters
  <2>2. \/ tick' = NoTick
        \/ /\ tick.pc # "idle" /\ tick'.debt = tick.debt
           /\ tick'.date = tick.date /\ tick'.size = tick.size
    <3>1. ASSUME NEW p \in Posts, TkTake(p)
          PROVE  /\ tick.pc # "idle" /\ tick'.debt = tick.debt
                 /\ tick'.date = tick.date /\ tick'.size = tick.size
      BY <1>0, <3>1 DEF TkTake, TickOK
    <3>2. TkStop \/ TkCrash => tick' = NoTick
      BY DEF TkStop, TkCrash
    <3>3. ASSUME TkList \/ TkAnswer \/ TkClassify \/ TkCard \/ TkFailEarly \/ TkFailPaid \/ TkFailCard
          PROVE  \/ tick' = NoTick
                 \/ /\ tick.pc # "idle" /\ tick'.debt = tick.debt
                    /\ tick'.date = tick.date /\ tick'.size = tick.size
      BY <1>0, <3>3 DEF TkList, TkAnswer, TkClassify, TkCard, TkFailEarly, TkFailPaid, TkFailCard, TickOK
    <3>4. QED
      BY <1>4, <3>1, <3>2, <3>3
  <2>3. QED
    BY <1>1, <2>1, <2>2, SameDebt DEF OrderInv
<1>5. QED
  BY <1>2, <1>3, <1>4 DEF TkNext

\* A post that is restored comes with the crowd; one that is lost, or chosen, is not alive.
LEMMA PostsKeepOrder ==
    ASSUME BatchInv, OrderInv, NEW p \in Posts, Choose(p) \/ Lose(p) \/ Restore(p)
    PROVE  OrderInv'
<1>1. ThemeOK /\ UNCHANGED <<req, draft, tick, batch>>
  BY BatchParts DEF BatchInv, Choose, Lose, Restore
<1>2. DraftsOK'
  BY <1>1 DEF OrderInv, DraftsOK
<1>3. crowd' \in SUBSET Posts
  BY <1>1 DEF Choose, Lose, Restore, ThemeOK, Crowded, counters
<1>4. ASSUME tick.pc # "idle", NEW o \in AliveIn(tick.date)' \ crowd'
      PROVE  o \in AliveIn(tick.date) \ crowd
  <2>1. o \in Posts /\ st'[o] = "alive" /\ batch[o] = tick.date /\ o \notin crowd'
    BY <1>1, <1>4 DEF AliveIn
  <2>2. st[o] = "alive" /\ o \notin crowd
    BY <1>1, <1>4, <2>1 DEF Choose, Lose, Restore, ThemeOK, Crowded, counters
  <2>3. QED
    BY <2>1, <2>2 DEF AliveIn
<1>5. QED
  BY <1>1, <1>2, <1>3, <1>4, DebtKept DEF OrderInv

LEMMA OrderSteps == BatchInv /\ BatchInv' /\ OrderInv /\ [Next]_vars => OrderInv'
<1> SUFFICES ASSUME BatchInv, BatchInv', OrderInv, [Next]_vars PROVE OrderInv'
  OBVIOUS
<1>1. CASE BatchStep
  BY <1>1, RequestKeepsOrder, TickKeepsOrder, PostsKeepOrder DEF BatchStep, BatchNext, PostNext
<1>2. CASE MidnightStep \/ QualityStep \/ UNCHANGED vars
  <2>1. UNCHANGED <<order, st, batch, req, draft, tick, crowd>>
    BY <1>2 DEF MidnightStep, Midnight, QualityStep, vars, batchVars, posts, counters
  <2>2. QED
    BY <2>1 DEF OrderInv, DraftsOK, DebtInv, AliveIn
<1>3. QED
  BY <1>1, <1>2 DEF Next

LEMMA OrderInitOK == Init => OrderInv
  BY DEF Init, BatchInit, OrderInv, DraftsOK, DebtInv, NoTick, Untouched

\* The tick makes no more posts of a day's batch than were ordered, beside those that
\* requests and restores have added since it read the debt (dedup_and_rewrite_job works
\* off outstanding, read once).
THEOREM OrderIsNotOverfilled == Spec => OrderNotOverfilled
<1> DEFINE Fits == (TkDone /\ tick.today = tick.date) =>
                      Cardinality(AliveIn(tick.today)') <= tick.size + Cardinality(crowd)
<1>1. ASSUME BatchInv, OrderInv, TkDone, tick.today = tick.date
      PROVE  Cardinality(AliveIn(tick.today)') <= tick.size + Cardinality(crowd)
  <2> DEFINE B == AliveIn(tick.today)'
  <2>1. Cardinality(B \ crowd) + tick.debt - 1 <= tick.size
    <3>1. tick'.today = tick.today /\ tick'.date = tick.date
      BY <1>1, BatchParts DEF BatchInv, TickOK, TkDone
    <3>2. B \ crowd = AliveIn(tick.date)' \ crowd
      BY <1>1, <3>1 DEF AliveIn
    <3>3. QED
      BY <1>1, <3>2, DoneFits
  <2>2. tick.debt \in Nat /\ tick.debt > 0 /\ tick.size \in Nat /\ crowd \in SUBSET Posts
    BY <1>1, BatchParts DEF BatchInv, HandsOK, TickOK, ThemeOK, TkDone
  <2>3. B \in SUBSET Posts
    BY DEF AliveIn
  <2>4. /\ Cardinality(B) <= Cardinality(B \ crowd) + Cardinality(crowd)
        /\ Cardinality(B) \in Nat /\ Cardinality(crowd) \in Nat /\ Cardinality(B \ crowd) \in Nat
    BY <2>2, <2>3, BothPosts, SomePosts
  <2>5. QED
    BY <2>1, <2>2, <2>4
<1>2. BatchInv /\ OrderInv => Fits
  BY <1>1
<1> HIDE DEF Fits
<1>3. Spec => [][Fits]_vars
  BY <1>2, BatchInitOK, BatchSteps, OrderInitOK, OrderSteps, PTL DEF Spec
<1>4. QED
  BY <1>3 DEF Fits, OrderNotOverfilled

-----------------------------------------------------------------------------
\* What each session has spent, and may still spend, once the limit is behind it.

\* The answers a request x may still pay for, for the posts it has chosen.
StillAsks(x) == 2 * Cardinality(x.todo) + IF x.pc = "ask" THEN 2 ELSE 0
Affords(x, n) == IF x.pc \in {"loop", "ask"} THEN n + StillAsks(x) <= RequestCost ELSE n = 0

\* What a request owes leaves room for what it still asks; the tick's classification
\* is open only until the post it belongs to is done.
SharesInv ==
    /\ \A r \in Requests : Affords(req[r], owed[r])
    /\ owed["rubric"] <= IF tick.pc = "sorted" THEN 1 ELSE 0

\* The requests that have not booked yet, and what tick and quality run may still book
\* before they ask for the budget again.
Ahead == {r \in Requests : req[r].pc \in {"none", "list", "loop", "ask"}}
TickAhead == 2 * Cardinality(tick.queue) + IF tick.pc \in {"ask", "rated", "sorted"} THEN 2 ELSE 0
QualityAhead == IF work.pc = "ask" THEN 4 ELSE 0
Rest == Cardinality(Ahead) * RequestCost + TickAhead + QualityAhead

AheadInv == Limit > 0 /\ booked >= Limit => booked + Rest < Limit + Allowance + cards

SpendInv == UsageInv /\ BatchInv /\ RunInv /\ AccountInv

LEMMA Products ==
    ASSUME NEW w \in Nat, NEW m \in Nat, NEW n \in Nat, m <= n
    PROVE  /\ m * w \in Nat /\ n * w \in Nat /\ m * w <= n * w
           /\ (m + 1) * w = m * w + w
  OBVIOUS

LEMMA SomeRequests ==
    ASSUME NEW S \in SUBSET Requests
    PROVE  IsFiniteSet(S) /\ Cardinality(S) \in Nat
<1>1. IsFiniteSet(S)
  BY UsageAssumption, BatchAssumption, FS_Subset
<1>2. QED
  BY <1>1, FS_CardinalityType

RestOK ==
    /\ Cardinality(Posts) \in Nat /\ Cardinality(Requests) \in Nat
    /\ Ahead \in SUBSET Requests /\ Cardinality(Ahead) \in Nat
    /\ TickAhead \in Nat /\ TickAhead <= 2 * Cardinality(Posts)
    /\ QualityAhead \in Nat /\ Rest \in Nat /\ Allowance \in Nat /\ Rest <= Allowance

LEMMA RestTypes == BatchInv => RestOK
<1> SUFFICES ASSUME BatchInv PROVE RestOK
  OBVIOUS
<1>1. Cardinality(Posts) \in Nat /\ Cardinality(Requests) \in Nat /\ IsFiniteSet(Requests)
  BY SomePosts, SomeRequests
<1>2. Ahead \in SUBSET Requests
  BY DEF Ahead
<1>3. Cardinality(Ahead) \in Nat /\ Cardinality(Ahead) <= Cardinality(Requests)
  BY <1>1, <1>2, SomeRequests, FS_Subset
<1>4. TickAhead \in Nat /\ TickAhead <= 2 * Cardinality(Posts)
  <2>1. tick.queue \in SUBSET Posts
    BY BatchParts DEF BatchInv, TickOK
  <2>2. Cardinality(tick.queue) \in Nat /\ Cardinality(tick.queue) <= Cardinality(Posts)
    BY <2>1, SomePosts, FewerPosts
  <2>3. CASE tick.pc \in {"ask", "rated", "sorted"}
    <3>1. tick.post \in Posts \ tick.queue
      BY <2>3 DEF BatchInv, HandsOK
    <3>2. IsFiniteSet(tick.queue)
      BY <2>1, SomePosts
    <3>3. Cardinality(tick.queue \union {tick.post}) = Cardinality(tick.queue) + 1
      BY <3>1, <3>2, FS_AddElement
    <3>4. tick.queue \union {tick.post} \in SUBSET Posts
      BY <2>1, <3>1
    <3>5. Cardinality(tick.queue \union {tick.post}) <= Cardinality(Posts)
      BY <3>4, FewerPosts
    <3>6. QED
      BY <1>1, <2>2, <2>3, <3>3, <3>5 DEF TickAhead
  <2>4. CASE tick.pc \notin {"ask", "rated", "sorted"}
    BY <1>1, <2>2, <2>4 DEF TickAhead
  <2>5. QED
    BY <2>3, <2>4
<1>5. QualityAhead \in Nat /\ QualityAhead <= 4
  BY DEF QualityAhead
<1>6. RequestCost \in Nat /\ Allowance = Cardinality(Requests) * RequestCost + Cardinality(Posts) * 2 + 4
  BY BatchAssumption DEF Allowance, RequestCost
<1>7. /\ Cardinality(Ahead) * RequestCost \in Nat /\ Cardinality(Requests) * RequestCost \in Nat
      /\ Cardinality(Ahead) * RequestCost <= Cardinality(Requests) * RequestCost
  BY <1>1, <1>3, <1>6, Products
<1>8. Rest = Cardinality(Ahead) * RequestCost + TickAhead + QualityAhead
  BY DEF Rest
<1>10. Rest \in Nat /\ Rest <= Allowance /\ Allowance \in Nat
  BY <1>1, <1>4, <1>5, <1>6, <1>7, <1>8
<1>11. QED
  BY <1>1, <1>2, <1>3, <1>4, <1>5, <1>10 DEF RestOK

LEMMA Room ==
    ASSUME NEW b \in Nat, NEW b2 \in Nat, NEW s \in Nat, NEW s2 \in Nat, NEW c \in Nat, NEW c2 \in Nat,
           NEW w \in Nat, NEW l \in Nat, s <= w, b < l \/ b + s < l + w + c,
           b2 + s2 + c <= b + s + c2
    PROVE  b2 + s2 < l + w + c2
  OBVIOUS

\* The bound holds wherever a step leaves the account below the limit, or books no more
\* than it takes from what is still ahead.
LEMMA AheadKept ==
    ASSUME BatchInv, BatchInv', AheadInv, booked \in Nat, booked' \in Nat,
           Limit > 0 => booked' < Limit \/ booked' + Rest' + cards <= booked + Rest + cards'
    PROVE  AheadInv'
<1>1. Limit \in Nat /\ cards \in Nat /\ cards' \in Nat
  BY UsageAssumption DEF BatchInv, BatchTypeOK
<1>2. Rest \in Nat /\ Rest <= Allowance /\ Allowance \in Nat
  BY RestTypes DEF RestOK
<1>3. Rest' \in Nat
  <2>1. BatchInv' => RestOK'
    BY RestTypes, PTL
  <2>2. QED
    BY <2>1 DEF RestOK
<1>4. Allowance' = Allowance
  BY DEF Allowance, RequestCost
<1>5. ASSUME Limit > 0, booked' >= Limit
      PROVE  booked' + Rest' < Limit + Allowance + cards'
  <2>1. booked' + Rest' + cards <= booked + Rest + cards'
    BY <1>1, <1>5
  <2>2. booked < Limit \/ booked + Rest < Limit + Allowance + cards
    BY <1>1, <1>5 DEF AheadInv
  <2>3. QED
    BY <1>1, <1>2, <1>3, <2>1, <2>2, Room
<1>6. QED
  BY <1>4, <1>5 DEF AheadInv

LEMMA Costs == RequestCost \in Nat /\ BatchSize \in Nat /\ PoolSize \in Nat /\ RequestCost = PoolSize + 2 * BatchSize
  BY BatchAssumption DEF RequestCost

LEMMA AsksNat ==
    ASSUME NEW x, x.todo \in SUBSET Posts
    PROVE  /\ Cardinality(x.todo) \in Nat /\ StillAsks(x) \in Nat
           /\ \A n \in Nat : Affords(x, n) => n <= RequestCost
<1>1. Cardinality(x.todo) \in Nat
  BY SomePosts
<1>2. QED
  BY <1>1, Costs DEF StillAsks, Affords

\* Done with the post in hand, a request asks two answers less.
LEMMA SettledAsks ==
    ASSUME NEW x, x.pc = "ask", x.todo \in SUBSET Posts, NEW y, y.pc = "loop", y.todo = x.todo
    PROVE  /\ StillAsks(x) \in Nat /\ StillAsks(y) \in Nat /\ StillAsks(x) = StillAsks(y) + 2
<1>1. Cardinality(x.todo) \in Nat
  BY SomePosts
<1>2. QED
  BY <1>1 DEF StillAsks

LEMMA RequestKeepsShares ==
    ASSUME SpendInv, SharesInv, NEW r \in Requests, FgNext(r)
    PROVE  SharesInv'
<1> DEFINE q == req[r]
<1>0. /\ RequestsOK /\ q \in Request /\ AccountTypes
      /\ q.pc = "ask" => q.post \in Posts \ q.todo
      /\ owed[r] \in Nat /\ Affords(q, owed[r])
      /\ r \in Payers /\ r # "rubric" /\ Requests \subseteq Payers /\ "rubric" \in Payers
  BY BatchParts, Accounts, BatchAssumption
     DEF SpendInv, BatchInv, HandsOK, RequestsOK, AccountInv, AccountTypes, SharesInv
<1>1. tick' = tick
  <2>1. ASSUME NEW p \in Posts, FgTake(r, p) PROVE tick' = tick
    BY <2>1 DEF FgTake
  <2>2. QED
    BY <2>1 DEF FgNext, FgStart, FgList, FgRewritten, FgUnsuitable, FgUnpaid, FgFailed, FgSettle, FgCommit,
                FgOrder, FgAbort
<1>2. ASSUME NEW x, req' = [req EXCEPT ![r] = x], owed' \in [Payers -> Nat],
             \A j \in Payers : j # r => owed'[j] = owed[j],
             Affords(x, owed'[r])
      PROVE  SharesInv'
  <2>1. \A s \in Requests : req'[s] = IF s = r THEN x ELSE req[s]
    BY <1>0, <1>2 DEF RequestsOK
  <2>2. \A s \in Requests : Affords(req'[s], owed'[s])
    BY <1>0, <1>2, <2>1 DEF SharesInv
  <2>3. owed'["rubric"] <= IF tick'.pc = "sorted" THEN 1 ELSE 0
    BY <1>0, <1>1, <1>2 DEF SharesInv
  <2>4. SharesInv' <=> /\ \A s \in Requests : Affords(req'[s], owed'[s])
                       /\ owed'["rubric"] <= IF tick'.pc = "sorted" THEN 1 ELSE 0
    BY DEF SharesInv, Affords, StillAsks, RequestCost
  <2>5. QED
    BY <2>2, <2>3, <2>4
<1>3. q.todo \in SUBSET Posts /\ Cardinality(q.todo) \in Nat
  BY <1>0, SomePosts DEF Request
\* What n answers paid for at once make of the account.
<1>4. ASSUME NEW n \in Nat, Charge(r, n)
      PROVE  /\ owed' \in [Payers -> Nat] /\ \A j \in Payers : j # r => owed'[j] = owed[j]
             /\ owed'[r] \in Nat /\ owed'[r] <= owed[r] + n /\ (owed[r] = 0 /\ n = 0 => owed'[r] = 0)
  <2>1. /\ owed' \in [Payers -> Nat]
        /\ \A j \in Payers : owed'[j] = IF j = r /\ r \notin old THEN owed[j] + n ELSE owed[j]
    BY <1>0, <1>4, ChargeEffect
  <2>2. QED
    BY <1>0, <2>1
<1>5. CASE FgStart(r)
  <2>1. PICK k \in {"batch", "count"} :
          req' = [req EXCEPT ![r] = [NoRequest EXCEPT !.pc = "list", !.kind = k, !.today = day]]
    BY <1>5 DEF FgStart
  <2> DEFINE x == [NoRequest EXCEPT !.pc = "list", !.kind = k, !.today = day]
  <2>2. owed[r] = 0 /\ owed' = owed /\ x.pc = "list"
    BY <1>0, <1>5 DEF FgStart, Affords, usageVars, NoRequest
  <2>3. Affords(x, owed'[r])
    BY <2>2 DEF Affords
  <2>4. QED
    BY <1>0, <1>2, <2>1, <2>2, <2>3 DEF AccountTypes
<1>6. CASE FgList(r)
  <2>1. PICK chosen \in SUBSET Posts, n \in Nat :
              /\ Cardinality(chosen) <= BatchSize /\ n <= PoolSize /\ (chosen = {} => n = 0)
              /\ req' = [req EXCEPT ![r] = IF chosen = {} THEN Finished
                                           ELSE [req[r] EXCEPT !.pc = "loop", !.todo = chosen]]
              /\ Charge(r, n)
    BY <1>6, Listed
  <2>2. q.pc = "list" /\ owed[r] = 0
    BY <1>0, <1>6 DEF FgList, Affords
  <2>3. CASE chosen # {}
    <3> DEFINE x == [q EXCEPT !.pc = "loop", !.todo = chosen]
    <3>1. x.pc = "loop" /\ x.todo = chosen /\ Cardinality(chosen) \in Nat
      BY <1>0, SomePosts DEF Request
    <3>2. StillAsks(x) = 2 * Cardinality(chosen)
      BY <3>1 DEF StillAsks
    <3>3. owed'[r] \in Nat /\ owed'[r] <= n
      BY <1>4, <2>1, <2>2
    <3>4. owed'[r] + 2 * Cardinality(chosen) <= RequestCost
      BY <2>1, <3>1, <3>3, Costs
    <3>5. Affords(x, owed'[r])
      BY <3>1, <3>2, <3>4 DEF Affords
    <3>6. QED
      BY <1>2, <1>4, <2>1, <2>3, <3>5
  <2>4. CASE chosen = {}
    <3>1. Finished.pc = "done"
      BY DEF Finished, NoRequest
    <3>2. QED
      BY <1>2, <1>4, <2>1, <2>2, <2>4, <3>1 DEF Affords
  <2>5. QED
    BY <2>3, <2>4
<1>7. ASSUME NEW p \in Posts, FgTake(r, p) PROVE SharesInv'
  <2> DEFINE x == [q EXCEPT !.pc = "ask", !.post = p, !.todo = @ \ {p}]
  <2>1. req' = [req EXCEPT ![r] = x] /\ q.pc = "loop" /\ p \in q.todo /\ owed' = owed
    BY <1>0, <1>7 DEF FgTake, RequestsOK, usageVars
  <2>2. x.pc = "ask" /\ x.todo = q.todo \ {p}
    BY <1>0 DEF Request
  <2>3. Cardinality(x.todo) = Cardinality(q.todo) - 1
    BY <1>3, <2>1, <2>2, SomePosts, FS_RemoveElement
  <2>4. StillAsks(x) = StillAsks(q)
    BY <1>3, <2>1, <2>2, <2>3 DEF StillAsks
  <2>5. Affords(x, owed'[r])
    BY <1>0, <2>1, <2>2, <2>4 DEF Affords
  <2>6. QED
    BY <1>0, <1>2, <2>1, <2>5 DEF AccountTypes
<1>8. ASSUME NEW s, NEW n \in 0 .. 2, q.pc = "ask", FgSettle(r, s),
             owed' \in [Payers -> Nat], \A j \in Payers : j # r => owed'[j] = owed[j],
             owed'[r] <= owed[r] + n
      PROVE  SharesInv'
  <2> DEFINE x == [q EXCEPT !.pc = "loop", !.post = "none",
                            !.made = IF s = "alive" THEN @ \union {req[r].post} ELSE @]
  <2>1. x.pc = "loop" /\ x.todo = q.todo
    BY <1>0 DEF Request
  <2>2. StillAsks(q) \in Nat /\ StillAsks(x) \in Nat /\ StillAsks(q) = StillAsks(x) + 2
    BY <1>3, <1>8, <2>1, SettledAsks
  <2>3. owed[r] + StillAsks(q) <= RequestCost
    BY <1>0, <1>8 DEF Affords
  <2>4. owed'[r] \in Nat
    BY <1>0, <1>8
  <2>5. owed'[r] + StillAsks(x) <= RequestCost
    BY <1>0, <1>3, <1>8, <2>2, <2>3, <2>4, Costs
  <2>6. Affords(x, owed'[r])
    BY <2>1, <2>5 DEF Affords
  <2>7. req' = [req EXCEPT ![r] = x]
    BY <1>0, <1>8 DEF FgSettle, RequestsOK
  <2>8. QED
    BY <1>2, <1>8, <2>6, <2>7
<1>9. ASSUME NEW s, NEW n \in 0 .. 2, q.pc = "ask", FgSettle(r, s), Charge(r, n) PROVE SharesInv'
  BY <1>4, <1>8, <1>9
<1>10. CASE FgRewritten(r) \/ FgUnsuitable(r) \/ FgFailed(r)
  BY <1>9, <1>10 DEF FgRewritten, FgUnsuitable, FgFailed
<1>11. CASE FgUnpaid(r)
  <2>1. owed' = owed /\ q.pc = "ask" /\ FgSettle(r, "dead")
    BY <1>11 DEF FgUnpaid, usageVars
  <2>2. owed' \in [Payers -> Nat] /\ owed'[r] <= owed[r] + 0
    BY <1>0, <2>1 DEF AccountTypes
  <2>3. QED
    BY <1>8, <2>1, <2>2
<1>12. CASE FgCommit(r) \/ FgOrder(r) \/ FgAbort(r)
  <2>1. PICK x : req' = [req EXCEPT ![r] = x] /\ x.pc \in {"order", "done"}
    <3>1. Finished.pc = "done" /\ [q EXCEPT !.pc = "order", !.todo = {}].pc = "order"
      BY <1>0 DEF Finished, NoRequest, Request
    <3>2. \/ req' = [req EXCEPT ![r] = Finished]
          \/ req' = [req EXCEPT ![r] = [q EXCEPT !.pc = "order", !.todo = {}]]
      BY <1>12 DEF FgCommit, FgOrder, FgAbort
    <3>3. QED
      BY <3>1, <3>2
  <2>2. Settled({r, r})
    BY <1>12 DEF FgCommit, FgOrder, FgAbort, Book, Drop, Rebook
  <2>3. /\ owed' \in [Payers -> Nat]
        /\ \A j \in Payers : owed'[j] = IF j = r \/ j = r THEN 0 ELSE owed[j]
    BY <1>0, <2>2, SettledEffect
  <2>4. Affords(x, owed'[r])
    BY <1>0, <2>1, <2>3 DEF Affords
  <2>5. QED
    BY <1>2, <2>1, <2>3, <2>4
<1>13. QED
  BY <1>5, <1>6, <1>7, <1>10, <1>11, <1>12 DEF FgNext

\* What leaves the requests and their accounts alone.
LEMMA SharesKept ==
    ASSUME SharesInv, req' = req, \A r \in Requests : owed'[r] = owed[r],
           owed'["rubric"] <= IF tick'.pc = "sorted" THEN 1 ELSE 0
    PROVE  SharesInv'
<1>1. SharesInv' <=> /\ \A r \in Requests : Affords(req'[r], owed'[r])
                     /\ owed'["rubric"] <= IF tick'.pc = "sorted" THEN 1 ELSE 0
  BY DEF SharesInv, Affords, StillAsks, RequestCost
<1>2. QED
  BY <1>1 DEF SharesInv

LEMMA TickKeepsShares ==
    ASSUME SpendInv, SharesInv, TkNext
    PROVE  SharesInv'
<1>0. /\ AccountTypes /\ TickOK
      /\ "tick" \in Payers /\ "rubric" \in Payers /\ Requests \subseteq Payers
      /\ \A r \in Requests : r # "tick" /\ r # "rubric"
      /\ owed["rubric"] \in Nat
  BY BatchParts, Accounts, BatchAssumption DEF SpendInv, BatchInv, AccountInv, AccountTypes
<1>1. req' = req
  BY DEF TkNext, TkDebt, TkList, TkStop, TkTake, TkAnswer, TkClassify, TkDone, TkCard, TkFailEarly,
         TkFailPaid, TkFailCard, TkCrash
<1>2. owed["rubric"] <= IF tick.pc = "sorted" THEN 1 ELSE 0
  BY DEF SharesInv
<1>3. CASE TkDebt \/ TkList \/ TkCard \/ \E p \in Posts : TkTake(p)
  <2>1. owed' = owed /\ tick.pc # "sorted"
    BY <1>3 DEF TkDebt, TkList, TkCard, TkTake, usageVars
  <2>2. owed'["rubric"] <= IF tick'.pc = "sorted" THEN 1 ELSE 0
    BY <1>0, <1>2, <2>1
  <2>3. QED
    BY <1>1, <2>1, <2>2, SharesKept
<1>4. CASE TkAnswer
  <2>1. /\ owed' \in [Payers -> Nat] /\ tick.pc = "ask"
        /\ \A j \in Payers : owed'[j] = IF j = "tick" /\ "tick" \notin old THEN owed[j] + 1 ELSE owed[j]
    BY <1>0, <1>4, ChargeEffect DEF TkAnswer
  <2>2. owed'["rubric"] <= IF tick'.pc = "sorted" THEN 1 ELSE 0
    BY <1>0, <1>2, <2>1
  <2>3. QED
    BY <1>0, <1>1, <2>1, <2>2, SharesKept
<1>5. CASE TkClassify
  <2>1. /\ owed' \in [Payers -> Nat] /\ tick.pc = "rated" /\ tick'.pc = "sorted"
        /\ \A j \in Payers : owed'[j] = IF j = "rubric" /\ "rubric" \notin old THEN owed[j] + 1 ELSE owed[j]
    BY <1>0, <1>5, ChargeEffect DEF TkClassify, TickOK
  <2>2. owed'["rubric"] <= IF tick'.pc = "sorted" THEN 1 ELSE 0
    BY <1>0, <1>2, <2>1
  <2>3. QED
    BY <1>0, <1>1, <2>1, <2>2, SharesKept
<1>6. CASE TkDone \/ TkStop \/ TkFailEarly \/ TkFailPaid \/ TkFailCard \/ TkCrash
  <2>1. Settled({"tick", "rubric"})
    BY <1>6 DEF TkDone, TkStop, TkFailEarly, TkFailPaid, TkFailCard, TkCrash, TkRebook, Drop, Book, Rebook
  <2>2. \A j \in Payers : owed'[j] = IF j = "tick" \/ j = "rubric" THEN 0 ELSE owed[j]
    BY <1>0, <2>1, SettledEffect
  <2>3. owed'["rubric"] = 0
    BY <1>0, <2>2
  <2>4. QED
    BY <1>0, <1>1, <2>2, <2>3, SharesKept
<1>7. QED
  BY <1>3, <1>4, <1>5, <1>6 DEF TkNext

\* A quality run has an account of its own.
LEMMA QualityKeepsShares ==
    ASSUME SpendInv, SharesInv, QualityNext, UNCHANGED batchVars
    PROVE  SharesInv'
<1>0. /\ AccountTypes /\ "quality" \in Payers /\ "rubric" \in Payers /\ Requests \subseteq Payers
      /\ \A r \in Requests : r # "quality"
      /\ tick' = tick /\ req' = req
  BY Accounts, BatchAssumption DEF SpendInv, AccountInv, batchVars
<1>1. ASSUME \A j \in Payers : j # "quality" => owed'[j] = owed[j]
      PROVE  SharesInv'
  <2>1. owed'["rubric"] <= IF tick'.pc = "sorted" THEN 1 ELSE 0
    BY <1>0, <1>1 DEF SharesInv
  <2>2. QED
    BY <1>0, <1>1, <2>1, SharesKept
<1>2. CASE QuStart \/ QuPair \/ \E r \in Runs : QuCreate(r) \/ QuDelete(r)
  <2>1. owed' = owed
    BY <1>2 DEF QuStart, QuPair, QuCreate, QuDelete, usageVars
  <2>2. QED
    BY <1>1, <2>1
<1>3. CASE QuAnswer
  <2>1. \A j \in Payers : owed'[j] = IF j = "quality" /\ "quality" \notin old THEN owed[j] + 1 ELSE owed[j]
    BY <1>0, <1>3, ChargeEffect DEF QuAnswer
  <2>2. QED
    BY <1>1, <2>1
<1>4. CASE QuVerdict \/ QuRefused \/ QuDone \/ QuFail \/ QuCrash
  <2>1. Settled({"quality", "quality"})
    BY <1>4 DEF QuVerdict, QuRefused, QuStore, QuDone, QuFail, QuCrash, Drop, Book, Rebook
  <2>2. \A j \in Payers : owed'[j] = IF j = "quality" \/ j = "quality" THEN 0 ELSE owed[j]
    BY <1>0, <2>1, SettledEffect
  <2>3. QED
    BY <1>1, <2>2
<1>5. QED
  BY <1>2, <1>3, <1>4 DEF QualityNext, QuWork

LEMMA ShareSteps == SpendInv /\ SharesInv /\ [Next]_vars => SharesInv'
<1> SUFFICES ASSUME SpendInv, SharesInv, [Next]_vars PROVE SharesInv'
  OBVIOUS
<1>1. owed["rubric"] <= IF tick.pc = "sorted" THEN 1 ELSE 0
  BY DEF SharesInv
<1>2. CASE BatchStep
  <2>1. ASSUME PostNext PROVE SharesInv'
    <3>1. UNCHANGED <<req, tick, owed>>
      BY <2>1 DEF PostNext, Choose, Lose, Restore, usageVars
    <3>2. QED
      BY <1>1, <3>1, SharesKept
  <2>2. QED
    BY <1>2, <2>1, RequestKeepsShares, TickKeepsShares DEF BatchStep, BatchNext
<1>3. CASE QualityStep
  BY <1>3, QualityKeepsShares DEF QualityStep
<1>4. CASE MidnightStep
  <2>1. req' = req /\ tick' = tick /\ owed' = [p \in Payers |-> 0]
    BY <1>4 DEF MidnightStep, Midnight, NewDay
  <2>2. \A r \in Requests : Affords(req'[r], owed'[r])
    <3>1. ASSUME NEW r \in Requests PROVE Affords(req[r], 0)
      <4>1. Affords(req[r], owed[r]) /\ owed[r] \in Nat /\ req[r].todo \in SUBSET Posts
        BY Accounts, BatchParts DEF SharesInv, SpendInv, AccountInv, AccountTypes, BatchInv, RequestsOK, Request
      <4>2. StillAsks(req[r]) \in Nat
        BY <4>1, AsksNat
      <4>3. QED
        BY <4>1, <4>2, Costs DEF Affords
    <3>2. QED
      BY <2>1, <3>1, Accounts
  <2>3. owed'["rubric"] = 0
    BY <2>1, Accounts
  <2>4. SharesInv' <=> /\ \A r \in Requests : Affords(req'[r], owed'[r])
                       /\ owed'["rubric"] <= IF tick'.pc = "sorted" THEN 1 ELSE 0
    BY DEF SharesInv, Affords, StillAsks, RequestCost
  <2>5. QED
    BY <2>2, <2>3, <2>4
<1>5. CASE UNCHANGED vars
  <2>1. UNCHANGED <<req, tick, owed>>
    BY <1>5 DEF vars, batchVars, usageVars
  <2>2. QED
    BY <1>1, <2>1, SharesKept
<1>6. QED
  BY <1>2, <1>3, <1>4, <1>5 DEF Next

\* A request books its share when it commits, and is behind it then.
LEMMA RequestKeepsAhead ==
    ASSUME SpendInv, BatchInv', SharesInv, AheadInv, booked' \in Nat, UNCHANGED qualityVars,
           NEW r \in Requests, FgNext(r)
    PROVE  AheadInv'
<1> DEFINE q == req[r]
           w == RequestCost
<1>0. /\ BatchInv /\ RequestsOK /\ q \in Request /\ booked \in Nat /\ cards \in Nat
      /\ owed[r] \in Nat /\ Affords(q, owed[r]) /\ q.todo \in SUBSET Posts
  BY BatchParts, Accounts
     DEF SpendInv, UsageInv, UsageTypeOK, BatchInv, BatchTypeOK, RequestsOK, Request, SharesInv
<1>1. tick' = tick /\ work' = work /\ cards' = cards
  <2>1. ASSUME NEW p \in Posts, FgTake(r, p) PROVE tick' = tick /\ cards' = cards
    BY <2>1 DEF FgTake, counters
  <2>2. QED
    BY <2>1 DEF FgNext, FgStart, FgList, FgRewritten, FgUnsuitable, FgUnpaid, FgFailed, FgSettle, FgCommit,
                FgOrder, FgAbort, counters, qualityVars
<1>2. TickAhead' = TickAhead /\ QualityAhead' = QualityAhead
  BY <1>1 DEF TickAhead, QualityAhead
<1>3. RestOK /\ RestOK'
  <2>1. (BatchInv => RestOK) /\ (BatchInv' => RestOK')
    BY RestTypes, PTL
  <2>2. QED
    BY <1>0, <2>1
<1>4. w \in Nat
  BY Costs
\* It is enough that no request falls back, and that one that books falls out.
<1>5. ASSUME Ahead' \subseteq Ahead, booked' <= booked
      PROVE  AheadInv'
  <2>1. Cardinality(Ahead') <= Cardinality(Ahead)
    BY <1>3, <1>5, SomeRequests, FS_Subset DEF RestOK
  <2>2. Cardinality(Ahead') * w <= Cardinality(Ahead) * w /\ Cardinality(Ahead') * w \in Nat
    BY <1>3, <1>4, <2>1, Products DEF RestOK
  <2>3. /\ Rest = Cardinality(Ahead) * w + TickAhead + QualityAhead
        /\ Rest' = Cardinality(Ahead') * w + TickAhead + QualityAhead
    BY <1>2 DEF Rest
  <2>4. TickAhead \in Nat /\ QualityAhead \in Nat /\ Cardinality(Ahead) * w \in Nat
    BY <1>3, <1>4, Products DEF RestOK
  <2> HIDE DEF w
  <2>5. booked' + Rest' + cards <= booked + Rest + cards'
    BY <1>0, <1>1, <1>5, <2>2, <2>3, <2>4
  <2>6. QED
    BY <1>0, <2>5, AheadKept
<1>6. CASE FgCommit(r)
  <2>1. /\ q.pc = "loop" /\ r \in Ahead
        /\ req' = [req EXCEPT ![r] = IF q.kind = "batch" /\ q.made # {}
                                     THEN [q EXCEPT !.pc = "order", !.todo = {}] ELSE Finished]
        /\ booked' = booked + owed[r]
    BY <1>6 DEF FgCommit, Ahead, Book
  <2>2. req'[r].pc \in {"order", "done"} /\ \A s \in Requests : s # r => req'[s] = req[s]
    BY <1>0, <2>1 DEF RequestsOK, Request, Finished, NoRequest
  <2>3. Ahead' \subseteq Ahead \ {r}
    BY <2>2 DEF Ahead
  <2> DEFINE n == Cardinality(Ahead')
  <2>4. n \in Nat /\ n + 1 <= Cardinality(Ahead)
    <3>1. IsFiniteSet(Ahead') /\ n \in Nat /\ IsFiniteSet(Ahead)
      BY <1>3, SomeRequests DEF RestOK
    <3>2. Cardinality(Ahead' \union {r}) = n + 1
      BY <2>3, <3>1, FS_AddElement
    <3>3. Ahead' \union {r} \subseteq Ahead
      BY <2>1, <2>3
    <3>4. QED
      BY <3>1, <3>2, <3>3, FS_Subset
  <2>5. (n + 1) * w = n * w + w /\ n * w \in Nat /\ (n + 1) * w <= Cardinality(Ahead) * w
        /\ Cardinality(Ahead) * w \in Nat
    BY <1>3, <1>4, <2>4, Products DEF RestOK
  <2>6. owed[r] <= w
    BY <1>0, AsksNat
  <2>7. /\ Rest = Cardinality(Ahead) * w + TickAhead + QualityAhead
        /\ Rest' = n * w + TickAhead + QualityAhead
    BY <1>2 DEF Rest
  <2>8. TickAhead \in Nat /\ QualityAhead \in Nat
    BY <1>3 DEF RestOK
  <2> HIDE DEF w, n
  <2>9. booked' + Rest' + cards <= booked + Rest + cards'
    BY <1>0, <1>1, <1>4, <2>1, <2>5, <2>6, <2>7, <2>8
  <2>10. QED
    BY <1>0, <2>9, AheadKept
<1>7. CASE ~ FgCommit(r)
  <2>1. Ahead' \subseteq Ahead
    <3>1. PICK x : req' = [req EXCEPT ![r] = x] /\ (q.pc \in {"order", "done"} => x = Finished)
      <4>1. ASSUME NEW p \in Posts, FgTake(r, p)
            PROVE  \E x : req' = [req EXCEPT ![r] = x] /\ (q.pc \in {"order", "done"} => x = Finished)
        BY <1>0, <4>1 DEF FgTake, RequestsOK
      <4>2. ASSUME NEW s, q.pc = "ask", FgSettle(r, s)
            PROVE  \E x : req' = [req EXCEPT ![r] = x] /\ (q.pc \in {"order", "done"} => x = Finished)
        BY <1>0, <4>2 DEF FgSettle, RequestsOK
      <4>3. CASE FgStart(r) \/ FgList(r) \/ FgOrder(r) \/ FgAbort(r)
        BY <1>0, <4>3, Listed DEF FgStart, FgOrder, FgAbort, FgList
      <4>4. QED
        BY <1>7, <4>1, <4>2, <4>3 DEF FgNext, FgRewritten, FgUnsuitable, FgUnpaid, FgFailed
    <3>2. \A s \in Requests : req'[s] = IF s = r THEN x ELSE req[s]
      BY <1>0, <3>1 DEF RequestsOK
    <3>3. Finished.pc = "done"
      BY DEF Finished, NoRequest
    <3>4. q.pc \in {"none", "list", "loop", "ask", "order", "done"}
      BY <1>0 DEF Request
    <3>5. QED
      BY <3>1, <3>2, <3>3, <3>4 DEF Ahead
  <2>2. booked' <= booked
    <3>1. CASE FgOrder(r)
      <4>1. booked' = booked + owed[r] /\ q.pc = "order"
        BY <3>1 DEF FgOrder, Book
      <4>2. owed[r] = 0
        BY <1>0, <4>1 DEF Affords
      <4>3. QED
        BY <1>0, <4>1, <4>2
    <3>2. CASE ~ FgOrder(r)
      <4>1. FgAbort(r) => booked' = booked + 0
        BY DEF FgAbort, Drop, Rebook
      <4>2. ~ FgAbort(r) => booked' = booked
        <5>1. ASSUME NEW p \in Posts, FgTake(r, p) PROVE booked' = booked
          BY <5>1 DEF FgTake, usageVars
        <5>2. FgList(r) \/ FgRewritten(r) \/ FgUnsuitable(r) \/ FgFailed(r) => booked' = booked
          BY DEF FgList, FgRewritten, FgUnsuitable, FgFailed, Charge
        <5>3. QED
          BY <1>7, <3>2, <5>1, <5>2 DEF FgNext, FgStart, FgUnpaid, usageVars
      <4>3. QED
        BY <1>0, <4>1, <4>2
    <3>3. QED
      BY <3>1, <3>2
  <2>3. QED
    BY <1>5, <2>1, <2>2
<1>8. QED
  BY <1>6, <1>7

LEMMA Shift ==
    ASSUME NEW b \in Nat, NEW b2 \in Nat, NEW c \in Nat, NEW c2 \in Nat,
           NEW s \in Nat, NEW t \in Nat, NEW t2 \in Nat, b2 + t2 + c <= b + t + c2
    PROVE  b2 + (s - t + t2) + c <= b + s + c2
  OBVIOUS

LEMMA EvenShift ==
    ASSUME NEW b \in Nat, NEW b2 \in Nat, NEW c \in Nat,
           NEW s \in Nat, NEW t \in Nat, NEW t2 \in Nat, b2 + t2 <= b + t
    PROVE  b2 + (s - t + t2) + c <= b + s + c
  OBVIOUS

\* The tick asks for the budget before each queue; the posts of the queue are all it can add.
LEMMA TickKeepsAhead ==
    ASSUME SpendInv, BatchInv', SharesInv, AheadInv, booked' \in Nat, UNCHANGED qualityVars, TkNext
    PROVE  AheadInv'
<1> DEFINE n == Cardinality(tick.queue)
           n2 == Cardinality(tick'.queue)
           InHand == {"ask", "rated", "sorted"}
<1>0. /\ BatchInv /\ TickOK /\ TickOK' /\ booked \in Nat /\ cards \in Nat
      /\ owed["tick"] \in Nat /\ owed["tick"] <= 1 /\ owed["rubric"] \in Nat /\ owed["rubric"] <= 1
  <2>1. BatchInv /\ TickOK /\ booked \in Nat /\ cards \in Nat
    BY BatchParts DEF SpendInv, UsageInv, UsageTypeOK, BatchInv, BatchTypeOK
  <2>2. TickOK'
    BY DEF BatchInv, BatchTypeOK, TickOK
  <2>3. /\ owed["tick"] \in Nat /\ owed["rubric"] \in Nat
        /\ owed["tick"] = IF tick.pc \in {"rated", "sorted"} /\ "tick" \notin old THEN 1 ELSE 0
        /\ owed["rubric"] <= IF tick.pc = "sorted" THEN 1 ELSE 0
    BY Accounts DEF SpendInv, AccountInv, AccountTypes, TickAccount, SharesInv
  <2>4. QED
    BY <2>1, <2>2, <2>3
<1>1. n \in Nat /\ n2 \in Nat
  BY <1>0, SomePosts DEF TickOK
<1>2. /\ TickAhead = 2 * n + (IF tick.pc \in InHand THEN 2 ELSE 0)
      /\ TickAhead' = 2 * n2 + (IF tick'.pc \in InHand THEN 2 ELSE 0)
  BY DEF TickAhead
<1>3. RestOK /\ RestOK'
  <2>1. (BatchInv => RestOK) /\ (BatchInv' => RestOK')
    BY RestTypes, PTL
  <2>2. QED
    BY <1>0, <2>1
<1>4. Rest' = Rest - TickAhead + TickAhead'
  <2>1. req' = req /\ work' = work
    BY DEF TkNext, TkDebt, TkList, TkStop, TkTake, TkAnswer, TkClassify, TkDone, TkCard, TkFailEarly,
           TkFailPaid, TkFailCard, TkCrash, qualityVars
  <2>2. Ahead' = Ahead /\ QualityAhead' = QualityAhead
    BY <2>1 DEF Ahead, QualityAhead
  <2> DEFINE a == Cardinality(Ahead) * RequestCost
  <2>3. Rest = a + TickAhead + QualityAhead /\ Rest' = a + TickAhead' + QualityAhead
    BY <2>2 DEF Rest
  <2>4. a \in Nat
    BY <1>3, Costs, Products DEF RestOK
  <2> HIDE DEF a
  <2>5. QED
    BY <1>3, <2>3, <2>4 DEF RestOK
\* It is enough that what is booked comes out of the queue, or is a failed card's.
<1>5. ASSUME booked' + TickAhead' + cards <= booked + TickAhead + cards', cards' \in Nat
      PROVE  AheadInv'
  <2>1. booked' + Rest' + cards <= booked + Rest + cards'
    <3>1. Rest \in Nat /\ TickAhead \in Nat /\ TickAhead' \in Nat
      BY <1>3 DEF RestOK
    <3>2. QED
      BY <1>0, <1>4, <1>5, <3>1, Shift
  <2>2. QED
    BY <1>0, <2>1, AheadKept
<1>6. ASSUME n2 <= n, tick'.pc \in InHand => tick.pc \in InHand, booked' = booked, cards' = cards
      PROVE  AheadInv'
  BY <1>0, <1>1, <1>2, <1>5, <1>6
<1>7. NoTick.pc \notin InHand /\ NoTick.queue = {} /\ Cardinality({}) = 0
  BY FS_EmptySet DEF NoTick
<1>8. CASE TkDebt
  <2>1. tick'.pc = "today" /\ tick'.queue = {} /\ booked' = booked /\ cards' = cards
    BY <1>8 DEF TkDebt, NoTick, usageVars
  <2>2. QED
    BY <1>1, <1>6, <1>7, <2>1
<1>9. CASE TkList
  <2>1. booked' = booked /\ cards' = cards
    BY <1>9 DEF TkList, usageVars, counters
  <2>2. CASE Exceeded
    <3>1. tick' = NoTick
      BY <1>9, <2>2 DEF TkList
    <3>2. QED
      BY <1>1, <1>6, <1>7, <2>1, <3>1
  <2>3. CASE ~Exceeded
    <3>1. Limit > 0 => booked' < Limit
      BY <1>0, <2>1, <2>3, UsageAssumption DEF Exceeded
    <3>2. QED
      BY <1>0, <3>1, AheadKept
  <2>4. QED
    BY <2>2, <2>3
<1>10. CASE TkStop \/ TkCrash
  <2>1. tick' = NoTick /\ booked' = booked + 0 /\ cards' = cards
    BY <1>10 DEF TkStop, TkCrash, Drop, Rebook, counters
  <2>2. QED
    BY <1>0, <1>1, <1>6, <1>7, <2>1
<1>11. ASSUME NEW p \in Posts, TkTake(p) PROVE AheadInv'
  <2>1. /\ booked' = booked /\ cards' = cards /\ tick.pc = "loop" /\ p \in tick.queue
        /\ tick'.queue = tick.queue \ {p}
    BY <1>0, <1>11 DEF TkTake, TickOK, usageVars, counters
  <2>2. IsFiniteSet(tick.queue)
    BY <1>0, SomePosts DEF TickOK
  <2>3. n2 = n - 1
    BY <1>1, <2>1, <2>2, FS_RemoveElement
  <2>4. booked' + TickAhead' + cards <= booked + TickAhead + cards'
    BY <1>0, <1>1, <1>2, <2>1, <2>3
  <2>5. QED
    BY <1>0, <1>5, <2>1, <2>4
<1>12. CASE TkAnswer \/ TkClassify \/ TkCard
  <2>1. tick'.queue = tick.queue
    BY <1>0, <1>12 DEF TkAnswer, TkClassify, TkCard, TickOK
  <2>2. tick'.pc \in InHand => tick.pc \in InHand
    BY <1>0, <1>12 DEF TkAnswer, TkClassify, TkCard, TickOK
  <2>3. booked' = booked /\ cards' = cards
    BY <1>12 DEF TkAnswer, TkClassify, TkCard, Charge, usageVars, counters
  <2>4. QED
    BY <1>1, <1>6, <2>1, <2>2, <2>3
<1>13. CASE TkDone \/ TkFailEarly \/ TkFailPaid
  <2>1. /\ tick'.queue = tick.queue /\ tick'.pc \notin InHand /\ tick.pc \in InHand /\ cards' = cards
    BY <1>0, <1>13 DEF TkDone, TkFailEarly, TkFailPaid, TickOK, counters
  <2>2. booked' <= booked + 2
    <3>1. TkDone => booked' = booked + (owed["tick"] + owed["rubric"])
      BY DEF TkDone, Book
    <3>2. TkFailEarly => booked' = booked + 0
      BY DEF TkFailEarly, Drop, Rebook
    <3>3. TkFailPaid => booked' = booked + 1
      BY DEF TkFailPaid, TkRebook, Rebook
    <3>4. QED
      BY <1>0, <1>13, <3>1, <3>2, <3>3
  <2>3. booked' + TickAhead' + cards <= booked + TickAhead + cards'
    BY <1>0, <1>1, <1>2, <2>1, <2>2
  <2>4. QED
    BY <1>0, <1>5, <2>1, <2>3
<1>14. CASE TkFailCard
  <2>1. /\ tick'.queue = tick.queue /\ tick'.pc \notin InHand
        /\ cards' = cards + 1 /\ booked' = booked + 1
    BY <1>0, <1>14 DEF TkFailCard, TkRebook, Rebook, TickOK
  <2>2. booked' + TickAhead' + cards <= booked + TickAhead + cards'
    BY <1>0, <1>1, <1>2, <2>1
  <2>3. QED
    BY <1>0, <1>5, <2>1, <2>2
<1>15. QED
  BY <1>8, <1>9, <1>10, <1>11, <1>12, <1>13, <1>14 DEF TkNext

\* A quality run asks for the budget before each pair.
LEMMA QualityKeepsAhead ==
    ASSUME SpendInv, BatchInv', AheadInv, booked' \in Nat, UNCHANGED batchVars, QualityNext
    PROVE  AheadInv'
<1>0. /\ BatchInv /\ WorkOK /\ booked \in Nat /\ cards \in Nat /\ cards' = cards
      /\ owed["quality"] \in Nat /\ owed["quality"] <= IF work.pc = "ask" THEN work.answers ELSE 0
      /\ work.answers \in 0 .. 4
  BY TypesOK, Accounts DEF SpendInv, UsageInv, UsageTypeOK, BatchInv, BatchTypeOK, RunInv, WorkOK,
     AccountInv, AccountTypes, QualityAccount, batchVars, counters
<1>1. RestOK
  BY <1>0, RestTypes
<1>2. Rest' = Rest - QualityAhead + QualityAhead'
  <2>1. req' = req /\ tick' = tick
    BY DEF batchVars
  <2>2. Ahead' = Ahead /\ TickAhead' = TickAhead
    BY <2>1 DEF Ahead, TickAhead
  <2> DEFINE a == Cardinality(Ahead) * RequestCost
  <2>3. Rest = a + TickAhead + QualityAhead /\ Rest' = a + TickAhead + QualityAhead'
    BY <2>2 DEF Rest
  <2>4. a \in Nat
    BY <1>1, Costs, Products DEF RestOK
  <2>5. QualityAhead \in Nat /\ QualityAhead' \in Nat
    BY DEF QualityAhead
  <2> HIDE DEF a
  <2>6. QED
    BY <1>1, <2>3, <2>4, <2>5 DEF RestOK
<1>3. QualityAhead' \in Nat /\ QualityAhead \in Nat
  BY DEF QualityAhead
<1>4. ASSUME booked' + QualityAhead' <= booked + QualityAhead
      PROVE  AheadInv'
  <2>1. Rest \in Nat
    BY <1>1 DEF RestOK
  <2>2. booked' + Rest' + cards <= booked + Rest + cards'
    BY <1>0, <1>2, <1>3, <1>4, <2>1, EvenShift
  <2>3. QED
    BY <1>0, <2>2, AheadKept
<1>5. CASE QuPair
  <2>1. Limit > 0 => booked' < Limit
    BY <1>0, <1>5, UsageAssumption DEF QuPair, Exceeded, usageVars
  <2>2. QED
    BY <1>0, <2>1, AheadKept
<1>6. CASE QuAnswer \/ QuStart \/ \E r \in Runs : QuCreate(r) \/ QuDelete(r)
  <2>1. booked' = booked
    BY <1>6 DEF QuAnswer, QuStart, QuCreate, QuDelete, Charge, usageVars
  <2>2. work'.pc = "ask" => work.pc = "ask"
    BY <1>0, <1>6 DEF QuAnswer, QuStart, QuCreate, QuDelete, WorkOK, Resting
  <2>3. QED
    BY <1>0, <1>4, <2>1, <2>2 DEF QualityAhead
<1>7. CASE QuVerdict \/ QuRefused \/ QuDone
  <2>1. work'.pc # "ask"
    <3>1. work' = Resting \/ work' = [work EXCEPT !.pc = "loop", !.pair = "none", !.answers = 0]
      BY <1>7 DEF QuVerdict, QuRefused, QuStore, QuDone
    <3>2. WorkOK => [work EXCEPT !.pc = "loop", !.pair = "none", !.answers = 0].pc = "loop"
      BY DEF WorkOK
    <3>3. Resting.pc = "idle"
      BY DEF Resting
    <3>4. QED
      BY <1>0, <3>1, <3>2, <3>3
  <2>2. booked' = booked + owed["quality"]
    BY <1>7 DEF QuVerdict, QuRefused, QuStore, QuDone, Book
  <2>3. QED
    BY <1>0, <1>4, <2>1, <2>2 DEF QualityAhead
<1>8. CASE QuFail \/ QuCrash
  <2>1. work'.pc # "ask" /\ booked' = booked + 0
    BY <1>8 DEF QuFail, QuCrash, Resting, Drop, Rebook
  <2>2. QED
    BY <1>0, <1>4, <2>1 DEF QualityAhead
<1>9. QED
  BY <1>5, <1>6, <1>7, <1>8 DEF QualityNext, QuWork

LEMMA AheadSteps == SpendInv /\ SpendInv' /\ SharesInv /\ AheadInv /\ [Next]_vars => AheadInv'
<1> SUFFICES ASSUME SpendInv, SpendInv', SharesInv, AheadInv, [Next]_vars PROVE AheadInv'
  OBVIOUS
<1>0. BatchInv /\ BatchInv' /\ booked \in Nat /\ booked' \in Nat /\ cards \in Nat
  BY DEF SpendInv, UsageInv, UsageTypeOK, BatchInv, BatchTypeOK
<1>1. RestOK
  BY <1>0, RestTypes
<1>2. ASSUME UNCHANGED <<booked, req, tick, work, cards>> PROVE AheadInv'
  <2>1. Rest' = Rest
    BY <1>2 DEF Rest, Ahead, TickAhead, QualityAhead
  <2>2. QED
    BY <1>2, <2>1 DEF AheadInv, Allowance
<1>3. CASE BatchStep
  <2>1. ASSUME PostNext PROVE AheadInv'
    BY <1>2, <1>3, <2>1 DEF BatchStep, PostNext, Choose, Lose, Restore, usageVars, qualityVars, counters
  <2>2. QED
    BY <1>0, <1>3, <2>1, RequestKeepsAhead, TickKeepsAhead DEF BatchStep, BatchNext
<1>4. CASE QualityStep
  BY <1>0, <1>4, QualityKeepsAhead DEF QualityStep
<1>5. CASE MidnightStep
  <2>1. booked' = 0
    BY <1>5 DEF MidnightStep, Midnight, NewDay
  <2>2. QED
    BY <1>0, <2>1, AheadKept
<1>6. CASE UNCHANGED vars
  BY <1>2, <1>6 DEF vars, batchVars, qualityVars, usageVars
<1>7. QED
  BY <1>3, <1>4, <1>5, <1>6 DEF Next

LEMMA ShareInit == Init => SharesInv /\ AheadInv
<1> SUFFICES ASSUME Init PROVE SharesInv /\ AheadInv
  OBVIOUS
<1>1. /\ booked = 0 /\ owed = [p \in Payers |-> 0]
  BY DEF Init, UsageInit
<1>2. SharesInv
  <2>1. \A r \in Requests : Affords(req[r], owed[r])
    BY <1>1, Accounts, NoRequestOK DEF Init, BatchInit, UsageInit, NoRequest, Affords
  <2>2. owed["rubric"] = 0
    BY <1>1, Accounts
  <2>3. QED
    BY <2>1, <2>2 DEF SharesInv
<1>3. AheadInv
  BY <1>1, UsageAssumption DEF AheadInv
<1>4. QED
  BY <1>2, <1>3

\* Past the limit comes only what had passed the check: of each request an answer a candidate
\* of its pool and two a post it was asked for, the tick's queue, one pair, and the cards booked twice (BudgetState.exceeded
\* sees the committed rows alone).
THEOREM OvershootIsBounded == Spec => []OvershootBounded
<1>1. SpendInv /\ AheadInv => OvershootBounded
  <2> SUFFICES ASSUME SpendInv, AheadInv, Limit > 0 PROVE booked < Limit + Allowance + cards
    BY DEF OvershootBounded
  <2>1. BatchInv /\ booked \in Nat /\ cards \in Nat /\ Limit \in Nat
    BY UsageAssumption DEF SpendInv, UsageInv, UsageTypeOK, BatchInv, BatchTypeOK
  <2>2. Rest \in Nat /\ Allowance \in Nat
    BY <2>1, RestTypes DEF RestOK
  <2>3. CASE booked >= Limit
    BY <2>1, <2>2, <2>3 DEF AheadInv
  <2>4. CASE booked < Limit
    BY <2>1, <2>2, <2>4
  <2>5. QED
    BY <2>1, <2>3, <2>4
<1>2. SpendInv <=> UsageInv /\ BatchInv /\ RunInv /\ AccountInv
  BY DEF SpendInv
<1>3. QED
  BY <1>1, <1>2, UsageInitOK, UsageSteps, BatchInitOK, BatchSteps, RunInit, RunSteps, AccountInit,
     AccountSteps, ShareInit, ShareSteps, AheadSteps, PTL DEF Spec
=============================================================================
