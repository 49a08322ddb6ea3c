----------------------------- MODULE DailyBatch -----------------------------
(***************************************************************************)
(* "Posts for today" of a theme in manual mode: an operator's requests     *)
(* (routers/candidates.py, force_generate.py), the order they leave on the *)
(* theme (core/services/daily_batch.py) and the rewriting tick that works  *)
(* off what is still owed (dedup_and_rewrite_job). A request is one        *)
(* transaction with every row it touched locked; the tick commits each     *)
(* post. Of a status only what the order tells apart is kept.              *)
(***************************************************************************)
EXTENDS LlmUsage

CONSTANTS
    Posts,
    Requests,       \* operators' requests, each made once at most
    BatchSize,      \* daily_target of the theme
    PoolSize,       \* how many candidates a request looks at (at most MAX_POOL)
    MaxDay,         \* bound: days
    MaxFaults       \* bound: failures and restarts

ASSUME BatchAssumption ==
    /\ IsFiniteSet(Posts) /\ BatchSize \in Nat \ {0} /\ PoolSize \in Nat
    /\ MaxDay \in Nat \ {0} /\ MaxFaults \in Nat
    /\ Requests \subseteq Payers \ (Background \union {"rubric"})

VARIABLES
    day,            \* the date in the project's time zone
    order,          \* Theme.daily_batch_date and daily_batch_size
    st,             \* committed stage of each post
    batch,          \* CandidatePost.batch_date; 0: none
    req,            \* the requests
    draft,          \* stages written and not committed, by request; "same": none
    tick,           \* the rewriting tick
    crowd,          \* posts that others made or restored since the tick read the debt
    restarts,       \* restarts of the scheduler so far
    cards           \* failures after a rewrite was committed so far

batchVars == <<day, order, st, batch, req, draft, tick, crowd, restarts, cards>>

\* "raw": NEW or SCORING; "chosen": SELECTED; "alive": PENDING_REVIEW, REWRITTEN
\* or PUBLISHED; "dead": REJECTED or DUPLICATE.
Stage == {"raw", "chosen", "alive", "dead"}
Days == 1 .. MaxDay

BatchTypeOK ==
    /\ day \in Days
    /\ order \in [date : Days \union {0}, size : Nat]
    /\ st \in [Posts -> Stage]
    /\ batch \in [Posts -> Days \union {0}]
    /\ req \in [Requests -> [pc : {"none", "list", "loop", "ask", "order", "done"},
                             kind : {"batch", "count"}, today : Days,
                             todo : SUBSET Posts, post : Posts \union {"none"}, made : SUBSET Posts]]
    /\ draft \in [Requests -> [Posts -> Stage \union {"same"}]]
    /\ tick \in [pc : {"idle", "today", "loop", "ask", "rated", "sorted", "card"},
                 debt : Nat, date : Days \union {0}, size : Nat, today : Days,
                 queue : SUBSET Posts, post : Posts \union {"none"}]
    /\ crowd \in SUBSET Posts /\ restarts \in Nat /\ cards \in Nat

Untouched == [p \in Posts |-> "same"]
NoRequest == [pc |-> "none", kind |-> "count", today |-> 1, todo |-> {}, post |-> "none", made |-> {}]
Finished == [NoRequest EXCEPT !.pc = "done"]
NoTick == [pc |-> "idle", debt |-> 0, date |-> 0, size |-> 0, today |-> 1, queue |-> {}, post |-> "none"]

BatchInit ==
    /\ day = 1
    /\ order = [date |-> 0, size |-> 0]
    /\ st = [p \in Posts |-> "raw"] /\ batch = [p \in Posts |-> 0]
    /\ req = [r \in Requests |-> NoRequest]
    /\ draft = [r \in Requests |-> Untouched]
    /\ tick = NoTick
    /\ crowd = {} /\ restarts = 0 /\ cards = 0

UnderWay(r) == req[r].pc \notin {"none", "done"}

posts == <<st, batch>>
counters == <<crowd, restarts, cards>>

\* The row locks: a request keeps its rows to the end, the tick the one in hand.
FreeFor(p, r) ==
    /\ \A q \in Requests \ {r} : draft[q][p] = "same"
    /\ tick.pc \in {"ask", "rated", "sorted"} => tick.post # p

Crowded(more) == IF tick.pc = "idle" THEN {} ELSE crowd \union more

AliveIn(d) == {p \in Posts : st[p] = "alive" /\ batch[p] = d}

\* Mutant of Outstanding: what has been delivered is still owed.
Ordered == IF order.date # day THEN 0 ELSE order.size

\* outstanding: what of the order of today is still to come.
Outstanding ==
    IF order.date # day \/ Cardinality(AliveIn(order.date)) >= order.size THEN 0
    ELSE order.size - Cardinality(AliveIn(order.date))

-----------------------------------------------------------------------------
\* generate_posts and generate_daily_batch: the budget first, then the date.
FgStart(r) ==
    /\ req[r].pc = "none" /\ ~Exceeded
    /\ \E k \in {"batch", "count"} :
          req' = [req EXCEPT ![r] = [NoRequest EXCEPT !.pc = "list", !.kind = k, !.today = day]]
    /\ UNCHANGED <<day, order, posts, draft, tick, counters, usageVars>>

\* The best raw posts, as they are committed; any may be the best.
Pools ==
    LET raw == {p \in Posts : st[p] = "raw"} IN
    {s \in SUBSET raw : Cardinality(s) <= PoolSize /\ (Cardinality(s) < PoolSize => s = raw)}

\* _eligible_candidates: a pool wider than the request is classified, each post that has
\* no rubric yet by a paid answer or by none (a failed call, a theme without rubrics),
\* and cut down to what was asked for. The rows that were given a rubric stay locked from
\* here on, which only keeps others waiting and is left out.
FgList(r) ==
    /\ req[r].pc = "list"
    /\ \E pool \in Pools : \E chosen \in SUBSET pool, n \in 0 .. Cardinality(pool) :
          /\ IF Cardinality(pool) <= BatchSize THEN chosen = pool /\ n = 0
                                               ELSE Cardinality(chosen) = BatchSize
          /\ req' = [req EXCEPT ![r] = IF chosen = {} THEN Finished
                                       ELSE [req[r] EXCEPT !.pc = "loop", !.todo = chosen]]
          /\ Charge(r, n)
    /\ UNCHANGED <<day, order, posts, draft, tick, counters>>

\* SELECTED and flushed, whatever the row has become since.
FgTake(r, p) ==
    /\ req[r].pc = "loop" /\ p \in req[r].todo
    /\ Cardinality(req[r].made) < BatchSize
    /\ FreeFor(p, r)
    /\ req' = [req EXCEPT ![r].pc = "ask", ![r].post = p, ![r].todo = @ \ {p}]
    /\ draft' = [draft EXCEPT ![r][p] = "chosen"]
    /\ UNCHANGED <<day, order, posts, tick, counters, usageVars>>

\* The post in hand ends in stage s.
FgSettle(r, s) ==
    /\ draft' = [draft EXCEPT ![r][req[r].post] = s]
    /\ req' = [req EXCEPT ![r].pc = "loop", ![r].post = "none",
                          ![r].made = IF s = "alive" THEN @ \union {req[r].post} ELSE @]
    /\ UNCHANGED <<day, order, posts, tick, counters>>

\* Rewritten, and classified where the pool left it without a rubric; or the model found
\* it unsuitable.
FgRewritten(r) == req[r].pc = "ask" /\ FgSettle(r, "alive") /\ \E n \in 1 .. 2 : Charge(r, n)
FgUnsuitable(r) == req[r].pc = "ask" /\ FgSettle(r, "dead") /\ Charge(r, 1)

\* A duplicate, or a post without text: the model is not asked.
FgUnpaid(r) == req[r].pc = "ask" /\ FgSettle(r, "dead") /\ UNCHANGED usageVars

\* Voyage or the model fails, before the answer or after it (the comparison of the rewrite
\* with its source): back to NEW.
FgFailed(r) == req[r].pc = "ask" /\ FgSettle(r, "raw") /\ \E n \in 0 .. 1 : Charge(r, n)

\* batch_date is set on the posts of a batch; a request by count sets None over the
\* None it has loaded, which is no change.
FgLabel(r) ==
    [p \in Posts |-> IF draft[r][p] = "alive" /\ req[r].kind = "batch"
                     THEN req[r].today ELSE batch[p]]

\* generate's single commit. A batch that made something is ordered afterwards.
FgCommit(r) ==
    /\ req[r].pc = "loop"
    /\ req[r].todo = {} \/ Cardinality(req[r].made) = BatchSize
    /\ st' = [p \in Posts |-> IF draft[r][p] = "same" THEN st[p] ELSE draft[r][p]]
    /\ batch' = FgLabel(r)
    /\ crowd' = Crowded(req[r].made)
    /\ draft' = [draft EXCEPT ![r] = Untouched]
    /\ req' = [req EXCEPT ![r] =
                  IF req[r].kind = "batch" /\ req[r].made # {}
                  THEN [req[r] EXCEPT !.pc = "order", !.todo = {}] ELSE Finished]
    /\ Book(r, r)
    /\ UNCHANGED <<day, order, tick, restarts, cards>>

\* order_batch reads the date again; order and audit record are committed.
FgOrder(r) ==
    /\ req[r].pc = "order"
    /\ order' = [date |-> day, size |-> BatchSize]
    /\ req' = [req EXCEPT ![r] = Finished]
    /\ Book(r, r)
    /\ UNCHANGED <<day, posts, draft, tick, counters>>

\* The request ends in an exception, a deadlock or a lost connection.
FgAbort(r) ==
    /\ UnderWay(r)
    /\ draft' = [draft EXCEPT ![r] = Untouched]
    /\ req' = [req EXCEPT ![r] = Finished]
    /\ Drop(r, r)
    /\ UNCHANGED <<day, order, posts, tick, counters>>

-----------------------------------------------------------------------------
\* The tick reads what is owed ...
TkDebt ==
    /\ tick.pc = "idle"
    /\ tick' = [NoTick EXCEPT !.pc = "today", !.debt = Outstanding,
                              !.date = order.date, !.size = order.size]
    /\ crowd' = {}
    /\ UNCHANGED <<day, order, posts, req, draft, restarts, cards, usageVars>>

\* Mutant of TkList: the background does not ask for the budget.
TkListUnlimited ==
    /\ tick.pc = "today"
    /\ tick' = [tick EXCEPT !.pc = "loop", !.today = day,
                            !.queue = {p \in Posts : st[p] = "chosen"}]
    /\ UNCHANGED <<day, order, posts, req, draft, counters, usageVars>>

\* ... then the date, the SELECTED candidates and the budget.
TkList ==
    /\ tick.pc = "today"
    /\ tick' = IF Exceeded THEN NoTick
               ELSE [tick EXCEPT !.pc = "loop", !.today = day,
                                 !.queue = {p \in Posts : st[p] = "chosen"}]
    /\ UNCHANGED <<day, order, posts, req, draft, counters, usageVars>>

\* Nothing owed, nothing left or the batch limit of the tick reached.
TkStop ==
    /\ tick.pc = "loop"
    /\ tick' = NoTick
    /\ Drop("tick", "rubric")
    /\ UNCHANGED <<day, order, posts, req, draft, counters>>

\* A candidate that is no longer SELECTED is a duplicate or refused before the
\* model is asked.
TkTake(p) ==
    /\ tick.pc = "loop" /\ p \in tick.queue /\ tick.debt > 0
    /\ FreeFor(p, "tick")
    /\ tick' = IF st[p] = "chosen"
               THEN [tick EXCEPT !.pc = "ask", !.post = p, !.queue = @ \ {p}]
               ELSE [tick EXCEPT !.queue = @ \ {p}]
    /\ UNCHANGED <<day, order, posts, req, draft, counters, usageVars>>

\* The model has answered: its cost is kept in last_usage.
TkAnswer ==
    /\ tick.pc = "ask"
    /\ tick' = [tick EXCEPT !.pc = "rated"]
    /\ Charge("tick", 1)
    /\ UNCHANGED <<day, order, posts, req, draft, counters>>

\* The classification of the text, whose cost is kept nowhere else.
TkClassify ==
    /\ tick.pc = "rated"
    /\ tick' = [tick EXCEPT !.pc = "sorted"]
    /\ Charge("rubric", 1)
    /\ UNCHANGED <<day, order, posts, req, draft, counters>>

\* Mutant of TkRemaining: a post is taken for two.
TkTwice == tick.debt - 2

TkRemaining == tick.debt - 1

TkDone ==
    /\ tick.pc \in {"rated", "sorted"}
    /\ st' = [st EXCEPT ![tick.post] = "alive"]
    /\ batch' = [batch EXCEPT ![tick.post] = tick.today]
    /\ tick' = [tick EXCEPT !.pc = "card", !.debt = TkRemaining]
    /\ Book("tick", "rubric")
    /\ UNCHANGED <<day, order, req, draft, counters>>

\* The editor's card is on its way.
TkCard ==
    /\ tick.pc = "card"
    /\ tick' = [tick EXCEPT !.pc = "loop", !.post = "none"]
    /\ UNCHANGED <<day, order, posts, req, draft, counters, usageVars>>

\* Rolled back before the model was asked.
TkFailEarly ==
    /\ tick.pc = "ask"
    /\ tick' = [tick EXCEPT !.pc = "loop", !.post = "none"]
    /\ Drop("tick", "rubric")
    /\ UNCHANGED <<day, order, posts, req, draft, counters>>

\* Mutant of TkRebook: the cost goes with the transaction.
TkForget == Drop("tick", "rubric")

\* lost_usage: the cost of the answer is written again.
TkRebook == Rebook("tick", "rubric", 1)

\* Only advertising, or an error after the answer: rolled back and written again.
\* The candidate stays SELECTED.
TkFailPaid ==
    /\ tick.pc \in {"rated", "sorted"}
    /\ tick' = [tick EXCEPT !.pc = "loop", !.post = "none"]
    /\ TkRebook
    /\ UNCHANGED <<day, order, posts, req, draft, counters>>

\* The photos or the card fail, after the commit: last_usage is written once more.
TkFailCard ==
    /\ tick.pc = "card" /\ cards < MaxFaults
    /\ cards' = cards + 1
    /\ tick' = [tick EXCEPT !.pc = "loop", !.post = "none"]
    /\ TkRebook
    /\ UNCHANGED <<day, order, posts, req, draft, crowd, restarts>>

TkCrash ==
    /\ tick.pc # "idle" /\ restarts < MaxFaults
    /\ restarts' = restarts + 1
    /\ tick' = NoTick
    /\ Drop("tick", "rubric")
    /\ UNCHANGED <<day, order, posts, req, draft, crowd, cards>>

-----------------------------------------------------------------------------
\* Scoring selects a post.
Choose(p) ==
    /\ st[p] = "raw" /\ FreeFor(p, "score")
    /\ st' = [st EXCEPT ![p] = "chosen"]
    /\ UNCHANGED <<day, order, batch, req, draft, tick, counters, usageVars>>

\* An operator rejects a post, or a stronger one makes it a duplicate.
Lose(p) ==
    /\ st[p] = "alive" /\ FreeFor(p, "operator")
    /\ st' = [st EXCEPT ![p] = "dead"]
    /\ UNCHANGED <<day, order, batch, req, draft, tick, counters, usageVars>>

\* restore_rejected.
Restore(p) ==
    /\ st[p] = "dead" /\ FreeFor(p, "operator")
    /\ st' = [st EXCEPT ![p] = "alive"]
    /\ crowd' = Crowded({p})
    /\ UNCHANGED <<day, order, batch, req, draft, tick, restarts, cards, usageVars>>

\* Midnight in the project's time zone.
Midnight(busy) ==
    /\ day < MaxDay
    /\ day' = day + 1
    /\ NewDay(busy)
    /\ UNCHANGED <<order, posts, req, draft, tick, counters>>

BatchBusy ==
    {r \in Requests : UnderWay(r)}
        \union (IF tick.pc = "idle" THEN {} ELSE {"tick", "rubric"})

FgNext(r) ==
    \/ FgStart(r)
    \/ FgList(r)
    \/ \E p \in Posts : FgTake(r, p)
    \/ FgRewritten(r)
    \/ FgUnsuitable(r)
    \/ FgUnpaid(r)
    \/ FgFailed(r)
    \/ FgCommit(r)
    \/ FgOrder(r)
    \/ FgAbort(r)

TkNext ==
    \/ TkDebt
    \/ TkList
    \/ TkStop
    \/ \E p \in Posts : TkTake(p)
    \/ TkAnswer
    \/ TkClassify
    \/ TkDone
    \/ TkCard
    \/ TkFailEarly
    \/ TkFailPaid
    \/ TkFailCard
    \/ TkCrash

PostNext == \E p \in Posts : Choose(p) \/ Lose(p) \/ Restore(p)

BatchNext(actors) ==
    \/ \E r \in Requests \intersect actors : FgNext(r)
    \/ "tick" \in actors /\ TkNext
    \/ actors \intersect (Requests \union {"tick"}) # {} /\ PostNext
=============================================================================
