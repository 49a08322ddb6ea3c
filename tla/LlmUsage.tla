------------------------------ MODULE LlmUsage ------------------------------
(***************************************************************************)
(* What the model costs (core/services/llm_usage.py) and the daily limit   *)
(* (core/services/llm_budget.py). Every answer of the model is paid for at *)
(* once; the row that says so belongs to the transaction of the session    *)
(* that asked, and is lost with it. One answer costs one unit, and only    *)
(* the present day in the project's time zone is counted: a row is dated   *)
(* by the beginning of its transaction.                                    *)
(***************************************************************************)
EXTENDS Integers, FiniteSets

CONSTANTS
    Payers,         \* the accounts of the sessions that ask the model
    Limit           \* the daily limit; 0: none

\* The payers of the background jobs, whose losses nobody would notice.
Background == {"tick", "quality"}

ASSUME UsageAssumption ==
    /\ Limit \in Nat
    /\ IsFiniteSet(Payers) /\ Background \union {"rubric"} \subseteq Payers

VARIABLES
    booked,         \* units of today in committed rows of llm_usage
    owed,           \* units of today in rows of a transaction still open, by payer
    missing,        \* units paid today without a row, less those with two, by job
    old             \* payers whose open transaction began before midnight

usageVars == <<booked, owed, missing, old>>

UsageTypeOK ==
    /\ booked \in Nat
    /\ owed \in [Payers -> Nat]
    /\ missing \in [Background -> Int]
    /\ old \in SUBSET Payers

UsageInit ==
    /\ booked = 0
    /\ owed = [p \in Payers |-> 0]
    /\ missing = [j \in Background |-> 0]
    /\ old = {}

\* get_budget_state and BudgetState.exceeded: the open rows of others are not seen.
Exceeded == Limit > 0 /\ booked >= Limit

\* An answer has been received: complete() returns and record_usage adds its row.
Charge(p, n) ==
    /\ owed' = [owed EXCEPT ![p] = IF p \in old THEN @ ELSE @ + n]
    /\ UNCHANGED <<booked, missing, old>>

Settled(ps) ==
    /\ owed' = [p \in Payers |-> IF p \in ps THEN 0 ELSE owed[p]]
    /\ old' = old \ ps

\* The transaction with the rows of p and q is committed; another begins with the
\* next statement.
Book(p, q) ==
    /\ booked' = booked + (IF p = q THEN owed[p] ELSE owed[p] + owed[q])
    /\ Settled({p, q})
    /\ UNCHANGED missing

\* The transaction is rolled back and n units of p are written in a clean one
\* (write_snapshots), or none.
Rebook(p, q, n) ==
    /\ booked' = booked + n
    /\ missing' = [j \in Background |->
                      CASE j = p        -> missing[j] + owed[p] - n
                        [] j # p /\ j = q -> missing[j] + owed[q]
                        [] OTHER        -> missing[j]]
    /\ Settled({p, q})

\* An error, a crash or a lost connection.
Drop(p, q) == Rebook(p, q, 0)

\* spent_today_usd begins again at zero.
NewDay(busy) ==
    /\ booked' = 0
    /\ owed' = [p \in Payers |-> 0]
    /\ missing' = [j \in Background |-> 0]
    /\ old' = busy
=============================================================================
