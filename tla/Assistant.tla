------------------------------ MODULE Assistant ------------------------------
(***************************************************************************)
(* A question to the assistant (core/services/assistant.py, the toolbox of *)
(* assistant_tools.py): the model is asked in rounds, asks for data, and   *)
(* is given them up to a limit; every round is paid for, and all of them   *)
(* are booked by one commit at the end. A round's row is only added to the *)
(* session: the next query writes it, in the transaction that query is in. *)
(***************************************************************************)
EXTENDS Naturals

CONSTANTS
    MaxRounds,          \* MAX_TOOL_ROUNDS
    OutputBudget,       \* TOOL_OUTPUT_BUDGET_CHARS
    ResultSize,         \* bound: the size of a tool's result
    MaxCalls            \* bound: tools asked for in a round

ASSUME AssistantAssumption ==
    /\ MaxRounds \in Nat \ {0} /\ OutputBudget \in Nat \ {0} /\ ResultSize \in Nat /\ MaxCalls \in Nat

VARIABLES
    phase, round,
    calls,              \* tools of this round still to be run
    given,              \* spent_chars
    added,              \* rows of llm_usage the session has and the database has not
    tx,                 \* the transaction: open; aborted by a failed query, of which the
                        \* session does not know; or lost, and the session refuses all
    paid, booked        \* rounds paid for, and in committed rows of llm_usage

questionVars == <<phase, round, calls, given, added, tx, paid, booked>>

Ended == {"answered", "refused", "failed"}

QuestionTypeOK ==
    /\ phase \in {"asked", "thinking", "tools"} \union Ended
    /\ round \in 0 .. MaxRounds - 1
    /\ calls \in 0 .. MaxCalls
    /\ given \in Nat /\ added \in Nat
    /\ tx \in {"open", "aborted", "lost"}
    /\ paid \in Nat /\ booked \in Nat

QuestionInit ==
    /\ phase = "asked" /\ round = 0 /\ calls = 0 /\ given = 0
    /\ added = 0 /\ tx = "open" /\ paid = 0 /\ booked = 0

\* ensure_budget, once for the question.
Begin ==
    /\ phase = "asked"
    /\ phase' \in {"thinking", "refused"}
    /\ UNCHANGED <<round, calls, given, added, tx, paid, booked>>

\* session.commit() with these rows still to be written. In an aborted transaction there
\* must be none: PostgreSQL answers the COMMIT with a silent ROLLBACK. Any other way it
\* raises.
Finish(rows) ==
    \/ tx = "open" /\ phase' = "answered" /\ booked' = paid'
    \/ tx = "aborted" /\ rows = 0 /\ phase' = "answered" /\ UNCHANGED booked
    \/ phase' = "failed" /\ UNCHANGED booked

\* record_usage: the row is added, whatever has become of the transaction.
Paid == paid' = paid + 1 /\ added' = added + 1

\* An answer in words: the question ends, whatever the round.
Answered ==
    /\ phase = "thinking"
    /\ Paid
    /\ Finish(added')
    /\ UNCHANGED <<round, calls, given, tx>>

\* The model asks for data, on the last round too, where it is offered no tools.
AsksForTools ==
    /\ phase = "thinking"
    /\ Paid
    /\ \E n \in 1 .. MaxCalls : calls' = n
    /\ phase' = "tools"
    /\ UNCHANGED <<round, given, tx, booked>>

\* The model is not reached, or answers nothing that can be read.
ModelFails ==
    /\ phase = "thinking"
    /\ phase' = "failed"
    /\ UNCHANGED <<round, calls, given, added, tx, paid, booked>>

\* A tool's query: the session writes the added rows before it. With nothing to write an
\* aborted transaction only refuses the query; a row it cannot write, or a connection
\* that is gone, is the end of the session's transaction.
Query ==
    \/ /\ tx = "open" /\ added' = 0 /\ UNCHANGED tx
       /\ \E n \in 0 .. ResultSize : given' = given + n
    \/ /\ \/ tx = "open" /\ added' = 0
          \/ tx = "aborted" /\ added = 0 /\ UNCHANGED added
       /\ tx' = "aborted" /\ UNCHANGED given
    \/ tx' = "lost" /\ UNCHANGED <<given, added>>

\* run: past the limit no query is made. A tool that is unknown, refuses its arguments
\* or fails is told to the model as such.
Tool ==
    /\ phase = "tools" /\ calls > 0
    /\ calls' = calls - 1
    /\ \/ given < OutputBudget /\ Query
       \/ UNCHANGED <<given, added, tx>>
    /\ UNCHANGED <<phase, round, paid, booked>>

After(r) == r + 1

\* Mutant of RoundEnds: the answer of our own goes out without the commit.
RoundEndsUncommitted ==
    /\ phase = "tools" /\ calls = 0
    /\ IF After(round) < MaxRounds
       THEN round' = After(round) /\ phase' = "thinking"
       ELSE UNCHANGED round /\ phase' = "answered"
    /\ UNCHANGED <<calls, given, added, tx, paid, booked>>

\* The next round; after the last one the commit and an answer of our own.
RoundEnds ==
    /\ phase = "tools" /\ calls = 0
    /\ IF After(round) < MaxRounds
       THEN round' = After(round) /\ phase' = "thinking" /\ UNCHANGED <<paid, booked>>
       ELSE UNCHANGED <<round, paid>> /\ Finish(added)
    /\ UNCHANGED <<calls, given, added, tx>>

QuestionNext == Begin \/ Answered \/ AsksForTools \/ ModelFails \/ Tool \/ RoundEnds

-----------------------------------------------------------------------------
\* An answer has all its rounds booked, or none, and none only where a query of the last
\* round's tools failed when that round's row was written already; a question costs
\* MaxRounds rounds at most, also one whose transaction is broken from the first on; and no
\* more data are read for it than the limit and one result.
Booked ==
    /\ phase = "answered" /\ booked # paid =>
          tx = "aborted" /\ added = 0 /\ booked = 0 /\ calls = 0 /\ After(round) = MaxRounds
    /\ paid <= MaxRounds
    /\ given < OutputBudget + ResultSize

\* A question ends, whatever the model asks for and however its tools fail (answer). A
\* question that fails in a later round loses the rows of all its rounds.
QuestionEnds == <>(phase \in Ended) /\ []Booked
=============================================================================
