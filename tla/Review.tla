------------------------------- MODULE Review -------------------------------
(***************************************************************************)
(* The operators' decisions (core/services/review.py), taken in the panel  *)
(* (interfaces/api/routers/candidates.py) or with the bots' buttons. A     *)
(* request reads the rows, checks the status it read, and writes and       *)
(* commits at its end; it locks nothing before that.                       *)
(***************************************************************************)
EXTENDS CandidateStore

CONSTANT Operators

VARIABLES
    req,            \* the request each operator has in progress
    undo            \* the ids each operator's last "reject all" returned

reviewVars == <<req, undo>>

Operation == {"none", "approve", "unapprove", "edit", "reject", "reject_all", "restore"}

ReviewTypeOK ==
    /\ req \in [Operators -> [op : Operation, posts : SUBSET Candidates]]
    /\ undo \in [Operators -> SUBSET Candidates]

NoRequest == [op |-> "none", posts |-> {}]

ReviewInit ==
    /\ req = [o \in Operators |-> NoRequest]
    /\ undo = [o \in Operators |-> {}]

WithStatus(S, s) == {c \in S : status[c] = s}

\* Mutant of Expected: the undo of an approval also takes a rejected post back.
ExpectedUndone(op) == IF op = "unapprove" THEN "REJECTED" ELSE "PENDING_REVIEW"

\* The status an operation on one candidate demands of the row it reads.
Expected(op) == IF op = "unapprove" THEN "REWRITTEN" ELSE "PENDING_REVIEW"

\* The rows a restore puts back on review: of those the operator's mass rejection
\* returned, the ones still rejected.
Restorable(o) == WithStatus(undo[o], "REJECTED")

\* The rows are read and the operation's check passes on what was read; an
\* operation whose check fails answers an error and changes nothing.
Decide(o) ==
    /\ req[o].op = "none"
    /\ \/ \E op \in {"approve", "unapprove", "edit", "reject"}, c \in Candidates :
             /\ status[c] = Expected(op)
             /\ req' = [req EXCEPT ![o] = [op |-> op, posts |-> {c}]]
       \/ /\ WithStatus(Candidates, "PENDING_REVIEW") # {}
          /\ req' = [req EXCEPT ![o] = [op    |-> "reject_all",
                                        posts |-> WithStatus(Candidates, "PENDING_REVIEW")]]
       \/ /\ undo[o] # {}
          /\ req' = [req EXCEPT ![o] = [op    |-> "restore",
                                        posts |-> Restorable(o)]]
    /\ UNCHANGED <<store, undo>>

\* The status column the operation writes; an edit writes a new text version only.
Written(op, old) ==
    CASE op = "approve"                    -> "REWRITTEN"
      [] op \in {"unapprove", "restore"}   -> "PENDING_REVIEW"
      [] op \in {"reject", "reject_all"}   -> "REJECTED"
      [] OTHER                             -> old

\* Flush and commit: the rows change whatever became of them since the check. The
\* operation names posts by their ids, so an approval vets the text the row has when it
\* commits, which need not be the one the operator was shown.
Decided(o) ==
    /\ req[o].op # "none"
    /\ \A c \in req[o].posts : Lockable(c, "operator")
    /\ status' = [c \in Candidates |-> IF c \in req[o].posts
                                       THEN Written(req[o].op, status[c]) ELSE status[c]]
    /\ text' = [c \in Candidates |-> IF c \in req[o].posts /\ req[o].op \in {"approve", "edit"}
                                     THEN "vetted" ELSE text[c]]
    /\ undo' = [undo EXCEPT ![o] = CASE req[o].op = "reject_all" -> req[o].posts
                                     [] req[o].op = "restore"    -> {}
                                     [] OTHER                    -> @]
    /\ req' = [req EXCEPT ![o] = NoRequest]
    /\ UNCHANGED <<embedded, lock>>

\* The API or bot process dies, or the operator's connection does.
Dropped(o) ==
    /\ req[o].op # "none"
    /\ req' = [req EXCEPT ![o] = NoRequest]
    /\ UNCHANGED <<store, undo>>

ReviewNext == \E o \in Operators : Decide(o) \/ Decided(o) \/ Dropped(o)
=============================================================================
