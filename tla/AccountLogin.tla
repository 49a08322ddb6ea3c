----------------------------- MODULE AccountLogin -----------------------------
(***************************************************************************)
(* A reading account is logged in from the panel by several requests       *)
(* (core/services/telethon_login.py, routers/telethon_sessions.py). What   *)
(* one request knows is kept for the next in Redis, for ten minutes.       *)
(***************************************************************************)
EXTENDS Naturals, FiniteSets

CONSTANTS
    Attempts,           \* attempt_id
    Calls,              \* requests handled at the same time
    MaxSubmits          \* bound: codes and passwords sent

ASSUME LoginAssumption == MaxSubmits \in Nat /\ IsFiniteSet(Calls) /\ "nobody" \notin Attempts

VARIABLES
    kept,               \* _AttemptState in Redis: the client's session as of which step
    call,               \* what each request is about, and how far it has come
    accounts,           \* telethon_sessions rows made by each attempt
    accepted,           \* how often Telegram has logged the client of each attempt in
    disturbed,          \* attempts that two requests have had in hand at once, or one of
                        \* whose requests was cut short
    unused,             \* the attempt_ids not given out
    submits             \* codes and passwords still to be sent

loginVars == <<kept, call, accounts, accepted, disturbed, unused, submits>>

Free == [of |-> "nobody", at |-> "idle", with |-> "code"]

LoginTypeOK ==
    /\ kept \in [Attempts -> {"nothing", "code", "password"}]
    /\ call \in [Calls -> {Free} \union
                   [of : Attempts, at : {"signing", "accepted", "signed"}, with : {"code", "password"}]]
    /\ accounts \in [Attempts -> 0 .. MaxSubmits] /\ accepted \in [Attempts -> Nat]
    /\ disturbed \subseteq Attempts /\ unused \subseteq Attempts
    /\ submits \in 0 .. MaxSubmits

LoginInit ==
    /\ kept = [a \in Attempts |-> "nothing"]
    /\ call = [c \in Calls |-> Free]
    /\ accounts = [a \in Attempts |-> 0] /\ accepted = [a \in Attempts |-> 0]
    /\ disturbed = {} /\ unused = Attempts
    /\ submits = MaxSubmits

\* _save_state, _delete_state.
Keep(a, session) == kept' = [kept EXCEPT ![a] = session]

\* start_login: Telegram sends a code (or refuses, and nothing is kept); every start
\* has an attempt_id of its own.
Start(a) ==
    /\ a \in unused /\ unused' = unused \ {a}
    /\ Keep(a, "code")
    /\ UNCHANGED <<call, accounts, accepted, disturbed, submits>>

InHandOf(a) == {c \in Calls : call[c].of = a}

\* submit_code, submit_password: the state is loaded, the client starts to sign in. (A
\* password before its turn is refused, and changes nothing.)
Submit(c, a, with) ==
    /\ submits > 0 /\ submits' = submits - 1
    /\ call[c] = Free /\ kept[a] # "nothing"
    /\ with = "password" => kept[a] = "password"
    /\ call' = [call EXCEPT ![c] = [of |-> a, at |-> "signing", with |-> with]]
    /\ disturbed' = IF InHandOf(a) = {} THEN disturbed ELSE disturbed \union {a}
    /\ UNCHANGED <<kept, accounts, accepted, unused>>

\* Telegram accepts.
Accepted(c) ==
    /\ call[c].at = "signing"
    /\ accepted' = [accepted EXCEPT ![call[c].of] = @ + 1]
    /\ call' = [call EXCEPT ![c].at = "accepted"]
    /\ UNCHANGED <<kept, accounts, disturbed, unused, submits>>

\* Mutant of SignedIn: the state is left to expire.
SignedInKept(c) ==
    /\ call[c].at = "accepted"
    /\ call' = [call EXCEPT ![c].at = "signed"]
    /\ UNCHANGED <<kept, accounts, accepted, disturbed, unused, submits>>

\* The state is deleted.
SignedIn(c) ==
    /\ call[c].at = "accepted"
    /\ Keep(call[c].of, "nothing")
    /\ call' = [call EXCEPT ![c].at = "signed"]
    /\ UNCHANGED <<accounts, accepted, disturbed, unused, submits>>

\* SessionPasswordNeededError: the state is saved again, also where another request
\* has deleted it by now, or where it has expired.
PasswordNeeded(c) ==
    /\ call[c].at = "signing" /\ call[c].with = "code"
    /\ Keep(call[c].of, "password")
    /\ call' = [call EXCEPT ![c] = Free]
    /\ UNCHANGED <<accounts, accepted, disturbed, unused, submits>>

\* Any other refusal; the state is kept, for another try.
Refused(c) ==
    /\ call[c].at = "signing"
    /\ call' = [call EXCEPT ![c] = Free]
    /\ UNCHANGED <<kept, accounts, accepted, disturbed, unused, submits>>

\* The account is recorded.
Enrolled(c) ==
    /\ call[c].at = "signed"
    /\ accounts' = [accounts EXCEPT ![call[c].of] = @ + 1]
    /\ call' = [call EXCEPT ![c] = Free]
    /\ UNCHANGED <<kept, accepted, disturbed, unused, submits>>

\* The panel's process dies, Redis does not answer or the commit fails: an account that
\* is logged in already may be recorded nowhere, and its state still be there.
CallDies(c) ==
    /\ call[c] # Free
    /\ disturbed' = disturbed \union {call[c].of}
    /\ call' = [call EXCEPT ![c] = Free]
    /\ UNCHANGED <<kept, accounts, accepted, unused, submits>>

\* delete_telethon_session.
RemoveAccount(a) ==
    /\ accounts[a] > 0
    /\ accounts' = [accounts EXCEPT ![a] = @ - 1]
    /\ UNCHANGED <<kept, call, accepted, disturbed, unused, submits>>

\* SET ... EX: ten minutes later.
Expire(a) ==
    /\ kept[a] # "nothing"
    /\ Keep(a, "nothing")
    /\ UNCHANGED <<call, accounts, accepted, disturbed, unused, submits>>

LoginNext ==
    \/ \E c \in Calls :
          \/ Accepted(c) \/ SignedIn(c) \/ PasswordNeeded(c) \/ Refused(c) \/ Enrolled(c) \/ CallDies(c)
          \/ \E a \in Attempts, with \in {"code", "password"} : Submit(c, a, with)
    \/ \E a \in Attempts : Start(a) \/ RemoveAccount(a) \/ Expire(a)

-----------------------------------------------------------------------------
\* Whatever codes and passwords are tried and refused first, an attempt that Telegram has
\* accepted is over: its client's session is not in Redis any more once the request has
\* got past it, no other request takes it up, and no second account comes of it; unless
\* two requests had it in hand at once, or one was cut short (submit_code,
\* submit_password).
AcceptedOnce ==
    \A a \in Attempts \ disturbed :
        /\ accounts[a] <= accepted[a] /\ accepted[a] <= 1
        /\ accepted[a] = 1 =>
              /\ kept[a] = "nothing" \/ \E c \in InHandOf(a) : call[c].at = "accepted"
              /\ \A c \in InHandOf(a) : call[c].at # "signing"
=============================================================================
