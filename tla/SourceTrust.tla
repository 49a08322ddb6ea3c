---------------------------- MODULE SourceTrust ----------------------------
(***************************************************************************)
(* The trust in one source channel (core/services/trust_score.py), by      *)
(* which its scores are multiplied: moved by every session that judges one *)
(* of its posts, within bounds the panel sets (automation.py). A session   *)
(* goes by the object it has loaded, and writes the value, not a change.   *)
(***************************************************************************)
EXTENDS Integers

CONSTANTS
    Highest,            \* the highest bound the panel accepts; the lowest is 0
    Penalty,            \* trust_rejected_penalty and trust_duplicate_penalty ...
    Bonus,              \* ... and trust_success_bonus, in the same unit
    MaxSetbacks,        \* bound: posts setbacks, transactions rolled back
    MaxBounds           \* bound: changes of the bounds

ASSUME TrustAssumption ==
    /\ {Highest, Bonus} \subseteq Nat \ {0}
    /\ Penalty \in [{"rejected", "duplicate"} -> Nat]
    /\ MaxSetbacks \in Nat /\ MaxBounds \in Nat

VARIABLES
    trust,              \* committed trust_score
    bounds,             \* min_trust_score and max_trust_score
    judge,              \* the object each session has of the source
    setbacks, changed   \* counted so far

trustVars == <<trust, bounds, judge, setbacks, changed>>

\* The rewriting tick, a forced generation, an operator's review.
Judges == {"tick", "force", "operator"}
Trusts == 0 .. Highest
Limits == {b \in [min : Trusts, max : Trusts] : b.min < b.max}

TrustTypeOK ==
    /\ trust \in Trusts /\ bounds \in Limits
    /\ judge \in [Judges -> [held : Trusts \union {-1}, dirty : BOOLEAN]]
    /\ setbacks \in 0 .. MaxSetbacks /\ changed \in 0 .. MaxBounds

NotLoaded == [held |-> -1, dirty |-> FALSE]

TrustInit ==
    /\ bounds \in Limits /\ trust \in bounds.min .. bounds.max
    /\ judge = [j \in Judges |-> NotLoaded]
    /\ setbacks = 0 /\ changed = 0

Events(j) == IF j = "operator" THEN {"rejected"} ELSE {"duplicate", "success"}
Delta(e) == IF e = "success" THEN Bonus ELSE - Penalty[e]

Lower(a, b) == IF a < b THEN a ELSE b
Upper(a, b) == IF a < b THEN b ELSE a

\* Mutants of Clamp: the bounds exchanged; or left out.
ClampSwapped(v) == Lower(bounds.min, Upper(bounds.max, v))
Unclamped(v) == v

Clamp(v) == Upper(bounds.min, Lower(bounds.max, v))

\* session.get: from the identity map, or read anew once nobody keeps the object.
Load(j) ==
    /\ ~judge[j].dirty /\ judge[j].held # trust
    /\ judge' = [judge EXCEPT ![j].held = trust]
    /\ UNCHANGED <<trust, bounds, setbacks, changed>>

\* adjust_trust_score: clamped, and flushed if that changes the value; the flush
\* waits for another session's.
Adjust(j, e) ==
    /\ judge[j].held # -1
    /\ e # "success" => setbacks < MaxSetbacks
    /\ setbacks' = IF e = "success" THEN setbacks ELSE setbacks + 1
    /\ LET after == Clamp(judge[j].held + Delta(e)) IN
          /\ after # judge[j].held => \A k \in Judges \ {j} : ~judge[k].dirty
          /\ judge' = [judge EXCEPT ![j].held = after,
                                    ![j].dirty = @ \/ after # judge[j].held]
    /\ UNCHANGED <<trust, bounds, changed>>

\* The objects of a session survive its commit (core/db.py: expire_on_commit).
CommitTrust(j) ==
    /\ judge[j].dirty
    /\ trust' = judge[j].held
    /\ judge' = [judge EXCEPT ![j].dirty = FALSE]
    /\ UNCHANGED <<bounds, setbacks, changed>>

\* The session is closed, or rolled back, which expires its objects.
Discard(j) ==
    /\ judge[j] # NotLoaded
    /\ judge[j].dirty => setbacks < MaxSetbacks
    /\ setbacks' = IF judge[j].dirty THEN setbacks + 1 ELSE setbacks
    /\ judge' = [judge EXCEPT ![j] = NotLoaded]
    /\ UNCHANGED <<trust, bounds, changed>>

\* The panel accepts min < max only (check_consistency).
SetBounds(b) ==
    /\ changed < MaxBounds /\ b # bounds
    /\ bounds' = b /\ changed' = changed + 1
    /\ UNCHANGED <<trust, judge, setbacks>>

TrustNext ==
    \/ \E j \in Judges :
          \/ Load(j)
          \/ \E e \in Events(j) : Adjust(j, e)
          \/ CommitTrust(j)
          \/ Discard(j)
    \/ \E b \in Limits : SetBounds(b)
=============================================================================
