------------------------------- MODULE MCDesk -------------------------------
(* A small instance of Desk.                                                 *)
EXTENDS Desk, Integers, TLC

Case == [Money |-> "money", money |-> "money", health |-> "health", food |-> "food"]

SourceAs(on, reader, read, brought) == [on |-> on, reader |-> reader, read |-> read, brought |-> brought]
Scanned == SourceAs(TRUE, TRUE, "today", TRUE)

Life(source, posts, pool) == [source |-> source, posts |-> posts, pool |-> pool]
\* Everything is well; nothing is ready; posts wait for the operator; sources without a
\* reader, or not read for long; only the pool has something.
Lives(s1, s2) == {
    Life(s1 :> Scanned @@ s2 :> Scanned, {"new", "rewritten"}, "none"),
    Life(s1 :> Scanned @@ s2 :> SourceAs(TRUE, FALSE, "never", FALSE), {"selected"}, "cooling"),
    Life(s1 :> SourceAs(TRUE, TRUE, "long ago", FALSE) @@ s2 :> SourceAs(FALSE, FALSE, "never", FALSE),
         {"pending", "rewritten"}, "none"),
    Life(s1 :> SourceAs(TRUE, TRUE, "never", FALSE) @@ s2 :> SourceAs(FALSE, TRUE, "never", FALSE), {}, "ready")}
Background == LET first == CHOOSE s \in Sources : TRUE IN Lives(first, CHOOSE s \in Sources : s # first)
OfTheme == {[hour |-> 24], [hour |-> 0, manual |-> TRUE], [manual |-> FALSE], [on |-> FALSE],
            [rubrics |-> <<"Money", "money">>], [rubrics |-> <<"Money", "health", "food">>]}
OfBot == {[on |-> FALSE], [on |-> TRUE], [auto |-> TRUE], [auto |-> TRUE, pace |-> "slow"], [pace |-> "never"],
          [of |-> NoTheme]} \union {[of |-> t] : t \in Themes}

\* Values that are right one by one.
Bounds == [min_trust_score |-> {1, 5, 10}, max_trust_score |-> {10, 20},
           selection_score_threshold |-> {15, 60}, min_rewrite_stock |-> {5, 50},
           max_daily_batch |-> {1, 20}, rewrite_stock_days |-> {2, 7}]
Standard == [min_trust_score |-> 5, max_trust_score |-> 20, selection_score_threshold |-> 15,
             min_rewrite_stock |-> 5, max_daily_batch |-> 20, rewrite_stock_days |-> 2]
Sent == {[automation |-> a] : a \in {[min_trust_score |-> 10], [max_trust_score |-> 10], [min_trust_score |-> 1],
                                     [selection_score_threshold |-> 60], [selection_score_threshold |-> 15],
                                     [max_daily_batch |-> 1, rewrite_stock_days |-> 7], [min_rewrite_stock |-> 50, rewrite_stock_days |-> 7],
                                     [max_daily_batch |-> 0]}}
        \union {[timezone |-> NoZone], [pool_cooldown_days |-> -1], [timezone |-> "UTC", pool_cooldown_days |-> 0]}

EditorOf == [b \in ThemeBots |-> CHOOSE c \in People : TRUE]
HomeOf == [p \in Drafts |-> CHOOSE b \in ThemeBots : (p = CHOOSE q \in Drafts : TRUE) <=> (b = CHOOSE d \in ThemeBots : TRUE)]

\* Every text of up to five pieces, markers of one and of two characters among them.
Pieces == {<<"x">>, <<" ">>, <<"*">>, <<"*", "*">>, <<"_">>, <<"_", "_">>}
Extra == {<<"<">>, <<"~", "~">>, <<"code">>}
Longer(texts, pieces) == {t \o p : t \in texts, p \in pieces}
UpTo[n \in 0 .. 5] == IF n = 0 THEN {<<>>} ELSE UpTo[n - 1] \union Longer(UpTo[n - 1], Pieces)
AllTexts == UpTo[5] \union Longer(Longer(Longer(UpTo[1], Extra), Pieces), Extra)
=============================================================================
