---------------------------- MODULE MCTimetable ----------------------------
(* Small instances of Timetable.                                             *)
EXTENDS Timetable

Rubric == {"money", "family money"}
Parts == {<<"money", "family money">>, <<"family money", "money">>}
\* A list where one name contains another; none.
Lists == {<<"family money", "money">>, <<>>}

Scene(from, to, min, max, byItself, posts, pooled, faults, switches, covers, demotions) ==
    [cadence |-> [from |-> from, to |-> to, min |-> min, max |-> max], auto |-> byItself,
     posts |-> 1 .. posts, stock |-> pooled,
     left |-> [faults |-> faults, switches |-> switches, covers |-> covers, demotions |-> demotions]]

\* No post; a night past midnight and three posts, of which one is demoted; a night
\* within a day, with channels switched and a cover; no night, with a failure and an interval
\* the wrong way round; posts that keep coming; nothing but quiet hours.
Situations == {Scene(2, 1, 2, 2, TRUE, 0, FALSE, 0, 0, 0, 0),
               Scene(2, 1, 2, 4, TRUE, 3, FALSE, 0, 0, 0, 1),
               Scene(1, 2, 1, 3, TRUE, 1, TRUE, 0, 2, 1, 0),
               Scene(2, 2, 3, 1, FALSE, 1, FALSE, 1, 2, 0, 0),
               Scene(2, 2, 0, 0, TRUE, 4, FALSE, 0, 0, 0, 0),
               Scene(0, 3, 1, 1, TRUE, 1, TRUE, 0, 0, 0, 0)}

Batches == UNION {[1 .. n -> {"money", "family money", "none"}] : n \in 0 .. 6}
=============================================================================
