----------------------------- MODULE MCSources -----------------------------
(* Small instances of SourceChannels.                                        *)
EXTENDS SourceChannels

CONSTANTS s1, s2

Bound(edits, trouble, manual) ==
    [edits |-> [s \in Sources |-> IF s = s1 THEN edits ELSE 0], trouble |-> trouble, manual |-> manual]

\* No source; one edited in the panel, read by both readers or by the tick alone; one of
\* which both readers may make the first scan; two sources, read by the tick alone, with a
\* failure, or by both readers at once.
Small == {[present |-> {}, posted |-> 0, left |-> Bound(0, 0, 0)],
          [present |-> {s1}, posted |-> 3, left |-> Bound(2, 1, 1)],
          [present |-> {s1}, posted |-> 2, left |-> Bound(2, 1, 0)],
          [present |-> {s1}, posted |-> 0, left |-> Bound(0, 0, 1)],
          [present |-> {s1, s2}, posted |-> 2, left |-> Bound(0, 1, 0)],
          [present |-> {s1, s2}, posted |-> 3, left |-> Bound(0, 0, 1)]}
Penalties == [rejected |-> 2, duplicate |-> 1]
=============================================================================
