------------------------------ MODULE MCAiring ------------------------------
(* Small instances of Airing.                                                 *)
EXTENDS Airing, TLC

\* The channels are interchangeable, and so are the candidates.
Symmetry == Permutations(Channels) \union Permutations(Posts)

\* Publication alone, on more channels: the process of the bots is down, and their
\* updates wait for it.
BotsDownSpec == Init /\ [][Outside \/ DeliveryStep \/ Crash]_vars
=============================================================================
