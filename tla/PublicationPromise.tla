------------------------- MODULE PublicationPromise -------------------------
(***************************************************************************)
(* What publishing promises of a theme's candidates: one counted as        *)
(* published has reached the readers of every channel. It may reach a      *)
(* channel long before that, or more than once; nothing is ever taken back.*)
(***************************************************************************)
CONSTANTS Channels, Posts

VARIABLES
    reached,        \* the channels every candidate has appeared in
    counted         \* the candidates counted as published

promiseVars == <<reached, counted>>

PromiseInit ==
    /\ reached = [p \in Posts |-> {}]
    /\ counted = {}

Reach(p, ch) ==
    /\ reached' = [reached EXCEPT ![p] = @ \union {ch}]
    /\ UNCHANGED counted

Count(p) ==
    /\ reached[p] = Channels
    /\ counted' = counted \union {p}
    /\ UNCHANGED reached

PromiseNext == \E p \in Posts : Count(p) \/ \E ch \in Channels : Reach(p, ch)

PromiseSpec == PromiseInit /\ [][PromiseNext]_promiseVars
=============================================================================
