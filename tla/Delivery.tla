------------------------------ MODULE Delivery ------------------------------
(***************************************************************************)
(* publish_pool_job (scheduler.py) with SchedulerPoolService.pick_next and *)
(* PublisherService: one post, sent to every active channel of the theme,  *)
(* one call to Telegram after another, and one commit at the end. How the  *)
(* candidate's row is picked and locked is the matter of Publishing; here  *)
(* the sends are.                                                          *)
(***************************************************************************)
EXTENDS TargetChannels

VARIABLES
    published,      \* candidates whose status is PUBLISHED
    pub             \* the publication in progress: what, where still, and the
                    \* messages Telegram has answered with

deliveryVars == <<published, pub>>

DeliveryTypeOK ==
    /\ published \in SUBSET Posts
    /\ pub \in [pc   : {"idle", "picked", "sending"},
                item : Item \union {NoItem},
                left : SUBSET Channels,
                sent : SUBSET Message]

Resting == [pc |-> "idle", item |-> NoItem, left |-> {}, sent |-> {}]

DeliveryInit == published = {} /\ pub = Resting

Picked(item) == pub' = [Resting EXCEPT !.pc = "picked", !.item = item]

\* The rewritten candidates come first.
PickPost(item) ==
    /\ pub.pc = "idle" /\ item \in Posts \ published
    /\ Picked(item)
    /\ UNCHANGED <<channelVars, published>>

\* Without one, the slot is filled from the pool.
PickPool(item) ==
    /\ pub.pc = "idle" /\ Posts \subseteq published
    /\ \A ch \in Channels : Len(feed[ch]) <= MaxFeed
    /\ item \in Pickable(TRUE)
    /\ Picked(item)
    /\ UNCHANGED <<channelVars, published>>

\* SELECT ... FOR UPDATE of the post's row.
Begin ==
    /\ pub.pc = "picked" /\ pub.item \notin held
    /\ held' = held \union ({pub.item} \cap PoolPosts)
    /\ pub' = [pub EXCEPT !.pc = "sending", !.left = Channels]
    /\ UNCHANGED <<feed, untold, recorded, cooling, trouble, published>>

\* One channel gets its message; of an album the answer names the first.
Send(ch) ==
    /\ pub.pc = "sending" /\ ch \in pub.left
    /\ Appear(ch, pub.item)
    /\ pub' = [pub EXCEPT !.left = @ \ {ch}, !.sent = @ \union {Coming(ch)}]
    /\ UNCHANGED <<recorded, cooling, held, trouble, published>>

\* Mutant of Recorded: the pool post gets a candidate's status.
RecordedPool ==
    /\ recorded' = recorded \union pub.sent
    /\ published' = published \union {pub.item}
    /\ cooling' = Used(pub.item)
    /\ held' = held \ {pub.item}
    /\ pub' = Resting
    /\ UNCHANGED <<feed, untold, trouble>>

\* The publications, and the candidate's PUBLISHED or the pool post's last use.
Recorded ==
    /\ recorded' = recorded \union pub.sent
    /\ published' = published \union ({pub.item} \cap Posts)
    /\ cooling' = Used(pub.item)
    /\ held' = held \ {pub.item}
    /\ pub' = Resting
    /\ UNCHANGED <<feed, untold, trouble>>

\* Mutant of Commit: only the first channel is served.
CommitFirst ==
    /\ pub.pc = "sending" /\ pub.sent # {}
    /\ Recorded

\* Mutant of Commit: the candidate's status is forgotten.
CommitStatusless ==
    /\ pub.pc = "sending" /\ pub.left = {}
    /\ recorded' = recorded \union pub.sent
    /\ held' = held \ {pub.item}
    /\ pub' = Resting
    /\ UNCHANGED <<feed, untold, trouble, cooling, published>>

Commit ==
    /\ pub.pc = "sending" /\ pub.left = {}
    /\ Recorded

\* A send that failed or whose answer was lost: everything is rolled back, and the
\* candidate is picked again in a later tick.
Fail ==
    /\ pub.pc # "idle"
    /\ RollBack(IF pub.pc = "sending" THEN {pub.item} ELSE {})
    /\ pub' = Resting
    /\ UNCHANGED published

DeliverySession == Begin \/ Commit \/ Fail \/ \E ch \in Channels : Send(ch)

DeliveryNext ==
    \/ DeliverySession
    \/ \E item \in Item : PickPost(item) \/ PickPool(item)
=============================================================================
