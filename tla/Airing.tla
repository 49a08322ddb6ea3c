------------------------------- MODULE Airing -------------------------------
(***************************************************************************)
(* Publication and the watchdog at work on the same channels: the two jobs *)
(* of the scheduler's process, the bots told of every message, and other   *)
(* people posting.                                                         *)
(***************************************************************************)
EXTENDS Delivery, AdWatchdog

vars == <<channelVars, deliveryVars, watchdogVars>>

TypeOK ==
    /\ ChannelsTypeOK
    /\ DeliveryTypeOK
    /\ WatchdogTypeOK

Init ==
    /\ ChannelsInit
    /\ DeliveryInit
    /\ WatchdogInit

Outside ==
    /\ (\E ch \in Channels : AdPosted(ch)) \/ (\E item \in PoolPosts : Cooled(item))
    /\ UNCHANGED <<deliveryVars, watchdogVars>>
DeliveryStep == DeliveryNext /\ UNCHANGED watchdogVars
JobStep == WatchdogJob /\ UNCHANGED deliveryVars
DueStep ==
    /\ \E m \in wd.todo : Take(m, pub.sent)
    /\ UNCHANGED deliveryVars
BotStep == BotNext /\ UNCHANGED deliveryVars

\* The scheduler's process stops: both sessions are rolled back.
Crash ==
    /\ pub.pc # "idle" \/ wd.pc # "idle"
    /\ RollBack(held)
    /\ pub' = Resting
    /\ wd' = Asleep
    /\ UNCHANGED <<published, pending>>

Next ==
    \/ Outside
    \/ DeliveryStep
    \/ JobStep
    \/ DueStep
    \/ BotStep
    \/ Crash

Spec == Init /\ [][Next]_vars

\* The scheduler ticks for ever, a session gets on with what it has begun, and
\* time passes: a detection looked at again and again is due at last. Failures need
\* no fairness: MaxTrouble bounds them.
Fairness ==
    /\ WF_vars(DeliverySession /\ UNCHANGED watchdogVars)
    /\ WF_vars(JobStep)
    /\ SF_vars(DueStep)

FairSpec == Spec /\ Fairness

(***************************************************************************)
(* Properties.                                                             *)
(***************************************************************************)

\* publish_candidate_to_channels: a channel gets one publication of a candidate at
\* most in the publications table, however often the session that sends it fails,
\* is repeated, or races the watchdog.
PostRecordedOnce ==
    \A m, n \in recorded :
        m[1] = n[1] /\ Content(m) = Content(n) /\ Content(m) \in Posts => m = n

\* cover_if_due looks at the publications once, before it waits for the row of the
\* pool post and for Telegram: what it then covers is still no publication of ours.
RecordedNotCovered ==
    wd.pc \in {"cover", "sent"} => wd.msg \notin recorded

\* Publishing keeps its promise to the editors (PublicationPromise): the status
\* PUBLISHED says that every channel of the theme has the post.
Promise == INSTANCE PublicationPromise WITH
    reached <- [p \in Posts |-> {ch \in Channels : Shown(p, ch)}],
    counted <- published
KeepsPromise == Promise!PromiseSpec

\* ad_watchdog_job: no detection stays PENDING for ever: it is covered, or found to
\* be of a publication of ours, whatever the races, failures and restarts.
DetectionsSettled ==
    \A m \in Channels \X (1 .. 4*(MaxFeed + MaxTrouble)) : m \in pending ~> m \notin pending

\* ad_watchdog.py:90-94: an hour later a real publication of ours is sure to be in
\* the database; so what is covered is somebody else's.
OwnNotCovered == [][Cover => Content(wd.msg) = Ad]_vars

(***************************************************************************)
(* The inductive invariant the theorems of AiringProofs rest on.           *)
(***************************************************************************)

\* Whatever a session, a detection or a publication speaks of stands in its channel.
AllStanding ==
    \A m \in untold \union recorded \union pending \union pub.sent \union wd.todo \union wd.sent :
        Standing(m)

\* A message in the watchdog's hand is not of the publication in progress.
InHand ==
    wd.pc \in {"check", "cover", "sent"} =>
        wd.msg \in Message /\ Standing(wd.msg) /\ wd.msg \notin pub.sent

\* What has been sent shows the post being published, and one message was recorded for
\* each channel served, which shows it.
Underway ==
    /\ pub.pc # "idle" => pub.item \in Item
    /\ pub.pc # "sending" => pub.sent = {}
    /\ pub.item \in Posts => pub.item \notin published
    /\ pub.left \subseteq Channels
    /\ \A m \in pub.sent : Content(m) = pub.item /\ m[1] \notin pub.left
    /\ \A m, n \in pub.sent : m[1] = n[1] => m = n
    /\ pub.pc = "sending" =>
         \A ch \in Channels \ pub.left : Shown(pub.item, ch)

\* The watchdog covers with posts of the pool only.
Covering ==
    /\ wd.pc \in {"cover", "sent"} => wd.item \in PoolPosts
    /\ \A m \in wd.sent : wd.pc = "sent" /\ Content(m) = wd.item

\* A recorded message of a candidate is of one that counts as published.
RecordedPublished ==
    \A m \in recorded : Content(m) \in Posts => Content(m) \in published

IInv ==
    /\ TypeOK
    /\ AllStanding
    /\ InHand
    /\ Underway
    /\ Covering
    /\ RecordedPublished
    /\ PostRecordedOnce
    /\ RecordedNotCovered

=============================================================================
