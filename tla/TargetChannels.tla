--------------------------- MODULE TargetChannels ---------------------------
(***************************************************************************)
(* The Telegram channels a theme publishes in, and the publications table: *)
(* what stands in each channel, which of its messages a bot has still to   *)
(* be told of, and which are recorded as publications of ours.             *)
(***************************************************************************)
EXTENDS Naturals, Sequences, FiniteSets

CONSTANTS
    Channels,       \* the active target channels of the theme
    Posts,          \* its candidates ready to be published
    Albums,         \* the candidates whose source has several photos
    PoolPosts,      \* its own reusable posts, all of them READY (without one, a
                    \* foreign message stays uncovered)
    Cooldown,       \* pool_cooldown_days > 0
    Ad,             \* a post of somebody else
    NoItem,         \* nothing picked
    MaxFeed,        \* bound: an advertisement is posted only in a channel with fewer
                    \* messages, a pool post on schedule in one with no more
    MaxTrouble      \* bound: how often a session fails

ASSUME ChannelsAssumption ==
    /\ Albums \subseteq Posts
    /\ Posts \cap PoolPosts = {}
    /\ PoolPosts # {}
    /\ Ad \notin Posts \union PoolPosts
    /\ NoItem \notin Posts \union PoolPosts
    /\ Cooldown \in BOOLEAN
    /\ MaxFeed \in Nat /\ MaxTrouble \in Nat

VARIABLES
    feed,           \* the posts of each channel, in order
    untold,         \* messages whose channel_post update is still to be handled
    recorded,       \* messages with a committed Publication
    cooling,        \* pool posts used within the cooldown (last_used_at, committed)
    held,           \* pool posts whose row a session has locked
    trouble         \* sessions that failed, so far

channelVars == <<feed, untold, recorded, cooling, held, trouble>>

Item == Posts \union PoolPosts
Message == Channels \X Nat

\* The message a post makes in a channel next.
Coming(ch) == <<ch, Len(feed[ch]) + 1>>
\* What a message shows.
Content(m) == feed[m[1]][m[2]]
\* A channel has the message.
Standing(m) == m[2] \in 1..Len(feed[m[1]])
\* A channel shows the post.
Shown(item, ch) == \E k \in DOMAIN feed[ch] : feed[ch][k] = item

ChannelsTypeOK ==
    /\ feed \in [Channels -> Seq(Item \union {Ad})]
    /\ untold \in SUBSET Message
    /\ recorded \in SUBSET Message
    /\ cooling \in SUBSET PoolPosts
    /\ held \in SUBSET PoolPosts
    /\ trouble \in Nat

ChannelsInit ==
    /\ feed = [ch \in Channels |-> <<>>]
    /\ untold = {} /\ recorded = {} /\ cooling = {} /\ held = {}
    /\ trouble = 0

\* A post appears in a channel: one message, or two for an album (as many as there
\* are photos), each with an update of its own for the bots.
Appear(ch, item) ==
    LET copies == IF item \in Albums THEN <<item, item>> ELSE <<item>>
    IN  /\ feed' = [feed EXCEPT ![ch] = @ \o copies]
        /\ untold' = untold \union
                     {<<ch, Len(feed[ch]) + k>> : k \in 1..Len(copies)}

\* Somebody else with the right to post does so.
AdPosted(ch) ==
    /\ Len(feed[ch]) < MaxFeed
    /\ Appear(ch, Ad)
    /\ UNCHANGED <<recorded, cooling, held, trouble>>

\* The pool posts on cooldown once a post is used.
Used(item) == IF Cooldown THEN cooling \union ({item} \cap PoolPosts) ELSE cooling

\* The cooldown of a pool post is over.
Cooled(item) ==
    /\ item \in cooling
    /\ cooling' = cooling \ {item}
    /\ UNCHANGED <<feed, untold, recorded, held, trouble>>

\* pick_pool_post takes the post used least recently: one not on cooldown if there
\* is any; with allow_repeat_when_all_on_cooldown also one that is.
Pickable(allowRepeat) ==
    IF PoolPosts \subseteq cooling
    THEN IF allowRepeat THEN PoolPosts ELSE {}
    ELSE PoolPosts \ cooling

\* A session that fails is rolled back, but for the messages it has sent; it lets go
\* of the rows it holds.
RollBack(rows) ==
    /\ trouble < MaxTrouble
    /\ trouble' = trouble + 1
    /\ held' = held \ rows
    /\ UNCHANGED <<feed, untold, recorded, cooling>>
=============================================================================
