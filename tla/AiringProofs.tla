---------------------------- MODULE AiringProofs ----------------------------
(***************************************************************************)
(* Airing for any set of channels, posts, albums and pool posts, with any  *)
(* number of messages and failures: the inductive invariant IInv, the      *)
(* safety properties, and the step simulation of PublicationPromise.       *)
(***************************************************************************)
EXTENDS Airing, TLAPS

USE DEF ChannelsTypeOK, DeliveryTypeOK, WatchdogTypeOK, TypeOK, channelVars, deliveryVars, watchdogVars

\* The channels have what they had, unaltered.
Grown ==
    /\ \A m \in Message : Standing(m) => Standing(m)' /\ Content(m)' = Content(m)
    /\ \A x, c : c \in Channels /\ Shown(x, c) => Shown(x, c)'

\* What appears in a channel comes after what stands there, and disturbs none of it.
LEMMA AppearFacts ==
    ASSUME TypeOK, NEW ch \in Channels, NEW item \in Item \union {Ad}, Appear(ch, item)
    PROVE  /\ Grown
           /\ feed' \in [Channels -> Seq(Item \union {Ad})] /\ untold' \in SUBSET Message
           /\ Coming(ch) \in Message /\ Coming(ch)[1] = ch /\ ~ Standing(Coming(ch))
           /\ \A m : m = Coming(ch) => Standing(m)' /\ Content(m)' = item
           /\ Shown(item, ch)'
           /\ \A m \in untold' \ untold : Standing(m)'
           /\ \A x, c : c \in Channels /\ Shown(x, c)' => Shown(x, c) \/ (x = item /\ c = ch)
<1> DEFINE copies == IF item \in Albums THEN <<item, item>> ELSE <<item>>
           n == Len(feed[ch])
<1>1. /\ copies \in Seq(Item \union {Ad}) /\ Len(copies) \in Nat /\ Len(copies) >= 1
      /\ \A k \in 1..Len(copies) : copies[k] = item
  <2>1. CASE item \in Albums
    BY <2>1
  <2>2. CASE item \notin Albums
    BY <2>2
  <2>3. QED BY <2>1, <2>2
<1>2. n \in Nat /\ feed[ch] \in Seq(Item \union {Ad}) /\ ch \in Channels
  OBVIOUS
<1>3. /\ feed' = [feed EXCEPT ![ch] = feed[ch] \o copies]
      /\ untold' = untold \union {<<ch, n + k>> : k \in 1..Len(copies)}
  BY DEF Appear
<1>4. /\ feed[ch] \o copies \in Seq(Item \union {Ad})
      /\ Len(feed[ch] \o copies) = n + Len(copies)
      /\ \A k \in 1..n : (feed[ch] \o copies)[k] = feed[ch][k]
      /\ \A k \in 1..Len(copies) : (feed[ch] \o copies)[n + k] = item
  BY <1>1, <1>2
<1> HIDE DEF copies
<1>5. feed' \in [Channels -> Seq(Item \union {Ad})] /\ untold' \in SUBSET Message
  BY <1>1, <1>2, <1>3, <1>4 DEF Message
<1>6. ASSUME NEW c \in Channels
      PROVE  /\ Len(feed[c]) \in Nat /\ Len(feed'[c]) \in Nat /\ Len(feed[c]) <= Len(feed'[c])
             /\ \A k \in 1..Len(feed[c]) : feed'[c][k] = feed[c][k]
             /\ DOMAIN feed[c] = 1..Len(feed[c]) /\ DOMAIN feed'[c] = 1..Len(feed'[c])
  <2>1. CASE c = ch
    BY <1>1, <1>2, <1>3, <1>4, <1>5, <2>1
  <2>2. CASE c # ch
    BY <1>3, <1>5, <2>2
  <2>3. QED BY <2>1, <2>2
<1>7. \A m \in Message : Standing(m) => Standing(m)' /\ Content(m)' = Content(m)
  BY <1>6 DEF Message, Standing, Content
<1>8. /\ Coming(ch) \in Message /\ Coming(ch)[1] = ch /\ ~ Standing(Coming(ch))
      /\ \A m : m = Coming(ch) => Standing(m)' /\ Content(m)' = item
      /\ Shown(item, ch)'
  <2>1. /\ n + 1 \in 1..Len(feed'[ch]) /\ feed'[ch][n + 1] = item /\ n + 1 \in DOMAIN feed'[ch]
        /\ n + 1 \notin 1..n
    <3>1. feed'[ch] = feed[ch] \o copies
      BY <1>3
    <3>2. 1 \in 1..Len(copies)
      BY <1>1
    <3>3. Len(feed'[ch]) = n + Len(copies)
      BY <1>4, <3>1
    <3>4. feed'[ch][n + 1] = item
      BY <1>1, <1>4, <3>1, <3>2
    <3>5. n + 1 \in 1..Len(feed'[ch]) /\ n + 1 \notin 1..n
      BY <1>1, <1>2, <3>3
    <3>6. QED BY <1>6, <3>4, <3>5
  <2>2. Coming(ch) = <<ch, n + 1>>
    BY DEF Coming
  <2>3. Coming(ch) \in Message /\ Coming(ch)[1] = ch /\ ~ Standing(Coming(ch))
    BY <1>2, <2>1, <2>2 DEF Message, Standing
  <2>4. ASSUME NEW m, m = Coming(ch) PROVE Standing(m)' /\ Content(m)' = item
    <3>1. m[1] = ch /\ m[2] = n + 1
      BY <2>2, <2>4
    <3>2. QED BY <2>1, <3>1 DEF Standing, Content
  <2>5. Shown(item, ch)'
    BY <2>1 DEF Shown
  <2>6. QED BY <2>3, <2>4, <2>5
<1>9. ASSUME NEW m \in untold' \ untold PROVE Standing(m)'
  <2>1. PICK k \in 1..Len(copies) : m = <<ch, n + k>>
    BY <1>3
  <2>2. Len(feed'[ch]) = n + Len(copies)
    BY <1>2, <1>3, <1>4
  <2>3. n + k \in 1..Len(feed'[ch])
    BY <1>1, <1>2, <2>2
  <2>4. QED BY <2>1, <2>3 DEF Standing
<1>10. ASSUME NEW x, NEW c \in Channels, Shown(x, c) PROVE Shown(x, c)'
  <2>1. PICK k \in DOMAIN feed[c] : feed[c][k] = x
    BY <1>10 DEF Shown
  <2>2. k \in DOMAIN feed'[c] /\ feed'[c][k] = x
    BY <1>6, <2>1
  <2>3. QED BY <2>2 DEF Shown
<1>11. ASSUME NEW x, NEW c \in Channels, Shown(x, c)', ~ Shown(x, c) PROVE x = item /\ c = ch
  <2>1. PICK k \in DOMAIN feed'[c] : feed'[c][k] = x
    BY <1>11 DEF Shown
  <2>2. c = ch
    BY <1>3, <1>11, <2>1 DEF Shown
  <2>3. k \in 1..(n + Len(copies)) /\ k \notin 1..n
    BY <1>2, <1>3, <1>4, <1>6, <1>11, <2>1, <2>2 DEF Shown
  <2>4. k - n \in 1..Len(copies) /\ k = n + (k - n)
    BY <1>1, <1>2, <2>3
  <2>5. QED BY <1>2, <1>3, <1>4, <2>1, <2>2, <2>4
<1>12. QED BY <1>5, <1>7, <1>8, <1>9, <1>10, <1>11 DEF Grown

\* Nothing appears: the channels are as they were.
LEMMA SameFacts == UNCHANGED feed => Grown
BY DEF Grown, Standing, Content, Shown

(***************************************************************************)
(* What a step preserves of the invariant by leaving it alone.             *)
(***************************************************************************)

\* A step that lets the publication be keeps what is known of it.
LEMMA PublicationKept ==
    ASSUME IInv, Grown, UNCHANGED <<pub, published>>
    PROVE  Underway'
<1>1. \A m \in pub.sent : m \in Message /\ Standing(m) /\ Content(m)' = Content(m)
  BY DEF IInv, AllStanding, Grown
<1>2. QED BY <1>1 DEF IInv, Underway, Grown

\* A step that lets the watchdog be, and adds to the publication only messages that
\* were not there, keeps what is known of the watchdog.
LEMMA WatchdogKept ==
    ASSUME IInv, Grown, UNCHANGED wd, \A m \in pub'.sent \ pub.sent : ~ Standing(m)
    PROVE  InHand' /\ Covering'
<1>1. \A m \in wd.sent : m \in Message /\ Standing(m) /\ Content(m)' = Content(m)
  BY DEF IInv, AllStanding, Grown
<1>2. Covering'
  BY <1>1 DEF IInv, Covering
<1>3. InHand'
  BY DEF IInv, InHand, Grown
<1>4. QED BY <1>2, <1>3

\* A step that records nothing keeps what is known of the records.
LEMMA RecordsKept ==
    ASSUME IInv, Grown, UNCHANGED recorded, published \subseteq published'
    PROVE  RecordedPublished' /\ PostRecordedOnce'
<1>1. \A m \in recorded : m \in Message /\ Standing(m) /\ Content(m)' = Content(m)
  BY DEF IInv, AllStanding, Grown
<1>2. QED BY <1>1 DEF IInv, RecordedPublished, PostRecordedOnce

\* What is spoken of after a step stood before, or appeared with it.
LEMMA StandingKept ==
    ASSUME IInv, Grown,
           \A m \in untold' \union recorded' \union pending' \union pub'.sent
                         \union wd'.todo \union wd'.sent :
               \/ m \in untold \union recorded \union pending \union pub.sent
                         \union wd.todo \union wd.sent
               \/ Standing(m)'
    PROVE  AllStanding'
<1>1. \A m \in untold \union recorded \union pending \union pub.sent \union wd.todo \union wd.sent :
        m \in Message /\ Standing(m)
  BY DEF IInv, AllStanding
<1>2. QED BY <1>1 DEF AllStanding, Grown

\* The posts of a session are in the channels' type.
LEMMA Items == Item \subseteq Item \union {Ad} /\ Posts \subseteq Item /\ PoolPosts \subseteq Item
BY DEF Item

\* What Pickable offers is in the pool.
LEMMA PickableInPool == Pickable(TRUE) \subseteq PoolPosts
BY DEF Pickable

LEMMA InitIInv == Init => IInv
<1> SUFFICES ASSUME Init PROVE IInv
  OBVIOUS
<1> USE DEF Init, ChannelsInit, DeliveryInit, WatchdogInit, Resting, Asleep, Loop
<1>1. TypeOK
  OBVIOUS
<1>2. AllStanding /\ InHand /\ Covering /\ RecordedPublished /\ PostRecordedOnce /\ RecordedNotCovered
  BY DEF AllStanding, InHand, Covering, RecordedPublished, PostRecordedOnce, RecordedNotCovered
<1>3. Underway
  BY ChannelsAssumption DEF Underway
<1>4. QED BY <1>1, <1>2, <1>3 DEF IInv

\* Other people and the calendar: a foreign post appears, a cooldown ends.
LEMMA OutsideIInv == IInv /\ Outside => IInv'
<1> SUFFICES ASSUME IInv, Outside PROVE IInv'
  OBVIOUS
<1> USE DEF IInv
<1>1. UNCHANGED <<recorded, held, trouble, published, pub, pending, wd>> /\ cooling' \subseteq cooling
  BY DEF Outside, AdPosted, Cooled
<1>2. /\ Grown
      /\ feed' \in [Channels -> Seq(Item \union {Ad})] /\ untold' \in SUBSET Message
      /\ \A m \in untold' \ untold : Standing(m)'
  <2>1. CASE \E ch \in Channels : AdPosted(ch)
    BY <2>1, AppearFacts DEF AdPosted
  <2>2. CASE \E item \in PoolPosts : Cooled(item)
    BY <2>2, SameFacts DEF Cooled
  <2>3. QED BY <2>1, <2>2 DEF Outside
<1>3. TypeOK'
  BY <1>1, <1>2
<1>4. AllStanding'
  BY <1>1, <1>2, StandingKept
<1>5. Underway' /\ InHand' /\ Covering' /\ RecordedPublished' /\ PostRecordedOnce'
  BY <1>1, <1>2, PublicationKept, WatchdogKept, RecordsKept
<1>6. RecordedNotCovered'
  BY <1>1 DEF RecordedNotCovered
<1>7. QED BY <1>3, <1>4, <1>5, <1>6

\* A publication: of a post not published yet, or of the pool; its messages are new,
\* one recorded per channel.
LEMMA DeliveryIInv == IInv /\ DeliveryStep => IInv'
<1> SUFFICES ASSUME IInv, DeliveryStep PROVE IInv'
  OBVIOUS
<1> USE DEF IInv
<1>0. UNCHANGED <<pending, wd>>
  BY DEF DeliveryStep
<1>1. CASE \E item \in Item : PickPost(item) \/ PickPool(item)
  <2>1. PICK item \in Item : PickPost(item) \/ PickPool(item)
    BY <1>1
  <2>2. /\ UNCHANGED <<channelVars, published>> /\ pub' = [Resting EXCEPT !.pc = "picked", !.item = item]
        /\ item \in Posts => item \notin published
    BY <2>1, PickableInPool, ChannelsAssumption DEF PickPost, PickPool, Picked
  <2>3. Grown
    BY <2>2, SameFacts
  <2>4. pub'.pc = "picked" /\ pub'.item = item /\ pub'.left = {} /\ pub'.sent = {}
    BY <2>2 DEF Resting
  <2>5. TypeOK'
    BY <1>0, <2>2 DEF Resting
  <2>6. Underway'
    BY <2>2, <2>4 DEF Underway
  <2>7. AllStanding'
    BY <1>0, <2>2, <2>3, <2>4, StandingKept
  <2>8. InHand' /\ Covering' /\ RecordedPublished' /\ PostRecordedOnce'
    BY <1>0, <2>2, <2>3, <2>4, WatchdogKept, RecordsKept
  <2>9. RecordedNotCovered'
    BY <1>0, <2>2 DEF RecordedNotCovered
  <2>10. QED BY <2>5, <2>6, <2>7, <2>8, <2>9
<1>2. CASE Begin
  <2>1. Grown
    BY <1>2, SameFacts DEF Begin
  <2>2. /\ UNCHANGED <<feed, untold, recorded, published>>
        /\ pub'.item = pub.item /\ pub'.left = Channels /\ pub'.sent = pub.sent /\ pub'.pc = "sending"
        /\ pub.pc = "picked"
    BY <1>2 DEF Begin
  <2>3. TypeOK'
    BY <1>0, <1>2 DEF Begin
  <2>4. pub.sent = {}
    BY <2>2 DEF Underway
  <2>5. Underway'
    BY <2>2, <2>4 DEF Underway
  <2>6. AllStanding'
    BY <1>0, <2>1, <2>2, StandingKept
  <2>7. InHand' /\ Covering' /\ RecordedPublished' /\ PostRecordedOnce'
    BY <1>0, <2>1, <2>2, WatchdogKept, RecordsKept
  <2>8. RecordedNotCovered'
    BY <1>0, <2>2 DEF RecordedNotCovered
  <2>9. QED BY <2>3, <2>5, <2>6, <2>7, <2>8
<1>3. CASE \E ch \in Channels : Send(ch)
  <2>1. PICK ch \in Channels : Send(ch)
    BY <1>3
  <2>2. PICK item : item = pub.item
    OBVIOUS
  <2>3. PICK m : m = Coming(ch)
    OBVIOUS
  <2>4. /\ UNCHANGED <<recorded, cooling, held, trouble, published>>
        /\ pub.pc = "sending" /\ ch \in pub.left /\ item \in Item /\ Appear(ch, item)
        /\ pub' = [pub EXCEPT !.left = pub.left \ {ch}, !.sent = pub.sent \union {m}]
    BY <2>1, <2>2, <2>3 DEF Send, Underway
  <2>5. /\ pub'.pc = "sending" /\ pub'.item = item
        /\ pub'.left = pub.left \ {ch} /\ pub'.sent = pub.sent \union {m}
    BY <2>2, <2>4
  <2>6. /\ Grown
        /\ feed' \in [Channels -> Seq(Item \union {Ad})] /\ untold' \in SUBSET Message
        /\ m \in Message /\ m[1] = ch /\ ~ Standing(m)
        /\ Standing(m)' /\ Content(m)' = item
        /\ Shown(item, ch)'
        /\ \A k \in untold' \ untold : Standing(k)'
    BY <2>3, <2>4, AppearFacts
  <2>7. TypeOK'
    BY <1>0, <2>4, <2>6
  <2>8. Underway'
    <3>1. \A k \in pub.sent : k \in Message /\ Standing(k) /\ Content(k)' = item /\ k[1] \notin pub.left
      BY <2>2, <2>6 DEF AllStanding, Grown, Underway
    <3>2. \A k \in pub'.sent : Content(k)' = item /\ k[1] \notin pub'.left
      BY <2>5, <2>6, <3>1
    <3>3. \A k, l \in pub'.sent : k[1] = l[1] => k = l
      BY <2>4, <2>5, <2>6, <3>1 DEF Underway
    <3>4. \A c \in Channels \ pub'.left : Shown(item, c)'
      BY <2>2, <2>4, <2>5, <2>6 DEF Underway, Grown
    <3>5. \A c \in Channels \ pub'.left : Shown(pub.item, c)'
      BY <2>5, <3>4 DEF Shown
    <3>6. pub'.left \subseteq Channels /\ (item \in Posts => item \notin published')
      BY <2>2, <2>4, <2>5 DEF Underway
    <3>7. QED BY <2>4, <2>5, <3>2, <3>3, <3>5, <3>6 DEF Underway
  <2>9. AllStanding'
    BY <1>0, <2>4, <2>5, <2>6, StandingKept
  <2>10. InHand' /\ Covering' /\ RecordedPublished' /\ PostRecordedOnce'
    BY <1>0, <2>4, <2>5, <2>6, WatchdogKept, RecordsKept
  <2>11. RecordedNotCovered'
    BY <1>0, <2>4 DEF RecordedNotCovered
  <2>12. QED BY <2>7, <2>8, <2>9, <2>10, <2>11
<1>4. CASE Commit
  <2>1. /\ UNCHANGED <<feed, untold, trouble>> /\ pub.pc = "sending" /\ pub.item \in Item
        /\ recorded' = recorded \union pub.sent
        /\ published' = published \union ({pub.item} \cap Posts)
        /\ pub' = Resting
    BY <1>4 DEF Commit, Recorded, Underway
  <2>2. Grown
    BY <2>1, SameFacts
  <2>3. /\ pub'.pc = "idle" /\ pub'.item = NoItem /\ pub'.left = {} /\ pub'.sent = {}
    BY <2>1 DEF Resting
  <2>4. TypeOK'
    <3>1. cooling' \in SUBSET PoolPosts /\ held' \in SUBSET PoolPosts
      BY <1>4 DEF Commit, Recorded, Used
    <3>2. QED BY <1>0, <2>1, <3>1 DEF Resting
  <2>5. Underway'
    BY <2>3, ChannelsAssumption DEF Underway
  <2>6. AllStanding'
    BY <1>0, <2>1, <2>2, <2>3, StandingKept
  <2>7. InHand' /\ Covering'
    BY <1>0, <2>2, <2>3, WatchdogKept
  <2>8. \A m \in recorded \union pub.sent : m \in Message /\ Content(m)' = Content(m)
    BY <2>1 DEF Content
  <2>9. RecordedPublished'
    BY <2>1, <2>8 DEF RecordedPublished, Underway
  <2>10. PostRecordedOnce'
    <3>1. ASSUME NEW m \in recorded, NEW n \in pub.sent, Content(m) = Content(n), Content(m) \in Posts
          PROVE  FALSE
      BY <3>1 DEF RecordedPublished, Underway
    <3>2. ASSUME NEW m \in pub.sent, NEW n \in pub.sent, m[1] = n[1] PROVE m = n
      BY <3>2 DEF Underway
    <3>3. QED BY <2>1, <2>8, <3>1, <3>2 DEF PostRecordedOnce
  <2>11. RecordedNotCovered'
    BY <1>0, <2>1 DEF RecordedNotCovered, InHand
  <2>12. QED BY <2>4, <2>5, <2>6, <2>7, <2>9, <2>10, <2>11
<1>5. CASE Fail
  <2>1. UNCHANGED <<feed, untold, recorded, cooling, published>> /\ pub' = Resting
    BY <1>5 DEF Fail, RollBack
  <2>2. Grown
    BY <2>1, SameFacts
  <2>3. /\ pub'.pc = "idle" /\ pub'.item = NoItem /\ pub'.left = {} /\ pub'.sent = {}
    BY <2>1 DEF Resting
  <2>4. TypeOK'
    BY <1>0, <1>5, <2>1 DEF Fail, RollBack, Resting
  <2>5. Underway'
    BY <2>3, ChannelsAssumption DEF Underway
  <2>6. AllStanding'
    BY <1>0, <2>1, <2>2, <2>3, StandingKept
  <2>7. InHand' /\ Covering' /\ RecordedPublished' /\ PostRecordedOnce'
    BY <1>0, <2>1, <2>2, <2>3, WatchdogKept, RecordsKept
  <2>8. RecordedNotCovered'
    BY <1>0, <2>1 DEF RecordedNotCovered
  <2>9. QED BY <2>4, <2>5, <2>6, <2>7, <2>8
<1>6. QED BY <1>1, <1>2, <1>3, <1>4, <1>5 DEF DeliveryStep, DeliveryNext, DeliverySession

\* The watchdog: what it takes in hand is nobody's publication in progress, what it
\* covers is not recorded when it looks, and its cover is of the pool.
LEMMA WatchdogIInv == IInv /\ (JobStep \/ DueStep) => IInv'
<1> SUFFICES ASSUME IInv, JobStep \/ DueStep PROVE IInv'
  OBVIOUS
<1> USE DEF IInv
<1>0. UNCHANGED <<published, pub>>
  BY DEF JobStep, DueStep, deliveryVars
<1>1. CASE Wake \/ Sleep \/ IgnoreOwn \/ GiveUp \/ \E m \in wd.todo : Postpone(m)
  <2>1. /\ UNCHANGED <<feed, untold, recorded, cooling>> /\ trouble' \in Nat
        /\ held' \subseteq held /\ pending' \subseteq pending
    <3>1. CASE Wake \/ Sleep \/ \E m \in wd.todo : Postpone(m)
      BY <3>1 DEF Wake, Sleep, Postpone
    <3>2. CASE IgnoreOwn
      BY <3>2 DEF IgnoreOwn
    <3>3. CASE GiveUp
      BY <3>3 DEF GiveUp, RollBack
    <3>4. QED BY <1>1, <3>1, <3>2, <3>3
  <2>2. /\ wd' \in {Asleep} \union {Loop(todo) : todo \in SUBSET (pending \union wd.todo)}
    BY <1>1 DEF Wake, Sleep, IgnoreOwn, GiveUp, RollBack, Postpone
  <2>3. /\ wd'.pc \in {"idle", "loop"} /\ wd'.todo \subseteq pending \union wd.todo
        /\ wd'.sent = {}
        /\ wd' \in [pc : {"idle", "loop", "check", "cover", "sent"}, todo : SUBSET Message,
                   msg : Message \union {NoMessage}, item : Item \union {NoItem}, sent : SUBSET Message]
    BY <2>2 DEF Asleep, Loop
  <2>4. Grown
    BY <2>1, SameFacts
  <2>5. TypeOK'
    BY <1>0, <2>1, <2>3
  <2>6. AllStanding'
    BY <1>0, <2>1, <2>3, <2>4, StandingKept
  <2>7. Underway' /\ RecordedPublished' /\ PostRecordedOnce'
    BY <1>0, <2>1, <2>4, PublicationKept, RecordsKept
  <2>8. InHand' /\ Covering' /\ RecordedNotCovered'
    BY <2>3 DEF InHand, Covering, RecordedNotCovered
  <2>9. QED BY <2>5, <2>6, <2>7, <2>8
<1>2. CASE \E m \in wd.todo : Take(m, pub.sent)
  <2>1. PICK m \in wd.todo : Take(m, pub.sent)
    BY <1>2
  <2>2. /\ UNCHANGED <<channelVars, pending>>
        /\ wd'.pc = "check" /\ wd'.msg = m /\ wd'.todo = wd.todo \ {m} /\ wd'.sent = {}
        /\ wd'.item = NoItem /\ m \notin pub.sent
    BY <2>1 DEF Take, Loop
  <2>3. Grown
    BY <2>2, SameFacts
  <2>4. TypeOK'
    <3>1. wd' = [[Loop(wd.todo \ {m}) EXCEPT !.pc = "check"] EXCEPT !.msg = m]
      BY <2>1 DEF Take, Loop
    <3>2. QED BY <1>0, <2>2, <3>1 DEF Loop
  <2>5. AllStanding'
    BY <1>0, <2>2, <2>3, StandingKept
  <2>6. Underway' /\ RecordedPublished' /\ PostRecordedOnce'
    BY <1>0, <2>2, <2>3, PublicationKept, RecordsKept
  <2>7. InHand' /\ Covering' /\ RecordedNotCovered'
    BY <1>0, <2>2, <2>3 DEF InHand, Covering, RecordedNotCovered, AllStanding, Grown
  <2>8. QED BY <2>4, <2>5, <2>6, <2>7
<1>3. CASE \E item \in PoolPosts : Choose(item)
  <2>1. PICK item \in PoolPosts : Choose(item)
    BY <1>3
  <2>2. /\ UNCHANGED <<channelVars, pending>> /\ wd.pc = "check" /\ wd.msg \notin recorded
        /\ wd' = [[wd EXCEPT !.pc = "cover"] EXCEPT !.item = item]
    BY <2>1 DEF Choose
  <2>3. Grown
    BY <2>2, SameFacts
  <2>4. /\ wd'.pc = "cover" /\ wd'.item = item /\ wd'.msg = wd.msg /\ wd'.todo = wd.todo
        /\ wd'.sent = wd.sent
    BY <2>2
  <2>5. TypeOK'
    BY <1>0, <2>2, Items
  <2>6. AllStanding'
    BY <1>0, <2>2, <2>3, <2>4, StandingKept
  <2>7. Underway' /\ RecordedPublished' /\ PostRecordedOnce'
    BY <1>0, <2>2, <2>3, PublicationKept, RecordsKept
  <2>8. wd.sent = {}
    BY <2>2 DEF Covering
  <2>9. InHand' /\ Covering' /\ RecordedNotCovered'
    BY <1>0, <2>2, <2>3, <2>4, <2>8 DEF InHand, Covering, RecordedNotCovered, Grown
  <2>10. QED BY <2>5, <2>6, <2>7, <2>9
<1>4. CASE Cover
  <2>1. PICK ch, item : ch = wd.msg[1] /\ item = wd.item
    OBVIOUS
  <2>2. PICK m : m = Coming(ch)
    OBVIOUS
  <2>3. ch \in Channels /\ item \in PoolPosts /\ item \in Item \union {Ad}
    BY <1>4, <2>1, Items DEF Cover, InHand, Covering, Message
  <2>4. /\ UNCHANGED <<recorded, cooling, trouble, pending>> /\ wd.pc = "cover"
        /\ held' = held \union {item} /\ Appear(ch, item)
        /\ wd' = [[wd EXCEPT !.pc = "sent"] EXCEPT !.sent = {m}]
    BY <1>4, <2>1, <2>2 DEF Cover
  <2>5. /\ wd'.pc = "sent" /\ wd'.item = item /\ wd'.msg = wd.msg /\ wd'.todo = wd.todo
        /\ wd'.sent = {m}
    BY <2>1, <2>4
  <2>6. /\ Grown
        /\ feed' \in [Channels -> Seq(Item \union {Ad})] /\ untold' \in SUBSET Message
        /\ m \in Message /\ Standing(m)' /\ Content(m)' = item
        /\ \A k \in untold' \ untold : Standing(k)'
    BY <2>2, <2>3, <2>4, AppearFacts
  <2>7. TypeOK'
    BY <1>0, <2>3, <2>4, <2>6
  <2>8. AllStanding'
    BY <1>0, <2>4, <2>5, <2>6, StandingKept
  <2>9. Underway' /\ RecordedPublished' /\ PostRecordedOnce'
    BY <1>0, <2>4, <2>6, PublicationKept, RecordsKept
  <2>10. InHand' /\ Covering' /\ RecordedNotCovered'
    BY <1>0, <2>3, <2>4, <2>5, <2>6 DEF InHand, Covering, RecordedNotCovered, Grown
  <2>11. QED BY <2>7, <2>8, <2>9, <2>10
<1>5. CASE Buried
  <2>1. /\ UNCHANGED <<feed, untold, trouble>> /\ wd.pc = "sent" /\ wd.item \in PoolPosts
        /\ recorded' = recorded \union wd.sent /\ pending' \subseteq pending
        /\ held' \subseteq held /\ cooling' \in SUBSET PoolPosts /\ wd' = Loop(wd.todo)
    BY <1>5 DEF Buried, Covering, Used
  <2>2. Grown
    BY <2>1, SameFacts
  <2>3. /\ wd'.pc = "loop" /\ wd'.todo = wd.todo /\ wd'.sent = {}
    BY <2>1 DEF Loop
  <2>4. TypeOK'
    BY <1>0, <2>1 DEF Loop
  <2>5. AllStanding'
    BY <1>0, <2>1, <2>2, <2>3, StandingKept
  <2>6. Underway' /\ InHand' /\ Covering' /\ RecordedNotCovered'
    BY <1>0, <2>2, <2>3, PublicationKept DEF InHand, Covering, RecordedNotCovered
  <2>7. \A m \in wd.sent : Content(m) \notin Posts
    BY <2>1, ChannelsAssumption DEF Covering
  <2>8. \A m \in recorded \union wd.sent : Content(m)' = Content(m)
    BY <2>1 DEF Content
  <2>9. RecordedPublished' /\ PostRecordedOnce'
    BY <1>0, <2>1, <2>7, <2>8 DEF RecordedPublished, PostRecordedOnce
  <2>10. QED BY <2>4, <2>5, <2>6, <2>9
<1>6. QED BY <1>1, <1>2, <1>3, <1>4, <1>5 DEF JobStep, WatchdogJob, DueStep

\* The bots' handler touches nothing but the detections.
LEMMA BotIInv == IInv /\ BotStep => IInv'
<1> SUFFICES ASSUME IInv, BotStep PROVE IInv'
  OBVIOUS
<1> USE DEF IInv
<1>1. /\ UNCHANGED <<feed, recorded, cooling, held, trouble, published, pub, wd>>
      /\ untold' \subseteq untold /\ pending' \subseteq pending \union untold
  BY DEF BotStep, BotNext, Notice, Overlook
<1>2. Grown
  BY <1>1, SameFacts
<1>3. TypeOK'
  BY <1>1
<1>4. AllStanding'
  BY <1>1, <1>2, StandingKept
<1>5. Underway' /\ InHand' /\ Covering' /\ RecordedPublished' /\ PostRecordedOnce'
  BY <1>1, <1>2, PublicationKept, WatchdogKept, RecordsKept
<1>6. RecordedNotCovered'
  BY <1>1 DEF RecordedNotCovered
<1>7. QED BY <1>3, <1>4, <1>5, <1>6

\* A restart of the scheduler forgets both sessions, and nothing they have sent.
LEMMA CrashIInv == IInv /\ Crash => IInv'
<1> SUFFICES ASSUME IInv, Crash PROVE IInv'
  OBVIOUS
<1> USE DEF IInv
<1>1. /\ UNCHANGED <<feed, untold, recorded, cooling, published, pending>>
      /\ held' \subseteq held /\ trouble' \in Nat /\ pub' = Resting /\ wd' = Asleep
  BY DEF Crash, RollBack
<1>2. /\ pub'.pc = "idle" /\ pub'.item = NoItem /\ pub'.left = {} /\ pub'.sent = {}
      /\ wd'.pc = "idle" /\ wd'.todo = {} /\ wd'.sent = {}
  BY <1>1 DEF Resting, Asleep, Loop
<1>3. Grown
  BY <1>1, SameFacts
<1>4. TypeOK'
  BY <1>1 DEF Resting, Asleep, Loop
<1>5. AllStanding'
  BY <1>1, <1>2, <1>3, StandingKept
<1>6. Underway' /\ InHand' /\ Covering' /\ RecordedNotCovered'
  BY <1>2, ChannelsAssumption DEF Underway, InHand, Covering, RecordedNotCovered
<1>7. RecordedPublished' /\ PostRecordedOnce'
  BY <1>1, <1>3, RecordsKept
<1>8. QED BY <1>4, <1>5, <1>6, <1>7

(***************************************************************************)
(* The theorems.                                                           *)
(***************************************************************************)

\* IInv is an invariant of publication and watchdog together.
THEOREM AiringInvariance == Spec => []IInv
<1>1. IInv /\ UNCHANGED vars => IInv'
  <2> SUFFICES ASSUME IInv, UNCHANGED vars PROVE IInv'
    OBVIOUS
  <2> USE DEF IInv, vars
  <2>1. Grown
    BY SameFacts
  <2>2. AllStanding'
    BY <2>1, StandingKept
  <2>3. TypeOK' /\ RecordedNotCovered'
    BY DEF RecordedNotCovered
  <2>4. QED BY <2>1, <2>2, <2>3, PublicationKept, WatchdogKept, RecordsKept
<1>2. IInv /\ [Next]_vars => IInv'
  BY <1>1, OutsideIInv, DeliveryIInv, WatchdogIInv, BotIInv, CrashIInv DEF Next
<1>3. QED BY <1>2, InitIInv, PTL DEF Spec

\* Every variable keeps its type: no post but a candidate is counted as published,
\* none but a pool post is locked or on cooldown.
THEOREM AiringTypeCorrect == Spec => []TypeOK
<1>1. IInv => TypeOK
  BY DEF IInv
<1>2. QED BY <1>1, AiringInvariance, PTL

\* However often a publication is rolled back and repeated, a channel has one recorded
\* message of a candidate at most.
THEOREM RecordedOnce == Spec => []PostRecordedOnce
<1>1. IInv => PostRecordedOnce
  BY DEF IInv
<1>2. QED BY <1>1, AiringInvariance, PTL

\* The watchdog never covers a message recorded as a publication, although it looks
\* only once, before it waits for the pool post and for Telegram.
THEOREM CoversNoRecorded == Spec => []RecordedNotCovered
<1>1. IInv => RecordedNotCovered
  BY DEF IInv
<1>2. QED BY <1>1, AiringInvariance, PTL

(***************************************************************************)
(* The refinement: publication and watchdog keep PublicationPromise.       *)
(***************************************************************************)
Reached == [p \in Posts |-> {ch \in Channels : Shown(p, ch)}]

\* A post appears, and nothing is counted: a step of the promise, or none.
LEMMA AppearKeepsPromise ==
    ASSUME TypeOK, NEW ch \in Channels, NEW item \in Item \union {Ad}, Appear(ch, item),
           UNCHANGED published
    PROVE  [Promise!PromiseNext]_(Promise!promiseVars)
<1>1. \A x, c : c \in Channels => (Shown(x, c)' <=> Shown(x, c) \/ (x = item /\ c = ch))
  <2>1. /\ Grown /\ Shown(item, ch)'
        /\ \A x, c : c \in Channels /\ Shown(x, c)' => Shown(x, c) \/ (x = item /\ c = ch)
    BY AppearFacts
  <2>2. QED BY <2>1 DEF Grown
<1>2. CASE item \in Posts
  <2>1. ASSUME NEW p \in Posts
        PROVE  Reached'[p] = IF p = item THEN Reached[p] \union {ch} ELSE Reached[p]
    BY <1>1 DEF Reached
  <2>2. Reached' = [Reached EXCEPT ![item] = @ \union {ch}]
    BY <1>2, <2>1 DEF Reached
  <2>3. QED BY <1>2, <2>2 DEF Reached, Promise!PromiseNext, Promise!Reach, Promise!promiseVars
<1>3. CASE item \notin Posts
  <2>1. Reached' = Reached
    BY <1>1, <1>3 DEF Reached
  <2>2. QED BY <2>1 DEF Reached, Promise!promiseVars
<1>4. QED BY <1>2, <1>3

\* Nothing appears and nothing is counted: the promise sees no step.
LEMMA QuietKeepsPromise == UNCHANGED <<feed, published>> => UNCHANGED Promise!promiseVars
BY DEF Promise!promiseVars, Shown

\* A commit counts a post that every channel shows.
LEMMA CommitKeepsPromise == IInv /\ Commit => [Promise!PromiseNext]_(Promise!promiseVars)
<1> SUFFICES ASSUME IInv, Commit PROVE [Promise!PromiseNext]_(Promise!promiseVars)
  OBVIOUS
<1>1. PICK item : item = pub.item
  OBVIOUS
<1>2. UNCHANGED feed /\ published' = published \union ({item} \cap Posts)
  BY <1>1 DEF Commit, Recorded
<1>3. Reached' = Reached
  BY <1>2 DEF Reached, Shown
<1>4. CASE item \in Posts
  <2>1. Reached[item] = Channels
    BY <1>1, <1>4 DEF IInv, Underway, Commit, Reached
  <2>2. QED BY <1>2, <1>3, <1>4, <2>1 DEF Reached, Promise!PromiseNext, Promise!Count
<1>5. CASE item \notin Posts
  BY <1>2, <1>5, QuietKeepsPromise
<1>6. QED BY <1>4, <1>5

\* A candidate counted as published has reached every channel, whatever sends,
\* failures, restarts, covers and other people's posts come in between.
THEOREM PromiseKept == Spec => KeepsPromise
<1>1. Init => Promise!PromiseInit
  BY DEF Init, ChannelsInit, DeliveryInit, Promise!PromiseInit, Shown
<1>2. IInv /\ [Next]_vars => [Promise!PromiseNext]_(Promise!promiseVars)
  <2> SUFFICES ASSUME IInv, [Next]_vars PROVE [Promise!PromiseNext]_(Promise!promiseVars)
    OBVIOUS
  <2> USE DEF IInv
  <2>1. CASE Outside
    BY <2>1, AppearKeepsPromise, QuietKeepsPromise DEF Outside, AdPosted, Cooled
  <2>2. CASE DeliveryStep
    <3>1. CASE \E ch \in Channels : Send(ch)
      <4>1. PICK ch \in Channels : Send(ch)
        BY <3>1
      <4>2. PICK item : item = pub.item
        OBVIOUS
      <4>3. item \in Item \union {Ad} /\ Appear(ch, item) /\ UNCHANGED published
        BY <4>1, <4>2 DEF Send, Underway
      <4>4. QED BY <4>3, AppearKeepsPromise
    <3>2. CASE Begin \/ Fail \/ \E item \in Item : PickPost(item) \/ PickPool(item)
      BY <3>2, QuietKeepsPromise DEF Begin, Fail, RollBack, PickPost, PickPool
    <3>3. QED BY <2>2, <3>1, <3>2, CommitKeepsPromise DEF DeliveryStep, DeliveryNext, DeliverySession
  <2>3. CASE JobStep \/ DueStep
    <3>1. CASE Cover
      <4>1. PICK ch, item : ch = wd.msg[1] /\ item = wd.item
        OBVIOUS
      <4>2. ch \in Channels /\ item \in Item \union {Ad} /\ Appear(ch, item) /\ UNCHANGED published
        BY <2>3, <3>1, <4>1, Items DEF Cover, InHand, Covering, Message, JobStep, DueStep
      <4>3. QED BY <4>2, AppearKeepsPromise
    <3>2. CASE ~ Cover
      BY <2>3, <3>2, QuietKeepsPromise DEF JobStep, DueStep, WatchdogJob, Wake, Postpone, Take,
         Sleep, IgnoreOwn, Choose, Buried, GiveUp, RollBack
    <3>3. QED BY <3>1, <3>2
  <2>4. CASE BotStep
    BY <2>4, QuietKeepsPromise DEF BotStep, BotNext, Notice, Overlook
  <2>5. CASE Crash
    BY <2>5, QuietKeepsPromise DEF Crash, RollBack
  <2>6. CASE UNCHANGED vars
    BY <2>6, QuietKeepsPromise DEF vars
  <2>7. QED BY <2>1, <2>2, <2>3, <2>4, <2>5, <2>6 DEF Next
<1>3. QED BY <1>1, <1>2, AiringInvariance, PTL DEF Spec, KeepsPromise, Promise!PromiseSpec
=============================================================================
