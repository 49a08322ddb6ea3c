----------------------------- MODULE AdWatchdog -----------------------------
(***************************************************************************)
(* The watchdog of foreign posts: the bots' channel_post handler           *)
(* (interfaces/bots/handlers/ad_watchdog.py) records a detection for every *)
(* message that is no publication of ours, and ad_watchdog_job             *)
(* (scheduler.py, core/services/ad_watchdog.py) covers it with a pool post *)
(* when the delay is over.                                                 *)
(***************************************************************************)
EXTENDS TargetChannels

VARIABLES
    pending,        \* messages with a detection still PENDING
    wd              \* the job: the detections of its tick not looked at yet, the
                    \* one in hand, the post to cover it with, the messages sent

watchdogVars == <<pending, wd>>

NoMessage == <<>>

WatchdogTypeOK ==
    /\ pending \in SUBSET Message
    /\ wd \in [pc   : {"idle", "loop", "check", "cover", "sent"},
               todo : SUBSET Message,
               msg  : Message \union {NoMessage},
               item : Item \union {NoItem},
               sent : SUBSET Message]

Loop(todo) == [pc |-> "loop", todo |-> todo, msg |-> NoMessage, item |-> NoItem, sent |-> {}]
Asleep == [Loop({}) EXCEPT !.pc = "idle"]

WatchdogInit == pending = {} /\ wd = Asleep

\* The bot is told of a message; the updates are handled concurrently, in any order.
Notice(m) ==
    /\ m \in untold
    /\ untold' = untold \ {m}
    /\ pending' = IF m \in recorded THEN pending ELSE pending \union {m}
    /\ UNCHANGED <<feed, recorded, cooling, held, trouble, wd>>

\* The handler fails: the update is not delivered again.
Overlook(m) ==
    /\ m \in untold
    /\ untold' = untold \ {m}
    /\ UNCHANGED <<feed, recorded, cooling, held, trouble, watchdogVars>>

Wake ==
    /\ wd.pc = "idle" /\ pending # {}
    /\ wd' = Loop(pending)
    /\ UNCHANGED <<channelVars, pending>>

Sleep ==
    /\ wd.pc = "loop" /\ wd.todo = {}
    /\ wd' = Asleep
    /\ UNCHANGED <<channelVars, pending>>

\* Not due yet: left for a later tick.
Postpone(m) ==
    /\ wd.pc = "loop" /\ m \in wd.todo
    /\ wd' = Loop(wd.todo \ {m})
    /\ UNCHANGED <<channelVars, pending>>

\* The detection is due: its row is locked. `open` are the messages sent by a
\* publication still in progress: the delay (five minutes at least, an hour by
\* default) is taken to be longer than the sends of one publication.
Take(m, open) ==
    /\ wd.pc = "loop" /\ m \in wd.todo /\ m \notin open
    /\ wd' = [Loop(wd.todo \ {m}) EXCEPT !.pc = "check", !.msg = m]
    /\ UNCHANGED <<channelVars, pending>>

\* Mutant of IgnoreOwn: the tick does not commit what it has not covered.
IgnoreUncommitted ==
    /\ wd.pc = "check" /\ wd.msg \in recorded
    /\ wd' = Loop(wd.todo)
    /\ UNCHANGED <<channelVars, pending>>

\* The message is a publication of ours after all, committed since it was noticed.
IgnoreOwn ==
    /\ wd.pc = "check" /\ wd.msg \in recorded
    /\ pending' = pending \ {wd.msg}
    /\ wd' = Loop(wd.todo)
    /\ UNCHANGED channelVars

\* Mutant of Choose: nobody looks again whether the message is ours.
ChooseUnchecked(item) ==
    /\ wd.pc = "check" /\ item \in Pickable(TRUE)
    /\ wd' = [wd EXCEPT !.pc = "cover", !.item = item]
    /\ UNCHANGED <<channelVars, pending>>

\* Otherwise a pool post is chosen to cover it.
Choose(item) ==
    /\ wd.pc = "check" /\ wd.msg \notin recorded /\ item \in Pickable(TRUE)
    /\ wd' = [wd EXCEPT !.pc = "cover", !.item = item]
    /\ UNCHANGED <<channelVars, pending>>

\* Its row is locked and the post sent to the channel of the detection.
Cover ==
    /\ wd.pc = "cover" /\ wd.item \notin held
    /\ held' = held \union {wd.item}
    /\ Appear(wd.msg[1], wd.item)
    /\ wd' = [wd EXCEPT !.pc = "sent", !.sent = {Coming(wd.msg[1])}]
    /\ UNCHANGED <<recorded, cooling, trouble, pending>>

Buried ==
    /\ wd.pc = "sent"
    /\ recorded' = recorded \union wd.sent
    /\ cooling' = Used(wd.item)
    /\ held' = held \ {wd.item}
    /\ pending' = pending \ {wd.msg}
    /\ wd' = Loop(wd.todo)
    /\ UNCHANGED <<feed, untold, trouble>>

\* The send failed, or its answer was lost: rolled back, and tried again next tick.
GiveUp ==
    /\ wd.pc \in {"check", "cover", "sent"}
    /\ RollBack(IF wd.pc = "sent" THEN {wd.item} ELSE {})
    /\ wd' = Loop(wd.todo)
    /\ UNCHANGED pending

WatchdogJob ==
    \/ Wake
    \/ \E m \in wd.todo : Postpone(m)
    \/ Sleep
    \/ IgnoreOwn
    \/ \E item \in PoolPosts : Choose(item)
    \/ Cover
    \/ Buried
    \/ GiveUp

BotNext == \E m \in untold : Notice(m) \/ Overlook(m)
=============================================================================
