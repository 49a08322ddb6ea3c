------------------------------ MODULE BotRunner ------------------------------
(***************************************************************************)
(* The process that runs every bot (interfaces/bots/main.py): every half   *)
(* minute it compares the active rows of channel_bots with the tasks it    *)
(* has, while the panel changes the rows; each task polls Telegram and is  *)
(* started again, after a pause, when polling fails. All of them want the  *)
(* one router of the handlers' module for their dispatcher.                *)
(***************************************************************************)
EXTENDS Naturals, FiniteSets

CONSTANTS
    RunBots,            \* rows of channel_bots
    Tokens, BotThemes,  \* their values
    MaxChanges          \* bound: changes of the rows, failures

ASSUME RunnerAssumption == MaxChanges \in Nat /\ {} \notin {Tokens, BotThemes}

VARIABLES
    listed,             \* of each row: its token and theme; <<>> where it is switched off or
                        \* deleted
    loaded,             \* what the loop has read, and not yet acted on; <<>>: nothing
    task,               \* tasks: what each was started with; <<>> where there is none
    signature,          \* signatures
    polls,              \* the tasks that are polling now, not waiting to start again
    attached,           \* whether the module's router has a dispatcher (_parent_router)
    changes             \* changes and failures still to come

runnerVars == <<listed, loaded, task, signature, polls, attached, changes>>

Config == [token : Tokens, theme : BotThemes]
Nothing == <<>>

RunnerTypeOK ==
    /\ listed \in [RunBots -> Config \union {Nothing}]
    /\ loaded \in [RunBots -> Config \union {Nothing}] \union {Nothing}
    /\ task \in [RunBots -> Config \union {Nothing}]
    /\ DOMAIN signature = {b \in RunBots : task[b] # Nothing}
    /\ polls \subseteq DOMAIN signature /\ attached \in BOOLEAN
    /\ changes \in 0 .. MaxChanges

\* The bots there are when the process begins.
FirstRows == {Nothing, [token |-> CHOOSE t \in Tokens : TRUE, theme |-> CHOOSE t \in BotThemes : TRUE]}

RunnerInit ==
    /\ listed \in [RunBots -> FirstRows]
    /\ loaded = Nothing /\ task = [b \in RunBots |-> Nothing] /\ signature = <<>>
    /\ polls = {} /\ attached = FALSE
    /\ changes = MaxChanges

Happens == changes > 0 /\ changes' = changes - 1

\* routers/channel_bots.py: created, changed, switched on or off, deleted.
ChangeRow(b, now) ==
    /\ Happens /\ now # listed[b]
    /\ listed' = [listed EXCEPT ![b] = now]
    /\ UNCHANGED <<loaded, task, signature, polls, attached>>

\* _load_bot_configs. Where it fails the loop waits for its next round, which is a step
\* that does nothing.
Load ==
    /\ loaded = Nothing
    /\ loaded' = listed
    /\ UNCHANGED <<listed, task, signature, polls, attached, changes>>

\* Mutant of Signature: a bot moved to another theme is the same bot.
SignatureOfToken(config) == <<config.token>>

\* What a running bot depends on: the dispatcher is made with the theme.
Signature(config) == <<config.token, config.theme>>

\* The rest of the round: a task without a row is cancelled, a task with another
\* signature too, and another one made for it.
Apply ==
    /\ loaded # Nothing
    /\ LET wanted == {b \in RunBots : loaded[b] # Nothing}
           same == {b \in wanted \cap DOMAIN signature : signature[b] = Signature(loaded[b])}
       IN  /\ task' = [b \in RunBots |-> IF b \in same THEN task[b] ELSE loaded[b]]
           /\ signature' = [b \in wanted |-> Signature(loaded[b])]
           /\ polls' = polls \cap same
    /\ loaded' = Nothing
    /\ UNCHANGED <<listed, attached, changes>>

\* run_bot, when the task begins and again after each pause: a new dispatcher, which takes
\* the router. aiogram lets a router have one dispatcher for good: with it taken
\* include_router raises, before any polling, and the task waits for its next try.
StartPolling(b) ==
    /\ task[b] # Nothing /\ b \notin polls
    /\ ~attached /\ attached' = TRUE
    /\ polls' = polls \union {b}
    /\ UNCHANGED <<listed, loaded, task, signature, changes>>

\* supervise_bot: polling ends or fails.
PollingFails(b) ==
    /\ Happens /\ b \in polls
    /\ polls' = polls \ {b}
    /\ UNCHANGED <<listed, loaded, task, signature, attached>>

\* The process ends; a new one knows nothing, and its router is free.
RunnerRestarts ==
    /\ Happens
    /\ loaded' = Nothing /\ task' = [b \in RunBots |-> Nothing] /\ signature' = <<>> /\ polls' = {}
    /\ attached' = FALSE
    /\ UNCHANGED listed

RunnerNext ==
    \/ Load \/ Apply \/ RunnerRestarts
    \/ \E b \in RunBots : PollingFails(b) \/ StartPolling(b) \/ \E now \in Config \union {Nothing} : ChangeRow(b, now)

-----------------------------------------------------------------------------
Active == {b \in RunBots : listed[b] # Nothing}

\* Once the panel leaves the bots alone, there is a task for every active bot and for no
\* other, started with the token and for the theme of its row, although a round acts on
\* rows read before the last change: what polls, polls for its row (reconcile_loop).
TasksSettle == <>[](task = listed /\ polls \subseteq Active)

\* ... and every active bot polls (main.py:5-9: the loop starts new bots, stops those
\* switched off and starts those changed again without a restart of the process).
RunnerConverges == <>[](task = listed /\ polls = Active)
=============================================================================
