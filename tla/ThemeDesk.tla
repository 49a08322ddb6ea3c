------------------------------ MODULE ThemeDesk ------------------------------
(***************************************************************************)
(* What the operator sets up for a theme -- the theme itself (routers/     *)
(* themes.py), its bots (routers/channel_bots.py) and its channels         *)
(* (routers/target_channels.py) -- and what the panel says of a theme that *)
(* is silent (theme_health, routers/alerts.py), beside what the publishing *)
(* tick does with the same rows.                                           *)
(***************************************************************************)
EXTENDS Naturals, Sequences, FiniteSets, SequencesExt

CONSTANTS
    Themes, Bots, Chats, Sources,   \* the rows there may be
    NoTheme,                        \* theme_id is NULL
    Fold,                           \* of a rubric's name: the name in lower case
    MaxRubrics,                     \* MAX_RUBRICS
    ThemeChanges,                   \* the bodies of PUT /themes: some fields and their values
    BotChanges,                     \* the bodies of PUT /channel-bots
    Backgrounds,                    \* what a theme's sources, posts and pool may be like
    MaxRequests                     \* bound: how much the operator does

\* By a usual cadence and by one whose interval is of days; more than three days, or than
\* that interval, as "weeks".
Ages == <<"fresh", "due", "days", "weeks", "never">>
\* The cadence, as far as days are concerned: some minutes, days, or quiet hours all day.
Paces == {"usual", "slow", "never"}
Roles == {"theme", "admin"}
Statuses == {"new", "selected", "pending", "rewritten"}

\* The rows, and what a theme's sources, posts and pool are like.
ThemeRow == [on : BOOLEAN, manual : BOOLEAN, order : Nat, hour : 0 .. 23, rubrics : Seq(DOMAIN Fold)]
BotRow == [role : Roles, of : Themes \union {NoTheme}, on : BOOLEAN, auto : BOOLEAN, pace : Paces]
TargetRow == [of : Themes, on : BOOLEAN]
LifeRow == [source : [Sources -> [on : BOOLEAN, reader : BOOLEAN, brought : BOOLEAN,
                               read : {"never", "today", "long ago"}]],
         posts : SUBSET Statuses, pool : {"none", "cooling", "ready"}]

\* Some of these fields, with values of their types.
Body(change, fields) ==
    DOMAIN change \subseteq DOMAIN fields /\ \A f \in DOMAIN change : change[f] \in fields[f]

ASSUME DeskAssumption ==
    /\ NoTheme \notin Themes
    /\ MaxRubrics \in Nat /\ MaxRequests \in Nat
    /\ Backgrounds \subseteq LifeRow
    /\ \A change \in ThemeChanges :
          Body(change, [on |-> BOOLEAN, manual |-> BOOLEAN, hour |-> Nat, rubrics |-> Seq(DOMAIN Fold)])
    /\ \A change \in BotChanges :
          Body(change, [of |-> Themes \union {NoTheme}, on |-> BOOLEAN, auto |-> BOOLEAN, pace |-> Paces])

VARIABLES
    theme, bot, target,     \* the rows; <<>> where there is none
    life,                   \* the sources, posts and pool of each theme
    age,                    \* how long ago a channel's last publication was
    requests                \* how much the operator may still do

deskVars == <<theme, bot, target, life, age, requests>>

None == <<>>
Existing == {t \in Themes : theme[t] # None}
BotsOf(t) == {b \in Bots : bot[b] # None /\ bot[b].role = "theme" /\ bot[b].of = t}
Working(t) == {b \in BotsOf(t) : bot[b].on}
TargetsOf(t) == {c \in Chats : target[c] # None /\ target[c].of = t}
Receiving(t) == {c \in TargetsOf(t) : target[c].on}

NewTheme == [on |-> TRUE, manual |-> TRUE, order |-> 0, hour |-> 9, rubrics |-> <<>>]
NewBot(role, t) == [role |-> role, of |-> t, on |-> TRUE, auto |-> FALSE, pace |-> "usual"]

DeskTypeOK ==
    /\ theme \in [Themes -> ThemeRow \union {None}]
    /\ \A t \in Existing :
          /\ Len(theme[t].rubrics) <= MaxRubrics
          /\ \A i, j \in DOMAIN theme[t].rubrics :
                Fold[theme[t].rubrics[i]] = Fold[theme[t].rubrics[j]] => i = j
    /\ bot \in [Bots -> BotRow \union {None}]
    /\ \A b \in Bots : bot[b] # None =>
          bot[b].of \in Existing \union {NoTheme} /\ (bot[b].role = "theme" <=> bot[b].of # NoTheme)
    /\ target \in [Chats -> TargetRow \union {None}]
    /\ \A c \in Chats : target[c] # None => target[c].of \in Existing
    /\ life \in [Themes -> LifeRow] /\ age \in [Chats -> Range(Ages)]
    /\ requests \in 0 .. MaxRequests

DeskInit ==
    /\ theme = [t \in Themes |-> None] /\ bot = [b \in Bots |-> None]
    /\ target = [c \in Chats |-> None] /\ age = [c \in Chats |-> "never"]
    /\ life \in [Themes -> Backgrounds]
    /\ requests = MaxRequests

Ask == requests > 0 /\ requests' = requests - 1

-----------------------------------------------------------------------------
\* create_theme.
CreateTheme(t) ==
    /\ Ask /\ theme[t] = None
    /\ theme' = [theme EXCEPT ![t] = NewTheme]
    /\ UNCHANGED <<bot, target, life, age>>

\* Mutant of CleanRubrics: names that differ in case are two rubrics.
CleanRubricsByName(names) ==
    LET cleaned[i \in 0 .. Len(names)] ==
            IF i = 0 THEN <<>>
            ELSE IF names[i] \in Range(cleaned[i - 1]) THEN cleaned[i - 1]
            ELSE Append(cleaned[i - 1], names[i])
    IN  cleaned[Len(names)]

\* _clean_rubrics: the first of the names that differ in case only.
CleanRubrics(names) ==
    LET cleaned[i \in 0 .. Len(names)] ==
            IF i = 0 THEN <<>>
            ELSE IF \E k \in Range(cleaned[i - 1]) : Fold[k] = Fold[names[i]] THEN cleaned[i - 1]
            ELSE Append(cleaned[i - 1], names[i])
    IN  cleaned[Len(names)]

\* The fields that are given, the others as they are.
Given(change, old) == [f \in DOMAIN old |-> IF f \in DOMAIN change THEN change[f] ELSE old[f]]

\* update_theme: the fields that are given, all of them or none; a theme put into the
\* manual mode owes nothing of what was ordered.
UpdateTheme(t, change) ==
    LET updated == Given(change, theme[t])
        cleaned == IF "rubrics" \in DOMAIN change THEN CleanRubrics(updated.rubrics) ELSE updated.rubrics
        owed == IF "manual" \in DOMAIN change /\ change.manual THEN 0 ELSE updated.order
    IN  /\ Ask /\ t \in Existing
        /\ "hour" \in DOMAIN change => change.hour \in 0 .. 23
        /\ Len(cleaned) <= MaxRubrics
        /\ theme' = [theme EXCEPT ![t] = [updated EXCEPT !.rubrics = cleaned, !.order = owed]]
        /\ UNCHANGED <<bot, target, life, age>>

\* start_batch (core/services/daily_batch.py): posts ordered for today.
OrderToday(t) ==
    /\ Ask /\ t \in Existing
    /\ theme' = [theme EXCEPT ![t].order = 1]
    /\ UNCHANGED <<bot, target, life, age>>

-----------------------------------------------------------------------------
\* The two partial unique indexes: one active bot of a theme, one active admin bot.
Unique(rows) ==
    \A b, d \in Bots :
        (rows[b] # None /\ rows[d] # None /\ rows[b].on /\ rows[d].on
           /\ rows[b].role = rows[d].role /\ rows[b].of = rows[d].of) => b = d

\* create_channel_bot, refused by the validator or by the indexes.
CreateBot(b, role, t) ==
    /\ Ask /\ bot[b] = None
    /\ role = "theme" <=> t # NoTheme
    /\ t \in Existing \union {NoTheme}
    /\ bot' = [bot EXCEPT ![b] = NewBot(role, t)]
    /\ Unique(bot')
    /\ UNCHANGED <<theme, target, life, age>>

\* update_channel_bot: the fields that are given, all of them or none.
UpdateBot(b, change) ==
    /\ Ask /\ bot[b] # None
    /\ "of" \in DOMAIN change =>
          /\ bot[b].role = "theme" <=> change.of # NoTheme
          /\ change.of \in Existing \union {NoTheme}
    /\ bot' = [bot EXCEPT ![b] = Given(change, @)]
    /\ Unique(bot')
    /\ UNCHANGED <<theme, target, life, age>>

\* delete_channel_bot.
DeleteBot(b) ==
    /\ Ask /\ bot[b] # None
    /\ bot' = [bot EXCEPT ![b] = None]
    /\ UNCHANGED <<theme, target, life, age>>

\* create_target_channel, add_target_channel: the theme's only bot, working or not, is
\* an administrator of the chat; a chat known already comes to this theme, switched on.
\* With two bots, a replaced one among them, _bot_for_theme raises.
AddTarget(c, t) ==
    /\ Ask /\ Cardinality(BotsOf(t)) = 1
    /\ target' = [target EXCEPT ![c] = [of |-> t, on |-> TRUE]]
    /\ UNCHANGED <<theme, bot, life, age>>

\* update_target_channel.
SwitchTarget(c) ==
    /\ Ask /\ target[c] # None
    /\ target' = [target EXCEPT ![c].on = ~@]
    /\ UNCHANGED <<theme, bot, life, age>>

-----------------------------------------------------------------------------
\* The latest publication in some of the channels.
LastIn(chans) ==
    LET seen == {age[c] : c \in chans} \union {"never"}
    IN  Ages[CHOOSE i \in 1 .. 5 : Ages[i] \in seen /\ \A j \in 1 .. i - 1 : Ages[j] \notin seen]

\* is_due: the cadence is a free dict, and lets nothing out for days if it says so.
Rested(b) ==
    LET last == LastIn(Receiving(bot[b].of))
    IN  CASE bot[b].pace = "usual" -> last # "fresh"
          [] bot[b].pace = "slow"  -> last \in {"weeks", "never"}
          [] bot[b].pace = "never" -> FALSE

\* publish_pool_job: what a bot has to be for the tick to publish in its theme; pool
\* posts are not repeated before their time.
Publishable(b) ==
    /\ bot[b] # None /\ bot[b].role = "theme" /\ bot[b].on
    /\ theme[bot[b].of].on
    /\ bot[b].auto
    /\ Receiving(bot[b].of) # {}
    /\ Rested(b)
    /\ "rewritten" \in life[bot[b].of].posts \/ life[bot[b].of].pool = "ready"

\* The last of a theme's posts is gone, or rests.
Spent(stock) == IF "rewritten" \in stock.posts THEN [stock EXCEPT !.posts = @ \ {"rewritten"}]
                                               ELSE [stock EXCEPT !.pool = "cooling"]

Publish(b) ==
    /\ Publishable(b)
    /\ LET t == bot[b].of
       IN  /\ age' = [c \in Chats |-> IF c \in Receiving(t) THEN "fresh" ELSE age[c]]
           /\ life' \in {life, [life EXCEPT ![t] = Spent(@)]}
    /\ UNCHANGED <<theme, bot, target, requests>>

TimePasses ==
    /\ age' = [c \in Chats |-> CASE age[c] = "fresh" -> "due" [] age[c] = "due" -> "days"
                                   [] age[c] = "days" -> "weeks" [] OTHER -> age[c]]
    /\ UNCHANGED <<theme, bot, target, life, requests>>

-----------------------------------------------------------------------------
\* Mutant of BotStage: bots that were switched off are counted.
BotStageAnyBot(t) == IF BotsOf(t) = {} \/ Receiving(t) = {} THEN "crit" ELSE "ok"

SourceStage(t) ==
    LET used == {s \in Sources : life[t].source[s].on}
        unread == {s \in used : ~life[t].source[s].reader}
        Some(when) == \E s \in used : life[t].source[s].read = when
    IN  CASE used = {} \/ unread = used -> "crit"
          [] unread # {} /\ unread # used -> "warn"
          [] unread = {} /\ used # {} /\ ~Some("today") /\ ~Some("never") -> "warn"
          [] OTHER -> "ok"
Brings(t) == \E s \in Sources : life[t].source[s].brought
IngestStage(t) == IF Brings(t) THEN "ok" ELSE "warn"
ScoringStage(t) == IF life[t].posts \cap {"new", "selected"} # {} THEN "ok" ELSE "warn"
RewriteStage(t) == IF "pending" \in life[t].posts \/ "rewritten" \notin life[t].posts THEN "warn" ELSE "ok"
BotStage(t) == IF Working(t) = {} \/ Receiving(t) = {} THEN "crit" ELSE "ok"
PublicationStage(t) ==
    CASE LastIn(TargetsOf(t)) = "never" -> "warn"
      [] LastIn(TargetsOf(t)) \in {"days", "weeks"} -> "crit"
      [] OTHER -> "ok"

\* theme_health: the stages above the last one, and the last one.
StagesAbove(t) == {SourceStage(t), IngestStage(t), ScoringStage(t), RewriteStage(t), BotStage(t)}

\* Nothing has been published for more than three days.
LongSilent(t) == LastIn(TargetsOf(t)) \in {"days", "weeks", "never"}

\* list_alerts, of a theme: active themes only.
Alerts(t) ==
    {a \in {"missing_bot", "missing_target_channel", "theme_inactive", "pool_stagnant"} :
        /\ theme[t].on
        /\ CASE a = "missing_bot" -> Working(t) = {}
             [] a = "missing_target_channel" -> Receiving(t) = {}
             [] a = "theme_inactive" -> Receiving(t) # {} /\ LongSilent(t)
             [] a = "pool_stagnant" -> life[t].pool = "none"}

DeskNext ==
    \/ \E t \in Themes : CreateTheme(t) \/ OrderToday(t) \/ \E change \in ThemeChanges : UpdateTheme(t, change)
    \/ \E b \in Bots :
          \/ \E role \in Roles, t \in Themes \union {NoTheme} : CreateBot(b, role, t)
          \/ \E change \in BotChanges : UpdateBot(b, change)
          \/ DeleteBot(b)
          \/ Publish(b)
    \/ \E c \in Chats : SwitchTarget(c) \/ \E t \in Themes : AddTarget(c, t)
    \/ TimePasses

-----------------------------------------------------------------------------
\* A theme that nothing was published in for days, although it is active, is not passed
\* over for a reason the panel does not show: there is an alert for the theme, and a stage
\* of theme_health above the last one is not "ok", as the hint of the last stage says, but
\* in three cases that no stage looks at: its bot may not publish by itself
\* (autopublish_enabled, off until it is switched on), its cadence lets nothing out for
\* days (a free dict, checked nowhere), or it can publish, and does, or its sends fail.
SilenceIsExplained ==
    \A t \in Existing :
        (theme[t].on /\ LongSilent(t) /\ ~\E b \in BotsOf(t) : Publishable(b)) =>
            /\ Alerts(t) \cap {"missing_target_channel", "theme_inactive"} # {}
            /\ StagesAbove(t) \ {"ok"} # {} \/ \E b \in Working(t) : ~bot[b].auto \/ ~Rested(b)
=============================================================================
