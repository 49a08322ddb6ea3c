# A TLA+ verification of NXai's content conveyor

NXai reads posts from other people's Telegram channels, lets them ripen on their
view and forward counters, drops duplicates, has a language model rewrite the rest,
lets an operator review them and publishes them in its own channels. This directory
models that conveyor -- every process that writes a candidate post, all at once, over
the rows of one PostgreSQL table -- and, each in finer detail, what goes on around it:
reading the source channels, paying for the model, the timetable of the channels, the
messages in them, and what people set up and answer. TLC checks it on small instances;
TLAPS proves the central safety invariants for every instance.

## 1. The system

Four kinds of processes share one PostgreSQL database (READ COMMITTED, sessions built
with `expire_on_commit=False`, `core/db.py`), a Redis for the stepwise Telethon
login, and the outside services Telegram, the language model and Voyage (embeddings):

| process | what runs in it |
| --- | --- |
| `scheduler.py` | APScheduler jobs, each at most once at a time, all of them tasks of one event loop: heartbeat, backfill (15 min), score_refresh (10 min), dedup_and_rewrite (5 min), publish_pool (60 s), ad_watchdog (5 min), publication_metrics (30 min), digest (20 min), quality_run (1 min) |
| `interfaces/telethon_workers` | one live reader per Telethon session, supervised and reconciled with the database |
| `interfaces/bots` | the runner of the theme bots and the admin bot, the review handlers, the detection of foreign posts |
| `interfaces/api` | the FastAPI panel: review, generation on demand, settings |

### Components, their state and what makes them correct

| component | state | operations | hard behaviour | must hold |
| --- | --- | --- | --- | --- |
| candidate table | status, selected version, embedding, row locks | | sessions keep objects and write columns late | no state without its text, locks given up |
| ingest, backfill, digest | rows of a source, its watermark | `receive_post`, `backfill_source_channel`, the live reader | the same post twice at once, a batch rolled back, a source switched off or deleted while it is read | the watermark passes nothing over, every post arrives |
| scoring | objects of the tick | `record_snapshot`, `promote_if_selected`, `reject_if_matured` | objects as old as the tick | a post another session took is not pulled back |
| dedup and rewrite | list of the tick, one open transaction | `resolve_duplicates`, `generate` | row locks across calls to Voyage and the model | nothing ready without a text, no lock for ever |
| generation on demand | one transaction for the request | `ForceGenerateService.generate` | stale list, many row locks, failures half way | nothing left SELECTED, operator approves |
| publishing | the picked object | `pick_next`, `publish_candidate_to_channels`, pool posts | pick and lock far apart, several sends, crash after a send | nothing unapproved or withdrawn is sent, nothing twice |
| review | requests in progress, ids of the last mass rejection | approve, unapprove, edit, reject, reject all, restore | operators racing each other and the scheduler | a decision is not lost |
| ad watchdog | detections | `detect_foreign_post`, `cover_if_due` | the channel post arrives before the publication is committed | own posts are not covered |
| daily batch, budget, usage | order and debt of a theme, spending of the day | `order_batch`, `outstanding`, `ensure_budget`, `record_usage` | check then act, usage lost with a rollback, midnight | no batch is overfilled, spending is counted once |
| quality runs | run, pairs, verdicts | `execute`, `execute_next_pending` | crash and resumption | a pair is paid for once, a verdict is the judge's |
| source trust | a number per source | `adjust_trust_score`, the bounds | lost updates | a source climbs out of the lowest trust |
| cadence, rubrics, pool | publications, rubrics of ready posts | `is_due`, quiet hours, `freshest_by_rubric`, `classify`, the forecast | boundaries, midnight, lists that change | the forecast is kept, rubrics alternate, nobody waits for ever |
| bots and review in Telegram | running tasks, corrections awaited by chat | reconcile, presses and texts | rows read before they change, chats shared by bots | a task for every active row, which polls; a text changes what it was asked for |
| workers and login | subscriptions, attempts in Redis | `_run_session`, `submit_code`, `submit_password` | late answers, failed attempts | an accepted attempt is over, once |
| settings, themes, alerts | rows that people edit | the panel's routers | two edits at once, rows switched off and moved in any order | the settings stay consistent, a silent theme is explained |
| assistant | one question | `ask`, tools | failures in the middle of a paid question | it ends, within its rounds, and its account is lost in one case only |
| text | | `to_telegram_html` | markers that cross | what is sent is well formed |

Components meet in the database: nobody calls anybody. Two facts make that hard. A
session keeps every object it holds a reference to, and `session.get` returns it
unread, so a check may be as old as the tick. And a row changed by a flush stays
locked until the commit, which in the rewriting tick and in a forced generation comes
only after the calls to Voyage and the language model. PROJECT.json lists the hazards
that follow, each at its line.

## 2. The modules

    CandidateStore            rows, row locks, what sessions read
      Intake  Scoring  Rewriting  ForceGeneration  Publishing  Review
        Pipeline              all of them over one table; properties, IInv, fairness
          Overtaken           one history variable: what the scoring tick may write over
            MCPipeline        instance for TLC
          PipelineHistory     one history variable: the operator's word a post waits for
          MCRowLocks          instance for TLC
          PipelineProofs      theorems, checked by TLAPS
            OvertakenProofs

    TargetChannels            the channels, their messages, the publications table
      Delivery                publish_pool_job, message by message
      AdWatchdog              the bots' handler and ad_watchdog_job
        Airing                both at work, other authors, restarts; properties, IInv
          PublicationPromise  what publishing promises (abstract)
          MCAiring  AiringProofs

    Ingest                    live reader, backfill, watermarks, the panel's sources
    SourceTrust               the trust of one source, moved by several sessions
      SourceChannels          the two, each in behaviours of its own
        MCSources  SourcesProofs

    LlmUsage                  rows of llm_usage, the limit of the day
      DailyBatch              requests, the order, the tick that works off the debt
      QualityRun              comparisons of two personas
        Spending              both on one account, midnight
          SpendingProofs

    Rubrics                   classification, the freshest rubric, round robin (functions)
      Timetable               a theme's channels day by day, the forecast
        MCTimetable  TimetableProofs

    ThemeDesk                 themes, bots, channels; theme_health and alerts
    PanelSettings             the row of settings
    AccountLogin              the stepwise login of a reading account
    BotRunner                 the process that runs the bots
    EditorDesk                review in Telegram
    Assistant                 a question in rounds
    Markup                    markdown into HTML (functions)
      Desk                    each of them in behaviours of its own
        MCDesk  MarkupProofs  DeskProofs

Variables and code:

- **CandidateStore**: `status` is the committed column, `text` what
  `selected_post_version_id` points at (nothing, a draft only the model has seen, or
  a text an operator approved or wrote), `embedded` who has an embedding, `lock` the
  session holding the row's lock. A session's UPDATE is enabled when `Lockable`.
- **Intake**: `again` is a post the backfill met again and read as NEW; its
  `record_snapshot` writes SCORING when it gets the row (`Rescore`), even if a forced
  generation held the row meanwhile and has moved it on. A row inserted by a session
  that has not committed is locked and ABSENT for the others.
- **Scoring**: `view` is what the tick's objects say. They are read at `ScoreTick`,
  reread only when a rollback expired them (`ScoreProbe`), and `ScoreWrite` writes the
  status only if the object's own status changed, as a SQLAlchemy flush does.
- **Rewriting**: one candidate at a time; `RwUnique`, `RwWeaker`, `RwStronger` are the
  outcomes of the comparison, `RwDemote` the UPDATE of the weaker duplicate, which
  waits for its lock; `RwDone` the commit, `RwFail` the `except` branch.
- **ForceGeneration**: `draft` holds the statuses the request has flushed and not
  committed, visible to itself alone (`OwnView`); `FoCommit` publishes them all.
- **Publishing**: `PubPick` loads the object, `PubSend` locks the row and checks the
  object, not the row; the check cannot fail, because the object was picked REWRITTEN.
- **Review**: `Decide` reads and checks, `Decided` flushes and commits. Nothing is
  locked in between, so operators race. An approval is of the post, by its id: whatever
  text the row has when it commits counts as approved, also one that another operator's
  edit put there after this one had looked.
- **Pipeline**: the interleaving of them all, `SchedulerRestart`, and PostgreSQL's
  choice of a victim when the rewriting tick and a forced generation wait for each
  other (`Deadlocked`).

- **TargetChannels**: `feed` is what stands in each channel (nothing is ever deleted
  there), a message is a channel and its number, `recorded` the messages with a
  committed Publication, `untold` those whose `channel_post` update no bot has handled.
  `Appear` is a send: of an album one message per photo, of which Telegram's answer, and
  so the Publication, names the first (publisher.py:100-101).
- **Delivery**: `pub` is `publish_pool_job` from the pick to the commit, with the
  channels `left` and the messages `sent`. `Fail` rolls back and leaves the messages
  where they are; a failure after `Send` is also an answer that was lost.
- **AdWatchdog**: `Notice` is the handler, whose look at the publications may come
  before the publisher's commit. `wd` is the job: the detections of its tick (`todo`),
  the one in hand, the pool post, what it sent. `Choose` looks at the publications,
  `Cover` waits for the row of the pool post (`held`) and sends, `Buried` commits.
- **Airing**: both jobs, which are tasks of one process and stop together (`Crash`),
  with the bots, other authors (`AdPosted`) and the end of a cooldown. How candidates
  come to be ready, and how the publisher's check can be stale, is the conveyor's
  matter: here they are ready from the start.
- **PublicationPromise**: a candidate may reach a channel at any time; it may be counted
  as published only when it has reached them all. `Airing!Promise` reads `reached` off
  the feeds and `counted` off the status.

- **Ingest**: `source` is the committed row (`mark` the watermark), `rows` the committed
  candidates, each the number of its message. `bf` are the readers of the history, the
  backfill tick and a forced generation: the sources in its `queue`, the watermarks it has
  `loaded` (kept, as the objects are), the `batch` in hand from `low` to `top`, what it
  has inserted and not committed (`pending`, `marks`). `BfInsert` may lose the insertion
  race, which rolls the session back and expires what it holds. `worker` is the live
  reader: what it is subscribed to; it is told of a message once (`inbox`) and may be down.
  `horizon` is history: where the first scans that were committed leave off.
- **SourceTrust**: `judge` is each session's object of the source: what it `held` when
  loaded or adjusted, and whether it is to be written. `Adjust` clamps to the bounds as
  they are now; the commit writes the value, not the change.
- **LlmUsage**: `booked` are committed rows of today, `owed` those of an open
  transaction, `missing` what the background jobs paid and have no row for (history; less
  than nothing: rows written twice), `old` the transactions begun before midnight, whose
  rows are yesterday's. `Exceeded` sees committed rows only.
- **DailyBatch**: `FgList` is the choice of a request's posts, with the paid classification
  of those of its pool that have no rubric (force_generate.py:274-278); `order` is the theme's `daily_batch_date` and size, `st` the
  committed stage of a post as far as a batch tells it apart, `batch` its `batch_date`.
  A request's writes are in `draft` until its commit; a row it has touched makes others
  wait. `tick` read the debt at its start (`size`, `today`); `TkFailEarly`,
  `TkFailPaid` and `TkFailCard` are the `except` branch with `lost_usage`: before the model
  answered, after it, and after the commit. `crowd` is history:
  the posts others added meanwhile.
- **QualityRun**: `run` is the committed row, `verdict` that of each pair; `work` is the
  pair in hand and how many of its four answers (two rewrites, two judgements) are paid.
  `leaning` is what the judge goes by: a text, none, or the position.
- **Timetable**: `auto` is the bot's `autopublish_enabled`, which the job asks for and the
  forecast does not; `now` is the time of day in half hours, `since` the time since each
  channel's last publication, up to a longest that nothing tells apart, `on` the active
  channels, `job` what `publish_pool_job` has in hand, `out` the publications by rubric.
  `JobPicks` is the check and the choice, `JobCommits` the publication, and time may pass
  between them. `Renew` makes a published post that no query can tell from one long gone
  into a new one to come, so that posts may keep coming for ever.
- **ThemeDesk**: rows as records, `<<>>` where there is none; a request is one action,
  as its handler is one transaction. `age` is how long ago the last publication of a
  channel was, as far as alerts, stages and the bot's `pace` tell it apart: the cadence is a
  free dict, and some hours, some days or quiet hours all day are what a silence of days can
  tell of it (`Rested`). `_bot_for_theme` fails on two
  bots (also on one replaced and switched off): then the handler is not there to take.
- **PanelSettings**: `edit` is what an editor's request read and was sent. It writes at
  its commit the columns that differ, `automation` as a whole.
- **AccountLogin**: `kept` is the state in Redis, with its expiry; `call` a request, before
  Telegram's answer (`signing`), after it (`accepted`) and after what it does to Redis
  (`signed`); `accepted` and `disturbed` are history.
- **BotRunner**: `loaded` are the rows a round acts on, `task` and `signature` what the
  loop believes it runs, `polls` who really polls, `attached` whether the handlers' router
  has a dispatcher: `StartPolling` needs one without (`include_router`, main.py:51), and
  nothing but a new process gives it back.
- **EditorDesk**: `fixes` and `pending` are the handlers' dictionaries by chat, `saving` a
  text taken and not committed; `presses` and `changed` are history.
- **Assistant**: `phase` and `round` of one question; `added` are rows of `llm_usage` that
  the session has and has not written (`record_usage` only adds; the next query flushes),
  `tx` the transaction, which a failed query aborts without the session knowing it; `paid`
  and `booked` the rounds. `Finish` is the commit, which PostgreSQL answers with a silent
  rollback where it is aborted and nothing is left to write.
- **Markup** and **Rubrics** are functions of the code's functions. A text is a sequence
  of the characters the rules tell apart; a rubric is its name in lower case.

### Abstractions

- One theme wherever `ThemeDesk` is not concerned. Other themes' rows are never touched
  by the same transaction except in a tick that commits between candidates.
- Scores, ages, similarity and the model's answer are any choice. In the conveyor batch
  limit, stock, debt and budget are an arbitrary end of the tick, and whether a post is
  due is an arbitrary delay: `DailyBatch` and `Timetable` say what they really do.
- `Moderated` (premoderation, or an editor at the bot) is constant over a behaviour.
- In the conveyor the backfill job writes each row on its own, and one forced
  generation is made at a time. The transaction per source is in `Ingest`, two requests
  at once in `DailyBatch`, the lost updates of the sources' rows in `SourceTrust`.
- An object of the rewriting tick is read again once its row is locked: no variable
  of the tick keeps it between the comparison and `generate`.
- In Airing: one theme, its channels all active, automatic publication on, one theme bot,
  at least one READY pool post. The delay of a detection (5 minutes at least,
  automation.py:103) is taken to be longer than the sends of one publication: that is
  the guard `m \notin open` of `Take`. Pool posts are chosen by `last_used_at`; the model
  keeps only whether they are on cooldown.
- One answer of the model is one unit of money, and only the present day is counted. The
  filters, albums and media of a received post are not modelled: a message is received,
  known already, or refused.
- Of the days of a theme: times in half hours; weights of the random choice are positive
  and otherwise any choice.
- Requests to the panel are one action each, except where two at once are the question
  (settings, login, review, generation). The assistant's client is taken to time out.
- `QUEUED` appears in the enumeration and in one query; no code assigns it. It is not
  a status of the model.
- Components that do not share rows, or of whose shared columns no property speaks, are
  composed by a choice at the start (`part`): in `SourceChannels` and `Desk` a behaviour is
  about one of them, in `Spending` about one of the sets in `AtWork`, in `Timetable` about a
  theme's days or about a batch.

## 3. What TLC checks

All runs set CHECK_DEADLOCK FALSE: once every post is published, rejected or a
duplicate, every message read or every bound used up, there is really nothing to do.

| run | instance | result |
| --- | --- | --- |
| conveyor | 1 post, 2 operators (interchangeable), all components, moderated | `TypeOK`, `WordedHasText`, `OnlyVettedSent`, `ScoreOvertakesOnlyOvertaken` hold |
| rowlocks | 2 posts already received, the three sessions that hold several rows, fairness | `RowsReleased`, `ForceLeavesNoneSelected` hold |
| forced_review | 1 post, no review at all, not moderated | `ForcedSentOnlyApproved` is violated |
| withdrawn | 1 post, 1 operator | `WithdrawnNotSent` is violated |
| airing | 1 channel, 1 candidate, 1 pool post, 1 failure, fairness | `TypeOK`, `RecordedNotCovered`, `DetectionsSettled` hold |
| promise | 2 channels, 2 candidates, 1 pool post, 2 failures, bots down | `PostRecordedOnce`, `KeepsPromise` hold |
| own_cover | 1 channel, 1 album, no failure | `OwnNotCovered` is violated |
| sources | six scenes: up to 2 sources, 4 messages, 2 readers of the history and the live one; a trust of 4 values, 3 sessions | `TypeOK`, `WatermarkSound`, `TickHoldsOneSource`, `EveryPostArrives`, `ClimbsOut` hold |
| spending | 2 posts, 2 requests or one and the tick, or 2 quality runs of 2 pairs; a limit of 2 answers, 2 days | `TypeOK`, `TickPaidIsBooked`, `QualityLossBounded`, `OvershootBounded`, `DoneIsComplete`, `VerdictIsTheJudges`, `JudgedOnce`, `OrderNotOverfilled`, `OrderedRunEnds` hold |
| timetable | six scenes: 3 posts and a demotion, 4 that keep coming, 2 channels, 2 rubrics, days of 3 hours; all batches of 6 posts | `TypeOK`, `ForecastHonest`, `BatchBalanced`, `SpacedOut`, `NoRepeatWhileOther`, `EveryReadyPostGoesOut` hold |
| desk | 2 themes, 2 bots, 1 channel; 2 editors of the settings; 1 attempt; 2 bots run; 2 people, 2 posts in Telegram; 3 rounds; texts of 5 pieces | `TypeOK`, `SilenceIsExplained`, `SettingsConsistent`, `EditsFollowPresses`, `RenderedWellFormed`, `AcceptedOnce`, `TasksSettle`, `AnswerComes` hold |
| runner | the same, with nothing happening but the runner of 2 bots: no change, no failure | `RunnerConverges` is violated |

*Why the bounds are enough to be interesting.* The races of the conveyor are about
one row seen by many sessions: one post with all seven components and two operators
has every such race, and the proofs below cover any number of posts. Deadlock and
demotion need two rows: `rowlocks` has two, and starts with both received, so that the
search is spent on the locks. The operators are not compared with each other by any
formula, so exchanging them is sound; the runs with symmetry check no liveness.

`airing` has one channel, because a message, its detection and its cover stay in one
channel: the feed still grows to seven messages (a foreign post, a send that is rolled
back, its repetition, a scheduled pool post, covers), all told in any order. `promise`
has two, because only a post for two channels can be sent to one and not the other, and
leaves the updates unhandled: the watchdog writes nothing the promise speaks of. The
bounds are `MaxFeed` (foreign and scheduled pool posts appear only in short feeds) and
`MaxTrouble` (failures and restarts); the proofs need neither.

`sources` needs a first scan that meets a second one, a message beyond a batch
(`BatchLimit` is 1) and a source that is switched off between a read and its commit; four
messages and the six scenes of MCSources have all of these, and each scene bounds the
edits in the panel, the failures and the forced generations that go with it. `spending`
has a limit of two answers, which one rewrite passes; two posts, so that one may be
rejected and replaced while the other is written; two days, for the midnight; one failure
and one restart, of which each property allows for as many as there were.
The pool of a request is two posts for one that is wanted, so that classifying it costs as much
as writing. `timetable` has quiet hours across midnight, within a day, all day, and none, in
days short enough for several to pass; a shortest interval longer than the longest; posts that
never cease, four at a time; a list of rubrics of which one name contains the other, and none.
`desk` gives every part the smallest numbers at which two of its actors meet:
two rows where one replaces another, two requests for one row, two bots with one chat.
The largest of the new runs, `sources`, takes a minute and a half.

*The properties.* `WordedHasText`: whatever a stale object writes over a status, a
post on review, ready or published has a text. `OnlyVettedSent`: in a moderated theme
races of operators with each other, with the tick and with restores never let the
model's own draft out. `ScoreOvertakesOnlyOvertaken` says exactly how far the damage
of stale scoring objects goes: only rows that a forced generation has moved since, or that a
backfill put back before, are overwritten. `RowsReleased` is liveness: no row is locked for
ever. `ForceLeavesNoneSelected` is the promise in the comment at force_generate.py:169.

`RecordedNotCovered` is what the check before the cover (ad_watchdog.py:95-105) is for;
it is made before two waits, and holds only because a message in hand belongs to no
publication in progress. `PostRecordedOnce` and `KeepsPromise` say what survives sends
that are rolled back and repeated: readers may see a post twice, the table has it once,
and PUBLISHED means every channel. `DetectionsSettled` is liveness: a detection is
covered or found to be our own, whatever fails in between. (It ranges over the first
`4 * (MaxFeed + MaxTrouble)` messages of a channel: in the run, all there are.)

`WatermarkSound`: from the first scan on, every message up to the watermark is a
candidate or was refused while the source was off, whichever readers overlap, are rolled
back or see a source go. Two first scans at once may set the watermark back; that costs a
second reading, and messages between their beginnings are read by none. `TickHoldsOneSource` is what "commit
per source" is for. `EveryPostArrives` is liveness: the live reader may lose everything, the
backfill brings it. `ClimbsOut` is liveness: lost updates delay, but do not stop, the climb
out of the lowest trust (it needs a bonus above 0; the settings would take 0).

`TickPaidIsBooked` and `QualityLossBounded` bound what goes missing between an answer and its
row: nothing in the tick but by a restart, one pair in a quality run each time it is cut
short. `OvershootBounded` is the price of check-then-act: the limit is passed by no more
than everyone may spend in one go. For a request that is `RequestCost`: an answer for each post
of its pool, which is classified before any is chosen, and two for each post it was asked for (a
request asks for the budget once, at its start). `OrderNotOverfilled` compares what the tick makes with the
debt it read. `JudgedOnce`, `DoneIsComplete` and `VerdictIsTheJudges` say what a resumed run
owes, and that a judge who goes by the position decides nothing. `OrderedRunEnds` is liveness.

`ForecastHonest` compares the panel's forecast with what the job would do. The cadence is a free
dict (channel_bots.py:90, 110, 234), so it is said for cadences that make no sense too, and what
the forecast does with them is part of the property: if all hours are quiet its slots are in the
quiet hours, since it gives up after a day of shifting; if the shortest interval is longer than the longest,
its slots (half way between the two, queue.py:72-75) are closer than the job keeps. It is made for every active bot, also one
with automatic publication off, whose posts the job will never send (scheduler.py:484): "now" is
compared with the job only where it is on, and no channel off. `SpacedOut` holds at the moment of
publication, not only of the check, except for a cover that came between; what falls between
may also carry a publication into the quiet hours. `NoRepeatWhileOther` holds at the choice.

`EveryReadyPostGoesOut` is liveness, with posts that never cease to come. It is not true of every
post: `recent_rubrics` looks at posts with a rubric only (rubrics.py:192), so posts without one
change nothing of what was out lately and always count as the stalest; a post of a rubric that was
out lately waits as long as they keep coming. `HasItsTurn` says of which posts it is true: those
whose rubric was not out lately, and those that no post without a rubric is ready beside.
`BatchBalanced` compares `Chosen` with what it promises, over all batches of the instance.

`SilenceIsExplained` compares two computations of the panel with what publishing does. If an
active theme has published nothing for days and no bot of it may publish, there is an alert,
and a stage above the last that is not "ok" -- but in two cases. theme_health looks neither at
`autopublish_enabled`, which is off until it is switched on, nor at the cadence, which may let nothing
out for days or ever. Then all stages above the last are "ok", although the hint of the last one
(themes.py:407) sends the operator to look for the one that is not, and themes.py:189-192 says the
chain shows where it is stuck. Of a bot that may publish and whose sends fail the panel's stages
say nothing either; the scheduler's notices do. `SettingsConsistent` holds because a set is
written whole; the price is that of two edits one is lost. `EditsFollowPresses` says that
dictionaries shared by all bots of the process never make one text change two posts, or a
post nobody asked to change; it does not say in which bot's examples the text ends up, and
an answer in the wrong chat does teach the other theme's persona. `RenderedWellFormed` is
checked over the texts of MCDesk, and proved of all.

`AcceptedOnce`: however often a code or a password was refused before, an attempt that Telegram
accepts ends there, with one account at most. It is not said of an attempt that two requests
had in hand at once (the second may save the state again that the first has deleted: a second account, or a
state with a live session until its expiry) or whose request was cut short. Nor is anything said of an
attempt that was refused: its state stays in Redis for another try, and if none comes until
its TTL, although the module's docstring (telethon_login.py:12-14) has it deleted "сразу после успеха или
ошибки клиента"; no step of the program but the expiry removes it.

`TasksSettle`: rows change while a round acts on what it has read, and in the end there is a task
for each active row and no other, started with what the row says now. That these tasks poll
(`RunnerConverges`) is what the code does not keep: see below. `EditorDesk`, which has all bots
handle updates, is thus about the handlers, whichever bots come to poll, as when each runs in
a process of its own.

`AnswerComes`: a question ends, in `MaxRounds` rounds, with all of them booked if it is answered -- but
in one case. Where a query of the last round's tools fails after that round's row was flushed, the
session has nothing left to write, its commit (assistant.py:213) is answered by a silent rollback,
and the answer goes out at line 214 with no round booked (`Booked`). A broken transaction with rows still to be
written raises instead, after paying for every round up to then, and the question fails, its
account lost too.

*The four violations* are findings about the code. `forced_review`: the tick loads a
post as SCORING; a forced generation puts it on review; the tick's `promote_if_selected`
sets it back to SELECTED; the rewriting tick makes it REWRITTEN; the publisher sends
what no operator has seen. `withdrawn`: the publisher picks a post, an operator's
unapprove commits and answers success, the publisher locks the row, checks the object
it already has, and sends. `own_cover`: an album of two photos is sent, the bot is told
of the second one, which no Publication names; an hour later the watchdog covers it.
`runner`: two rows are active; a round makes a task for each; the first task includes the router in its dispatcher and
polls; the second's `include_router` raises ("Router is already attached"; aiogram 3, pyproject.toml:7),
and raises again at every try. The same becomes of a bot that was restarted because polling failed
or its row changed. It takes a restart of the process, after which again one bot polls.

Three smaller disagreements with the text of the repository were met and have no run. A slot of
the schedule may be filled with a pool post still on its cooldown, as `pick_next` leaves
`allow_repeat_when_all_on_cooldown` at its default (scheduler_pool.py:115), against the docstring
at 156-160: `Pickable` does what the code does. And the two told of above, of the refused
login and of the theme whose stages are all "ok".

*Fairness.* Only sessions in the middle of their work are fair: the calls they await
return or time out. Those that wait for row locks get strong fairness, because
PostgreSQL queues waiters and a session asking for a lock is not passed over for ever;
the publisher and the victim of a deadlock get weak fairness. Nothing forces a tick to
start, an operator to act, or a post to arrive.

In Airing the watchdog's tick is fair (APScheduler starts it every five minutes) and so is
a publication once begun. `DueStep` has strong fairness, because time passes: a
detection looked at on every tick is due in the end. Failures are bounded by
`MaxTrouble`; `DetectionsSettled` therefore says that detections settle once failures cease.

In SourceChannels a tick of the backfill comes every 15 minutes and what a reader awaits
returns or fails: weak fairness, for the tick and for a request already made. A session that
has loaded a source is committed or rolled back; that one of the tick's sessions rewards the
source again and again (strong fairness) is the assumption that the source goes on
delivering. In Spending only the quality job is fair, a job of one minute. In Timetable the
clock and the commit are; each ready post is chosen if it may be chosen again and again
(strong), because every weight of the random choice is above zero. In Desk: the loop of the bot runner, a
task's pause, and the calls of a question. Nothing forces
people to act; their acts, and failures, are bounded, so that liveness says what holds
once they cease.

## 4. What is proved

`PipelineProofs` proves, for every set of posts and operators and every choice of
`Embeddings`, `Moderated`, `ShortOfPosts` and `Running`:

- `Invariance`: `Spec => []IInv`;
- `TypeCorrect`, `WordedAlwaysHasText`, `SentIsVetted`: `TypeOK`, `WordedHasText` and
  `OnlyVettedSent` are invariants;
- `ForceSettlesAll`: no commit of a forced generation leaves a post SELECTED.

The assumptions are the five ASSUMEs of the modules: `NoPost` is no post, and the
switches are Boolean (`Running` a set of components). TLC evaluates them on every run.

*The inductive invariant.* `WordedHasText` alone is not inductive: a restore makes a
rejected post pending again, an approval written late makes it ready, and the
publisher publishes what it picked long ago. `HeldHasText` says that every post such
a session has in hand or an operator may bring back already has a text; it rests on
texts never being removed. `DraftStatus` bounds what a forced generation may hold
uncommitted, and says that only the post in hand can be SELECTED there: that is
`ForceSettlesAll`. `ReadyIsVetted` says that in a moderated theme a post becomes
REWRITTEN only by an approval, and that what the publisher holds was REWRITTEN when
picked. `Pointers` says that a session in the middle of its work has a post. There is
one lemma per component for its steps, with one case per action.

`OvertakenProofs` proves `OnlyOvertakenIsWrittenOver`, the property `ScoreOvertakesOnlyOvertaken`,
for the same posts, operators and components. Its invariant (`Watching`) adds to IInv, of
every post: what any session but the tick has in hand, or will take up without another look,
is in the table, and is NEW or SCORING only if it was put back; what is on the tick's list is
no longer NEW or SCORING only if it was moved since.

`AiringProofs` proves, for every set of channels, candidates, albums and pool posts, with
and without cooldown, and for every `MaxFeed` and `MaxTrouble`:

- `AiringInvariance`: `Spec => []IInv`;
- `AiringTypeCorrect`, `RecordedOnce`, `CoversNoRecorded`: `TypeOK`, `PostRecordedOnce` and
  `RecordedNotCovered` are invariants;
- `PromiseKept`: `Spec => KeepsPromise`, the refinement of PublicationPromise.

They rest on `ChannelsAssumption`: kinds of posts are disjoint and the pool is not empty.

*The inductive invariant* here. `AllStanding`: whatever a session or a table speaks of
stands in its channel, so a new message is none of them; this is what makes `InHand`,
that the watchdog's message is not among those being published, survive a send, and
`RecordedNotCovered` survive the commit. `Underway` says that what is sent shows the
post of the publication, one recorded message per channel served, and that the post was
not published before; with `RecordedPublished` it gives `PostRecordedOnce`, and at the
commit, with no channel left, the guard of the promise's `Count`. `Covering` keeps the
watchdog's own sends out of it. `AppearFacts` is the one lemma about sequences: a feed
grows at its end.

`SourcesProofs` proves, for every set of sources, every number of messages, batch limit and
set of scenes, and every scale of trust:

- `MarksAreSound`: `WatermarkSound`;
- `TickRisksOneSource`: `TickHoldsOneSource`;
- `SourcesAreTyped`: `TypeOK`.

*The inductive invariant.* The watermark in the table is sound (`MarkCovers`) only if the one
a reader is about to write is. So the same is said of what a reader has loaded
(`LoadedCovers`), of the batch it has in hand, with the messages still to be inserted
(`BatchCovers`), and of what it has inserted but not committed (`MarksCover`). Each of these
excepts sources that were deleted and added anew since, which the reader's objects no longer
reach (`gone`). `TickHolds` says that what the tick has not committed is of the source it reads.

`SpendingProofs` proves, for every set of posts, runs, pairs and requests, every limit and
every choice of who is at work:

- `SpendingIsTyped`: `TypeOK`;
- `VerdictsAreTheJudges`, `DoneRunsAreComplete`, `PairsAreJudgedOnce`: the three properties of
  quality runs, the last an action property;
- `TickIsBooked`, `QualityLosses`: what was paid for is on the account;
- `OrderIsNotOverfilled`: `OrderNotOverfilled`, an action property;
- `OvershootIsBounded`: `OvershootBounded`.

`RunInv` adds to the properties of quality runs `WorkInv`: the pairs a run has in hand are
exactly those without a verdict. The sum of the three numbers is the number of pairs because
the verdicts partition them, which is proved with the library's facts about cardinality.
`AccountInv` says for the tick and for the quality job how what is missing is related to the
step they are at: a row of an open transaction is owed, not missing. `OrderInv` says that what
the tick still owes fits beside the posts it found and those it has made since (`DebtInv`); this
needs that a request has made every post it has a text for (`DraftsOK`), so that its commit
adds to the crowd and to nothing else.

`OvershootBounded` is not inductive: that little is booked beyond the limit does not say how
much is still to come. `AheadInv` adds, once the limit is reached, what every session may
still book before it asks for the budget again (`Rest`): of each request that has not committed, the
answers for its pool and two for each candidate it was asked for, the tick's queue, the pair in hand. A booking takes from `Rest` what
it adds to the account, and below the limit a check that lets a session pass leaves room for all
of `Rest`. It rests on `SharesInv`, that no request owes more than the answers for its pool, once it has chosen
from it, and two for each candidate it has dealt with.

`TimetableProofs` proves, for every set of channels, posts, cadences, scenes and rubrics:

- `TimetableTypeCorrect`: `TypeOK`;
- `PostsAreSpacedOut` (`SpacedOut`), from the invariant that what the job has in hand keeps the
  interval on every channel not covered since;
- `RubricsAlternate` (`NoRepeatWhileOther`), an action property: by `FreshestAlternates`, of any
  posts and labels, and because `Recent` is the labels of what is out, the last first;
- `BatchesAreBalanced` (`BatchBalanced`): a batch is a set of places given by the counts of each
  rubric, and the counts of two rubrics differ by one at most unless one has run out;
- `ForecastIsHonest` (`ForecastHonest`): each slot is later than the one before by the interval
  at least, if the intervals are the right way round, and is not quiet, if any hour is not, whatever
  was shifted over the night. Nothing is assumed of the cadence but that it is of numbers.

`TypeInv` is `DayInv`, the types with the facts about the job that they need (what is being sent is
ready), and `OutInv`: every published post is in `out`, and once. Without it a demotion, which takes
a post out of `out`, could leave it published and absent there. `TimetableAssumption` has at
most 24 hours to a day, as the code has: a slot is moved 24 times at most (`guard < 24`), and the
night ends within a day (`NightEnds`).

`MarkupProofs` proves `EveryTextIsRendered`: of a text of any length, `Html` is well formed, has every word
in its place and nothing unescaped. `ReplaceKeeps` is its centre: after each place, what a
rule has written has the words (`Core`: all but markers and tags) of the text up to where the next match
may begin. A match adds two tags and drops two markers, which have no words. That the rules leave
tags well nested is not claimed, for it is false: `Html` looks at the result, and where it is not
well formed the escaped text, which has no tags at all (`PlainWellFormed`), is sent.

`DeskProofs` proves, for every set of rows, requests, editors, people, posts, calls, bots and texts:

- `DeskTypeCorrect`: `TypeOK`, which includes that rubrics of a theme are few and differ, and that bots and
  channels are of themes there are;
- `SettingsAreConsistent` (`SettingsConsistent`), from an invariant that what an editor read and was
  sent is valid together;
- `EditsFollow` (`EditsFollowPresses`), from one that counts: every press is waited for in a
  dictionary, being saved, spent on a change, or lost;
- `SilenceIsShown` (`SilenceIsExplained`): it follows from the types and the guards of `Publishable`, one
  case for each condition that keeps a bot from publishing;
- `LoginsAreOnce` (`AcceptedOnce`);
- `AnswersAreBooked` (`Booked`, the safety within `AnswerComes`): an answer has all its rounds booked, or none
  in the one case above; a question pays for `MaxRounds` rounds at most, and its tools have read the limit
  and one result at most;
- `RenderedIsWellFormed` (`RenderedWellFormed`), by `EveryTextIsRendered`.

The type invariant is proved part by part (`DeskInv`, `SettingsTyped`, `LoginTyped`, `ReviewTyped`,
`QuestionInv`), since the parts share no variable. Each says a little more than the type: of the login,
that the accounts of an attempt and the requests that may still make one were all submitted
(`CallsCovered`), and for `LoginsAreOnce` that of an attempt never disturbed one request at most is in
hand, and how far it has come (`InOneHand`); of the review, that the people's presses are within their bound (`ActsCover`);
of the question, that each round begun has been paid for (`RoundsPaid`), beside `Booked`.

*Recursive definitions.* The library's induction takes an operator as its parameter, which the provers
cannot instantiate. What is needed here is said of numbers instead: a set of numbers has a
least one (`Least`, from `WFMin`), so what holds at 0 and passes from each place to the next holds throughout
(`Throughout`), and a recursive definition along `0 .. n` has a function it defines (`Defined`). The
forecast, the cleaned rubrics, the rules of the markup and `Without` are treated so; they are written as
recursive functions for this reason.

*What the proofs changed.* Three formulas that TLC had found true on its instances were not true of
every value of the constants. The type of a theme's background named the instance's own values; it is `LifeRow` now.
Two arms of `Chosen` held at once where a list of rubrics is empty, and what a CASE gives then is
any of them; they are disjoint now. And the types of requests, texts and calls, which the instances have, were
nowhere assumed: `DeskAssumption`, `SettingsAssumption`, `LoginAssumption`, `AssistantAssumption` and `TextsAssumption` say them,
as the request models of the panel (pydantic), the settings' timezone and `MAX_TOOL_ROUNDS` give them.
A negative `pool_cooldown_days` is refused in the code before anything is written, and so it is in `Read`.

They rest on the ASSUMEs of the modules, which TLC evaluates on every run.

*Only model-checked.* Liveness, which is beyond the prover: `DetectionsSettled`,
`RowsReleased`, `EveryPostArrives`, `ClimbsOut`, `OrderedRunEnds`, `EveryReadyPostGoesOut`,
`TasksSettle`, and that a question ends (`AnswerComes`). And the four violations.

## 5. Not modelled, and why

- The React panel, accounts and tokens: no state that the conveyor depends on.
- The digest, source discovery, analytics, dashboards and each of the assistant's tools:
  queries and single calls of a model that change no state any property could be about.
- Formatting apart from `to_telegram_html`, the filters of received posts, encryption and
  the clients of outside services: calls that succeed or fail in the models.
- Persona prompts, passports of channels and the audit log, which people write and read.
- Prices of the model; the accounts of single calls (assistant apart).
- The overlap of a cancelled bot's task with the one that replaces it: `task.cancel()` is
  followed by a new task that polls Telegram at once, and which of the two Telegram refuses
  is not in this code.
- Cross-posting after the commit, cards to editors (notify.py), editing of pool posts and
  the filling in of rubrics: one statement each, of which nothing later depends.
- Hazards of PROJECT.json without a property have a note that says why: three are losses
  the code accepts by design (a demoted duplicate stays one after a failed generation, a
  post that vanished at its source stays undecided, one of two simultaneous examples is
  lost), one needs a midnight between two reads of the clock in one request, and one (the repeat of a
  pool post while all are on cooldown, `scheduler_pool.py:115`) is seen by reading one line.

What could come next: a refinement of the conveyor's `Intake` by `Ingest`, and of the
account in `Spending` by an abstract one that only says what may be lost.
