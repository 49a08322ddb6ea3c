----------------------------- MODULE Timetable -----------------------------
(***************************************************************************)
(* When a theme's channels get their posts, and which: publish_pool_job    *)
(* (scheduler.py) with is_due and pick_next (core/services/                *)
(* scheduler_pool.py), the forecast of the panel (routers/queue.py), and   *)
(* everything else that moves them: the watchdog's covers, channels        *)
(* switched on and off, a published post demoted to a duplicate. Times are *)
(* wall clock times of the project's zone, in half hours.                  *)
(***************************************************************************)
EXTENDS Rubrics, FiniteSetsExt

CONSTANTS
    Posts,              \* the candidates that will be ready, one after another
    Channels,           \* target_channels of the theme
    Scenes,             \* the situations to look at: the bot's cadence and whether it publishes
                        \* by itself, the posts that come, whether a pool post is READY, and
                        \* how many failures, switches, covers and demotions (bounds)
    Menus,              \* the lists of rubrics the theme has at one time or another
    Hours,              \* bound: hours of a day
    Horizon,            \* FORECAST_HOURS
    MaxSlots,           \* MAX_SLOTS
    Window,             \* rubric_recent_window
    Pools, Counts       \* the batches to look at: eligible labels, and how many

Cadences == {s.cadence : s \in Scenes}

\* A cadence is a free dict of numbers: the shortest interval may be longer than the
\* longest, and the quiet hours all there are.
ASSUME TimetableAssumption ==
    /\ \A s \in Scenes : s \in [cadence : Cadences, auto : BOOLEAN, posts : SUBSET Posts, stock : BOOLEAN,
                          left : [{"faults", "switches", "covers", "demotions"} -> Nat]]
    /\ \A c \in Cadences : {c.from, c.to, c.min, c.max} \subseteq Nat
    /\ {Hours, Horizon, MaxSlots, Window} \subseteq Nat \ {0} /\ Hours <= 24
    /\ Menus \subseteq Seq(Names) /\ Pools \subseteq Seq(Labels) /\ Counts \subseteq Nat
    /\ Channels # {} /\ IsFiniteSet(Channels)
    /\ Posts \subseteq Nat \ {0} /\ IsFiniteSet(Posts)

VARIABLES
    part,               \* what is looked at: a channel's days, or one batch
    cadence, auto,      \* the bot's cadence; its autopublish_enabled
    stock,              \* whether a pool post is READY
    now,                \* the time of day
    since,              \* time since the last publication of each channel, up to the interval
    on,                 \* the active channels
    post, label,        \* of each candidate: where it is, its rubric
    out,                \* the published candidates, last first
    job,                \* the post publish_pool_job has picked, for which channels, and
                        \* the channels covered since
    left,               \* what may still happen
    batch               \* eligible posts, how many are asked for, the theme's rubrics

dayVars == <<cadence, stock, auto, now, since, on, post, label, out, job, left>>
vars == <<part, dayVars, batch>>

Pool == 0
Nothing == -1
Idle == [of |-> Nothing, chans |-> {}, covered |-> {}]

TypeOK ==
    /\ cadence \in Cadences /\ stock \in BOOLEAN /\ auto \in BOOLEAN
    /\ now \in 0 .. 2 * Hours - 1
    /\ since \in [Channels -> 0 .. cadence.min] /\ on \subseteq Channels
    /\ post \in [Posts -> {"absent", "coming", "ready", "published", "duplicate"}]
    /\ label \in [Posts -> Labels]
    /\ Len(out) <= Cardinality(Posts) /\ ToSet(out) = {p \in Posts : post[p] = "published"}
    /\ IsInjective(out)
    /\ job.of \in Posts \union {Pool, Nothing} /\ job.covered \subseteq job.chans
    /\ job.of \in Posts => post[job.of] = "ready"
    /\ left \in [{"faults", "switches", "covers", "demotions"} -> Nat]

\* A theme with a history longer ago than any interval, or without one.
Init ==
    /\ now = 0 /\ on = Channels
    /\ \E s \in Scenes :
          /\ cadence = s.cadence /\ stock = s.stock /\ auto = s.auto /\ left = s.left
          /\ since = [c \in Channels |-> s.cadence.min]
          /\ post = [p \in Posts |-> IF p \in s.posts THEN "coming" ELSE "absent"]
    /\ label = [p \in Posts |-> "none"]
    /\ out = <<>> /\ job = Idle
    /\ \/ part = "days" /\ batch = [eligible |-> <<>>, count |-> 1, list |-> <<>>]
       \/ /\ part = "batch" /\ Range(post) = {"absent"}
          /\ batch \in [eligible : Pools, count : Counts, list : Menus]

-----------------------------------------------------------------------------
Hour(t) == (t \div 2) % Hours

\* is_quiet_hour: the night may be past midnight; equal ends are no night.
Quiet(t) ==
    CASE cadence.from = cadence.to -> FALSE
      [] cadence.from < cadence.to -> Hour(t) \in cadence.from .. cadence.to - 1
      [] OTHER -> Hour(t) >= cadence.from \/ Hour(t) < cadence.to

\* The hours in which something may come out.
Awake == {h \in 0 .. Hours - 1 : ~Quiet(2 * h)}

\* Mutant of LastAgo: the last publication of one of the channels.
LastAgoFirst(chans) == since[CHOOSE c \in chans : TRUE]

\* _last_publication_at: of all these channels.
LastAgo(chans) == Min({since[c] : c \in chans})

\* publish_pool_job passes a bot over that does not publish by itself or has no channel;
\* is_due: the interval runs from the last publication, whatever it was.
Due == auto /\ on # {} /\ ~Quiet(now) /\ LastAgo(on) >= cadence.min

-----------------------------------------------------------------------------
Ready == {p \in Posts : post[p] = "ready"}

\* recent_rubrics: of the candidates that count as published, those with a rubric; the
\* k-th of them is the one that has k - 1 of them before it.
Recent ==
    LET labelled == {i \in DOMAIN out : label[out[i]] # "none"}
        Nth(k) == CHOOSE i \in labelled : Cardinality({j \in labelled : j < i}) = k - 1
    IN [k \in 1 .. Min({Window, Cardinality(labelled)}) |-> label[out[Nth(k)]]]

\* Published candidates that recent_rubrics does not look at: those without a rubric, and
\* those with as many labelled ones after them as it looks at.
Past == {out[i] : i \in {i \in DOMAIN out :
            \/ label[out[i]] = "none"
            \/ Cardinality({j \in 1 .. i - 1 : label[out[j]] # "none"}) >= Window}}

Spend(k) == left[k] > 0 /\ left' = [left EXCEPT ![k] = @ - 1]

Clock ==
    /\ now' = (now + 1) % (2 * Hours)
    /\ since' = [c \in Channels |-> IF since[c] < cadence.min THEN since[c] + 1 ELSE cadence.min]
    /\ UNCHANGED <<cadence, stock, auto, on, post, label, out, job, left>>

\* A rewritten candidate, put under a rubric of the list of the time. Their order is
\* any, so the posts come in a fixed one.
Arrive(p) ==
    /\ post[p] = "coming" /\ \A q \in Posts : post[q] = "coming" => p <= q
    /\ post' = [post EXCEPT ![p] = "ready"]
    /\ \E list \in Menus, answer \in Answers : label' = [label EXCEPT ![p] = Classify(list, answer)]
    /\ UNCHANGED <<cadence, stock, auto, now, since, on, out, job, left>>

\* Posts keep coming for ever: a published one that makes no difference any more (nor
\* could, were another demoted) stands for a new one from now on.
Renew(p) ==
    /\ post[p] = "published" /\ p \in Past /\ left["demotions"] = 0
    /\ post' = [post EXCEPT ![p] = "coming"]
    /\ out' = RemoveFirst(out, p)
    /\ UNCHANGED <<cadence, stock, auto, now, since, on, label, job, left>>

\* Mutant of JobPicks: the first of them and no other, as if the others had no weight.
JobPicksFirst(p) ==
    /\ job = Idle /\ Due
    /\ p \in Ready /\ p \in Freshest(Ready, label, Recent) /\ \A q \in Freshest(Ready, label, Recent) : p <= q
    /\ job' = [of |-> p, chans |-> on, covered |-> {}]
    /\ UNCHANGED <<cadence, stock, auto, now, since, on, post, label, out, left>>

\* _pick_weighted_candidate: any of the stalest rubric, as no weight is 0.
JobPicks(p) ==
    /\ job = Idle /\ Due
    /\ p \in Ready /\ p \in Freshest(Ready, label, Recent)
    /\ job' = [of |-> p, chans |-> on, covered |-> {}]
    /\ UNCHANGED <<cadence, stock, auto, now, since, on, post, label, out, left>>

\* The pool fills the slot only when no candidate is ready.
JobTakesPool ==
    /\ job = Idle /\ Due /\ Ready = {} /\ stock
    /\ job' = [of |-> Pool, chans |-> on, covered |-> {}]
    /\ UNCHANGED <<cadence, stock, auto, now, since, on, post, label, out, left>>

\* Mutant of JobCommits: the candidate's status is forgotten.
JobCommitsStatusless ==
    /\ job # Idle
    /\ since' = [c \in Channels |-> IF c \in job.chans THEN 0 ELSE since[c]]
    /\ out' = IF job.of = Pool THEN out ELSE <<job.of>> \o out
    /\ job' = Idle
    /\ UNCHANGED <<cadence, stock, auto, now, on, post, label, left>>

\* Sent to every channel the tick has listed, and committed.
JobCommits ==
    /\ job # Idle
    /\ since' = [c \in Channels |-> IF c \in job.chans THEN 0 ELSE since[c]]
    /\ IF job.of = Pool THEN UNCHANGED <<post, out>>
       ELSE /\ post' = [post EXCEPT ![job.of] = "published"]
            /\ out' = <<job.of>> \o out
    /\ job' = Idle
    /\ UNCHANGED <<cadence, stock, auto, now, on, label, left>>

JobFails ==
    /\ job # Idle /\ Spend("faults")
    /\ job' = Idle
    /\ UNCHANGED <<cadence, stock, auto, now, since, on, post, label, out>>

\* The watchdog covers a foreign post, when that is due.
Cover(c) ==
    /\ c \in on /\ stock /\ Spend("covers")
    /\ since' = [since EXCEPT ![c] = 0]
    /\ job' = [job EXCEPT !.covered = @ \union ({c} \intersect job.chans)]
    /\ UNCHANGED <<cadence, stock, auto, now, on, post, label, out>>

\* The panel switches a channel on or off.
Switch(c) ==
    /\ Spend("switches")
    /\ on' = IF c \in on THEN on \ {c} ELSE on \union {c}
    /\ UNCHANGED <<cadence, stock, auto, now, since, post, label, out, job>>

\* ... or automatic publication.
SwitchAuto ==
    /\ Spend("switches")
    /\ auto' = ~auto
    /\ UNCHANGED <<cadence, stock, now, since, on, post, label, out, job>>

\* The rewriting tick finds a stronger newcomer: the published post is a duplicate.
Demote(p) ==
    /\ post[p] = "published" /\ Spend("demotions")
    /\ post' = [post EXCEPT ![p] = "duplicate"]
    /\ out' = RemoveFirst(out, p)
    /\ UNCHANGED <<cadence, stock, auto, now, since, on, label, job>>

DayNext ==
    \/ Clock
    \/ \E p \in Posts : Arrive(p) \/ Renew(p) \/ JobPicks(p) \/ Demote(p)
    \/ JobTakesPool \/ JobCommits \/ JobFails \/ SwitchAuto
    \/ \E c \in Channels : Cover(c) \/ Switch(c)

Next == part = "days" /\ DayNext /\ UNCHANGED <<part, batch>>

Daily(A) == part = "days" /\ A /\ UNCHANGED <<part, batch>>

\* Time passes; the job comes every minute of every half hour; what it has picked is
\* sent or fails (timeouts); and a post that is drawn again and again is drawn.
Fairness ==
    /\ WF_vars(Daily(Clock))
    /\ WF_vars(Daily(JobCommits))
    /\ \A p \in Posts : SF_vars(Daily(JobPicks(p)))

Spec == Init /\ [][Next]_vars /\ Fairness

-----------------------------------------------------------------------------
\* _forecast_slots, from the publications of all channels, as times from now.
Available == Cardinality(Ready) + (IF stock THEN 1 ELSE 0)
Step == Max({(cadence.min + cadence.max) \div 2, 1})

\* Mutant of Cursor: the forecast forgets when the last post was out.
CursorNow == 0
Cursor == Max({0, cadence.min - LastAgo(Channels)})

\* Out of the quiet hours by whole hours, at most 24 of them.
Shifted(t) == t + 2 * Min({k \in 0 .. 24 : k = 24 \/ ~Quiet(now + t + 2 * k)})

Slot[k \in 1 .. MaxSlots] == Shifted(IF k = 1 THEN Cursor ELSE Slot[k - 1] + Step)

Slots == {k \in 1 .. MaxSlots : k <= Available /\ Slot[k] <= Horizon}

-----------------------------------------------------------------------------
\* The forecast is one the job would keep to: no slot in the quiet hours, unless there is
\* no hour but quiet ones; none earlier than the interval allows, unless the cadence says
\* less for the longest interval than for the shortest; and with all channels on and
\* automatic publication on, it says "now" exactly when the job would publish (queue.py:
\* the panel shows these times, also of a bot that does not publish by itself).
ForecastHonest ==
    /\ \A k \in Slots :
          /\ Awake # {} => ~Quiet(now + Slot[k])
          /\ k = 1 => Slot[k] + LastAgo(Channels) >= cadence.min
          /\ k > 1 /\ cadence.min <= cadence.max => Slot[k] - Slot[k - 1] >= cadence.min
    /\ on = Channels /\ auto /\ Available > 0 => (Due <=> Slot[1] = 0)

\* Whatever channels are switched on and off, a post of the schedule comes to no
\* channel earlier after its last publication than the interval allows, but where a
\* cover came between the check and the post (is_due; publish_pool_job).
SpacedOut ==
    [][JobCommits => \A c \in job.chans \ job.covered : since[c] >= cadence.min]_vars

\* A rubric is not out twice running while a ready post has another, or none
\* (freshest_by_rubric), by the posts that still count as published.
NoRepeatWhileOther ==
    [][\A p \in Posts :
         JobPicks(p) /\ Recent # <<>> /\ label[p] = Recent[1] => \A q \in Ready : label[q] = label[p]]_vars

\* A post that is ready, while something may come out, and that either has no rubric of
\* those that were out lately or is not beside a ready post without one.
HasItsTurn(p) ==
    /\ auto /\ on # {} /\ Awake # {} /\ p \in Ready
    /\ label[p] \notin ToSet(Recent) \/ \A q \in Ready \ {p} : label[q] # "none"

\* No such post is kept back for ever, however many others keep coming (freshest_by_rubric:
\* what has no rubric must not wait for ever). What may wait for ever is a post of a rubric
\* that was out lately, beside posts without one: these change nothing of what was out
\* lately (recent_rubrics) and always count as the stalest.
EveryReadyPostGoesOut == \A p \in Posts : []<> ~HasItsTurn(p)

\* A batch has as many posts of each rubric as of any other but one, unless they run
\* out, and of each the best (force_generate.py: not five posts about one thing).
BatchBalanced ==
    LET e == batch.eligible
        taken == Chosen(e, batch.count, batch.list)
        of(n) == {i \in taken : e[i] = n}
        pool == 1 .. Min({Len(e), batch.count * PoolFactor, MaxPool})
    IN part = "batch" =>
        /\ Cardinality(taken) = Min({Len(e), batch.count, MaxPool})
        /\ \A i \in taken, j \in pool \ taken : e[i] = e[j] => i < j
        /\ batch.list # <<>> =>
              \A i \in taken, j \in pool \ taken : Cardinality(of(e[i])) <= Cardinality(of(e[j])) + 1
=============================================================================
