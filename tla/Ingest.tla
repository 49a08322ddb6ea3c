------------------------------- MODULE Ingest -------------------------------
(***************************************************************************)
(* How the posts of the source channels reach the table of candidates: the *)
(* live reader (interfaces/telethon_workers/main.py), which forgets what   *)
(* it missed, and the readers of the history behind it: the periodic       *)
(* backfill and the one a forced generation starts (backfill.py), both     *)
(* through receive_post (ingest_candidates.py). The panel switches sources *)
(* off, takes their session or theme away, deletes and adds them.          *)
(* A candidate is the number of its message; nothing is said of its text.  *)
(***************************************************************************)
EXTENDS Integers, FiniteSets, FiniteSetsExt

CONSTANTS
    Sources,
    MaxPost,        \* bound: messages in a channel
    BatchLimit,     \* limit of backfill_source_channel
    Scenes          \* the sources there are, the messages they begin with, and the
                    \* bounds on edits in the panel, failures and forced generations

ASSUME IngestAssumption ==
    /\ IsFiniteSet(Sources)
    /\ {MaxPost, BatchLimit} \subseteq Nat \ {0}
    /\ Scenes \subseteq [present : SUBSET Sources, posted : 0 .. MaxPost, left : [edits : [Sources -> Nat], trouble : Nat, manual : Nat]]

VARIABLES
    source,         \* committed row of each source channel
    rows,           \* committed candidates of each source
    posted,         \* the last message of each channel
    worker,         \* the live reader: the channels subscribed to, and whether it runs
    inbox,          \* messages delivered to the live reader
    bf,             \* the readers of the history
    horizon,        \* where the first scans that were committed leave off: the highest of
                    \* their first messages
    missed,         \* messages refused because the source was off
    left            \* how much of each bound is left

ingestVars == <<source, rows, posted, worker, inbox, bf, horizon, missed, left>>

Readers == {"tick", "manual"}
Messages == 1 .. MaxPost
Marks == 0 .. MaxPost       \* 0: none

\* "idle": the theme is off or no session assigned; "off": is_active is false.
SourceStatus == {"on", "idle", "off", "deleted"}

IngestTypeOK ==
    /\ source \in [Sources -> [status : SourceStatus, mark : Marks]]
    /\ rows \in [Sources -> SUBSET Messages]
    /\ posted \in [Sources -> Marks]
    /\ worker \in [list : SUBSET Sources, up : BOOLEAN]
    /\ inbox \subseteq Sources \X Messages
    /\ bf \in [Readers -> [pc : {"idle", "next", "look", "insert"},
                           queue : SUBSET Sources, of : SUBSET Sources,
                           loaded : [Sources -> Marks], gone : SUBSET Sources,
                           batch : SUBSET Messages, top : Marks, low : Marks,
                           pending : SUBSET (Sources \X Messages),
                           marks : [Sources -> Marks], lows : [Sources -> Marks]]]
    /\ horizon \in [Sources -> Marks]
    /\ missed \in [Sources -> SUBSET Messages]
    /\ left \in [edits : [Sources -> Nat], trouble : Nat, manual : Nat]

Zero == [s \in Sources |-> 0]
Rested == [pc |-> "idle", queue |-> {}, of |-> {}, loaded |-> Zero, gone |-> {}, batch |-> {},
           top |-> 0, low |-> 0, pending |-> {}, marks |-> Zero, lows |-> Zero]

IngestInit ==
    /\ \E scene \in Scenes :
          /\ source = [s \in Sources |->
                [status |-> IF s \in scene.present THEN "on" ELSE "deleted", mark |-> 0]]
          /\ posted = [s \in Sources |-> IF s \in scene.present THEN scene.posted ELSE MaxPost]
          /\ left = scene.left
    /\ rows = [s \in Sources |-> {}]
    /\ worker = [list |-> {}, up |-> FALSE]
    /\ inbox = {}
    /\ bf = [r \in Readers |-> Rested]
    /\ horizon = Zero
    /\ missed = [s \in Sources |-> {}]

Read == {s \in Sources : source[s].status = "on"}

\* receive_post asks only whether the source is active, not for its theme.
Accepting(s) == source[s].status \in {"on", "idle"}

\* Messages of s that a reader has inserted and not committed.
Uncommitted(s) == {m \in Messages : \E r \in Readers : <<s, m>> \in bf[r].pending}

\* The row of s is locked by a reader that has written its watermark.
RowLocked(s) == \E r \in Readers : bf[r].marks[s] # 0

\* One more failure.
Trouble == left.trouble > 0 /\ left' = [left EXCEPT !.trouble = @ - 1]

-----------------------------------------------------------------------------
\* A message is published; a live reader that is subscribed is told of it.
Post(s) ==
    /\ posted[s] < MaxPost
    /\ posted' = [posted EXCEPT ![s] = @ + 1]
    /\ inbox' = IF worker.up /\ s \in worker.list
                THEN inbox \union {<<s, posted[s] + 1>>} ELSE inbox
    /\ UNCHANGED <<source, rows, worker, bf, horizon, missed, left>>

\* Mutant of Live: the live reader moves the watermark as well.
LiveMarks(s, m) ==
    /\ <<s, m>> \in inbox
    /\ m \notin Uncommitted(s) /\ ~RowLocked(s)
    /\ inbox' = inbox \ {<<s, m>>}
    /\ IF Accepting(s)
       THEN /\ rows' = [rows EXCEPT ![s] = @ \union {m}]
            /\ source' = [source EXCEPT ![s].mark = IF @ < m THEN m ELSE @]
            /\ UNCHANGED missed
       ELSE missed' = [missed EXCEPT ![s] = @ \union {m}] /\ UNCHANGED <<rows, source>>
    /\ UNCHANGED <<posted, worker, bf, horizon, left>>

\* _on_new_message: receive_post in a session of its own. The insertion waits for a
\* session that has inserted the same message, and is refused if that one commits.
Live(s, m) ==
    /\ <<s, m>> \in inbox
    /\ m \notin Uncommitted(s)
    /\ inbox' = inbox \ {<<s, m>>}
    /\ IF Accepting(s)
       THEN rows' = [rows EXCEPT ![s] = @ \union {m}] /\ UNCHANGED missed
       ELSE missed' = [missed EXCEPT ![s] = @ \union {m}] /\ UNCHANGED rows
    /\ UNCHANGED <<source, posted, worker, bf, horizon, left>>

\* Storing a message fails: the live reader does not try again.
LiveFails(s, m) ==
    /\ <<s, m>> \in inbox /\ Trouble
    /\ inbox' = inbox \ {<<s, m>>}
    /\ UNCHANGED <<source, rows, posted, worker, bf, horizon, missed>>

\* The connection is lost, or the process restarted.
Disconnect ==
    /\ worker.up /\ Trouble
    /\ worker' = [worker EXCEPT !.up = FALSE]
    /\ inbox' = {}
    /\ UNCHANGED <<source, rows, posted, bf, horizon, missed>>

\* supervise_session_worker starts it again, after its backoff, with the same list.
Supervise ==
    /\ ~worker.up /\ worker.list # {}
    /\ worker' = [worker EXCEPT !.up = TRUE]
    /\ UNCHANGED <<source, rows, posted, inbox, bf, horizon, missed, left>>

\* reconcile_loop: a changed list replaces the reader.
Reconcile ==
    /\ worker.list # Read
    /\ worker' = [list |-> Read, up |-> Read # {}]
    /\ UNCHANGED <<source, rows, posted, inbox, bf, horizon, missed, left>>

-----------------------------------------------------------------------------
\* backfill_job, or ForceGenerateService._backfill: the sources to read are loaded
\* with their watermarks, and not again.
BfStart(r) ==
    /\ bf[r].pc = "idle" /\ Read # {}
    /\ r = "manual" => left.manual > 0
    /\ left' = IF r = "manual" THEN [left EXCEPT !.manual = @ - 1] ELSE left
    /\ bf' = [bf EXCEPT ![r] = [Rested EXCEPT !.pc = "next", !.queue = Read,
                                  !.loaded = [s \in Sources |-> source[s].mark]]]
    /\ UNCHANGED <<source, rows, posted, worker, inbox, horizon, missed>>

After(s, mark) == {m \in Messages : mark < m /\ m <= posted[s]}
Oldest(ms) == {m \in ms : Cardinality({n \in ms : n < m}) < BatchLimit}
Newest(ms) == {m \in ms : Cardinality({n \in ms : n > m}) < BatchLimit}

\* Mutant of Fetched: the history is read once, when the channel is added.
FetchedOnce(s, mark) == IF mark = 0 THEN Newest(After(s, mark)) ELSE {}

\* get_recent_messages without a watermark, else get_messages_after.
Fetched(s, mark) == IF mark = 0 THEN Newest(After(s, mark)) ELSE Oldest(After(s, mark))

\* The history of the next source.
BfFetch(r, s) ==
    /\ bf[r].pc = "next" /\ s \in bf[r].queue
    /\ LET batch == Fetched(s, bf[r].loaded[s]) IN
          bf' = IF batch = {} THEN [bf EXCEPT ![r].queue = @ \ {s}]
                ELSE [bf EXCEPT ![r].pc = "look", ![r].queue = @ \ {s}, ![r].of = {s},
                                ![r].batch = batch, ![r].top = Max(batch),
                                ![r].low = IF bf[r].loaded[s] = 0 THEN Min(batch) ELSE 0]
    /\ UNCHANGED <<source, rows, posted, worker, inbox, horizon, missed, left>>

\* Telegram fails: logged, and the next source is read.
BfUnread(r, s) ==
    /\ bf[r].pc = "next" /\ s \in bf[r].queue /\ Trouble
    /\ bf' = [bf EXCEPT ![r].queue = @ \ {s}]
    /\ UNCHANGED <<source, rows, posted, worker, inbox, horizon, missed>>

\* receive_post: a source that is off by now refuses; a row seen before is no news.
BfLook(r, s) ==
    /\ bf[r].pc = "look" /\ bf[r].of = {s} /\ bf[r].batch # {}
    /\ LET m == Min(bf[r].batch) IN
          /\ bf' = IF Accepting(s) /\ m \notin rows[s] THEN [bf EXCEPT ![r].pc = "insert"]
                   ELSE [bf EXCEPT ![r].batch = @ \ {m}]
          /\ missed' = IF Accepting(s) THEN missed ELSE [missed EXCEPT ![s] = @ \union {m}]
    /\ UNCHANGED <<source, rows, posted, worker, inbox, horizon, left>>

\* The insertion waits for another session that has inserted the same message.
BfInsert(r, s) ==
    /\ bf[r].pc = "insert" /\ bf[r].of = {s} /\ source[s].status # "deleted"
    /\ LET m == Min(bf[r].batch) IN
          /\ m \notin rows[s] \union Uncommitted(s)
          /\ bf' = [bf EXCEPT ![r].pc = "look", ![r].batch = @ \ {m},
                              ![r].pending = @ \union {<<s, m>>}]
    /\ UNCHANGED <<source, rows, posted, worker, inbox, horizon, missed, left>>

\* What r has inserted and written is committed, with the watermarks `marks'.
Committed(r, marks, lows) ==
    /\ rows' = [s \in Sources |-> rows[s] \union {m \in Messages : <<s, m>> \in bf[r].pending}]
    /\ source' = [s \in Sources |->
                     IF marks[s] # 0 THEN [source[s] EXCEPT !.mark = marks[s]] ELSE source[s]]
    /\ horizon' = [s \in Sources |-> IF lows[s] > horizon[s] THEN lows[s] ELSE horizon[s]]

\* Mutant of BfMark: the tick commits once, at its end.
BfMarkOpen(r, s) ==
    /\ bf[r].pc = "look" /\ bf[r].of = {s} /\ bf[r].batch = {}
    /\ s \notin bf[r].gone /\ ~RowLocked(s)
    /\ bf' = [bf EXCEPT ![r].pc = "next", ![r].of = {},
                        ![r].marks[s] = bf[r].top, ![r].lows[s] = bf[r].low]
    /\ UNCHANGED <<source, rows, horizon, posted, worker, inbox, missed, left>>

\* The watermark is written; the tick commits source by source (a forced generation
\* only with the posts it makes).
BfMark(r, s) ==
    /\ bf[r].pc = "look" /\ bf[r].of = {s} /\ bf[r].batch = {}
    /\ s \notin bf[r].gone /\ ~RowLocked(s)
    /\ LET marks == [bf[r].marks EXCEPT ![s] = bf[r].top]
           lows == [bf[r].lows EXCEPT ![s] = bf[r].low]
       IN  IF r = "tick"
           THEN /\ Committed(r, marks, lows)
                /\ bf' = [bf EXCEPT ![r].pc = "next", ![r].of = {}, ![r].pending = {}]
           ELSE /\ bf' = [bf EXCEPT ![r].pc = "next", ![r].of = {},
                                    ![r].marks = marks, ![r].lows = lows]
                /\ UNCHANGED <<source, rows, horizon>>
    /\ UNCHANGED <<posted, worker, inbox, missed, left>>

\* Every source has been read, and a forced generation is committed.
BfEnd(r) ==
    /\ bf[r].pc = "next" /\ bf[r].queue = {}
    /\ Committed(r, bf[r].marks, bf[r].lows)
    /\ bf' = [bf EXCEPT ![r] = Rested]
    /\ UNCHANGED <<posted, worker, inbox, missed, left>>

\* The insertion finds the message inserted, or its source deleted, or the watermark
\* no row: the session is rolled back. Its objects expire with that, and the next
\* one touched, even to log the error, ends the whole tick or request.
BfLost(r, s) ==
    /\ bf[r].of = {s}
    /\ \/ /\ bf[r].pc = "insert"
          /\ source[s].status = "deleted" \/ Min(bf[r].batch) \in rows[s]
       \/ bf[r].pc = "look" /\ bf[r].batch = {} /\ s \in bf[r].gone
    /\ bf' = [bf EXCEPT ![r] = Rested]
    /\ UNCHANGED <<source, rows, posted, worker, inbox, horizon, missed, left>>

\* Any other error, or a restart.
BfFails(r) ==
    /\ bf[r].pc # "idle" /\ Trouble
    /\ bf' = [bf EXCEPT ![r] = Rested]
    /\ UNCHANGED <<source, rows, posted, worker, inbox, horizon, missed>>

-----------------------------------------------------------------------------
\* The panel: a source is switched off and on, loses and gets its session or theme.
Switch(s) ==
    /\ left.edits[s] > 0 /\ source[s].status # "deleted" /\ ~RowLocked(s)
    /\ left' = [left EXCEPT !.edits[s] = @ - 1]
    /\ \E to \in {"on", "idle", "off"} \ {source[s].status} :
          source' = [source EXCEPT ![s].status = to]
    /\ UNCHANGED <<rows, posted, worker, inbox, bf, horizon, missed>>

\* delete_source_channel: the candidates go with it. It waits for the sessions that
\* have inserted some or written the row.
Delete(s) ==
    /\ left.edits[s] > 0 /\ source[s].status # "deleted"
    /\ ~RowLocked(s) /\ Uncommitted(s) = {}
    /\ left' = [left EXCEPT !.edits[s] = @ - 1]
    /\ source' = [source EXCEPT ![s] = [status |-> "deleted", mark |-> 0]]
    /\ rows' = [rows EXCEPT ![s] = {}]
    /\ horizon' = [horizon EXCEPT ![s] = 0]
    /\ missed' = [missed EXCEPT ![s] = {}]
    /\ bf' = [r \in Readers |-> [bf[r] EXCEPT !.gone = IF bf[r].pc = "idle" THEN {} ELSE @ \union {s}]]
    /\ UNCHANGED <<posted, worker, inbox>>

\* create_source_channel: the same channel added again, with nothing scanned.
Create(s) ==
    /\ left.edits[s] > 0 /\ source[s].status = "deleted"
    /\ left' = [left EXCEPT !.edits[s] = @ - 1]
    /\ source' = [source EXCEPT ![s].status = "on"]
    /\ UNCHANGED <<rows, posted, worker, inbox, bf, horizon, missed>>

LiveNext ==
    \/ \E s \in Sources, m \in Messages : Live(s, m) \/ LiveFails(s, m)
    \/ Disconnect
    \/ Supervise
    \/ Reconcile

BfWork(r) ==
    \/ \E s \in Sources : \/ BfFetch(r, s)
                         \/ BfLook(r, s)
                         \/ BfInsert(r, s)
                         \/ BfMark(r, s)
                         \/ BfLost(r, s)
    \/ BfEnd(r)

BfNext ==
    \E r \in Readers :
        \/ BfStart(r)
        \/ BfWork(r)
        \/ \E s \in Sources : BfUnread(r, s)
        \/ BfFails(r)

PanelNext == \E s \in Sources : Switch(s) \/ Delete(s) \/ Create(s)

IngestNext ==
    \/ \E s \in Sources : Post(s)
    \/ LiveNext
    \/ BfNext
    \/ PanelNext
=============================================================================
