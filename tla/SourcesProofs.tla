---------------------------- MODULE SourcesProofs ----------------------------
(***************************************************************************)
(* SourceChannels for any sources, messages and limits: the tables have    *)
(* their types, the watermark passes no message over, and the tick never   *)
(* has the posts of two sources at stake.                                  *)
(***************************************************************************)
EXTENDS SourceChannels, FiniteSetTheorems, WellFoundedInduction, TLAPS

-----------------------------------------------------------------------------
\* Sets of numbers have a least and, when bounded, a greatest member.
LEMMA Least ==
    ASSUME NEW T, T \subseteq Nat, T # {}
    PROVE  \E x \in T : \A y \in T : x <= y
<1> DEFINE R == {ss \in Nat \X Nat : ss[1] < ss[2]}
<1>1. IsWellFoundedOn(R, Nat)
  BY NatLessThanWellFounded DEF OpToRel
<1>2. PICK x \in T : \A y \in T : ~ (<<y, x>> \in R)
  <2> HIDE DEF R
  <2> QED
    BY <1>1, WFMin
<1>3. ASSUME NEW y \in T PROVE x <= y
  <2>1. x \in Nat /\ y \in Nat
    OBVIOUS
  <2>2. y < x => <<y, x>> \in R
    BY <2>1
  <2>3. QED
    BY <1>2, <2>1, <2>2
<1>4. QED
  BY <1>3

LEMMA Greatest ==
    ASSUME NEW n \in Nat, NEW T, T \subseteq 0 .. n, T # {}
    PROVE  \E x \in T : \A y \in T : x >= y
<1> DEFINE D == {n - y : y \in T}
<1>1. D \subseteq Nat /\ D # {}
  <2>1. \A y \in T : n - y \in Nat
    OBVIOUS
  <2>2. QED
    BY <2>1
<1>2. PICK d \in D : \A e \in D : d <= e
  <2> HIDE DEF D
  <2> QED
    BY <1>1, Least
<1>3. PICK x \in T : d = n - x
  OBVIOUS
<1>4. ASSUME NEW y \in T PROVE x >= y
  <2>1. n - y \in D
    OBVIOUS
  <2>2. n - x <= n - y
    BY <1>2, <1>3, <2>1
  <2>3. QED
    BY <2>2
<1>5. QED
  BY <1>4

LEMMA MessagesNat == MaxPost \in Nat /\ Messages \subseteq Marks /\ Marks \subseteq Nat /\ 0 \in Marks
  BY IngestAssumption DEF Messages, Marks

LEMMA MinMax ==
    ASSUME NEW T, T \subseteq Messages, T # {}
    PROVE  /\ Min(T) \in T /\ \A m \in T : Min(T) <= m
           /\ Max(T) \in T /\ \A m \in T : m <= Max(T)
<1>1. T \subseteq Nat /\ T \subseteq 0 .. MaxPost /\ MaxPost \in Nat
  BY MessagesNat DEF Messages
<1>2. \E x \in T : \A y \in T : x <= y
  BY <1>1, Least
<1>3. \E x \in T : \A y \in T : x >= y
  BY <1>1, Greatest
<1>4. Min(T) \in T /\ \A m \in T : Min(T) <= m
  BY <1>2 DEF Min
<1>5. Max(T) \in T /\ \A m \in T : Max(T) >= m
  BY <1>3 DEF Max
<1>6. QED
  BY <1>1, <1>4, <1>5

\* What is fetched has no gaps: the newest messages up to the last, the oldest after the
\* watermark.
LEMMA NewestClosed ==
    ASSUME NEW ms, ms \subseteq Messages, NEW l \in Newest(ms), NEW m \in ms, l <= m
    PROVE  m \in Newest(ms)
<1> DEFINE Over(k) == {n \in ms : n > k}
<1>1. IsFiniteSet(ms) /\ ms \subseteq Nat
  <2>1. IsFiniteSet(Messages)
    BY IngestAssumption, FS_Interval DEF Messages
  <2>2. QED
    BY <2>1, FS_Subset, MessagesNat
<1>2. l \in ms /\ Cardinality(Over(l)) < BatchLimit
  BY DEF Newest
<1>3. IsFiniteSet(Over(l)) /\ Over(m) \subseteq Over(l)
  <2>1. Over(l) \subseteq ms
    OBVIOUS
  <2>2. ASSUME NEW n \in Over(m) PROVE n \in Over(l)
    <3>1. n \in Nat /\ m \in Nat /\ l \in Nat /\ n > m /\ n \in ms
      BY <1>1, <1>2
    <3>2. n > l
      BY <3>1
    <3>3. QED
      BY <3>1, <3>2
  <2>3. QED
    BY <1>1, <2>1, <2>2, FS_Subset
<1>4. /\ Cardinality(Over(m)) <= Cardinality(Over(l)) /\ Cardinality(Over(m)) \in Nat
      /\ Cardinality(Over(l)) \in Nat
  BY <1>3, FS_Subset, FS_CardinalityType
<1>5. Cardinality(Over(m)) < BatchLimit
  BY <1>2, <1>4, IngestAssumption
<1>6. QED
  BY <1>5 DEF Newest

LEMMA OldestClosed ==
    ASSUME NEW ms, ms \subseteq Messages, NEW h \in Oldest(ms), NEW m \in ms, m <= h
    PROVE  m \in Oldest(ms)
<1> DEFINE Under(k) == {n \in ms : n < k}
<1>1. IsFiniteSet(ms) /\ ms \subseteq Nat
  <2>1. IsFiniteSet(Messages)
    BY IngestAssumption, FS_Interval DEF Messages
  <2>2. QED
    BY <2>1, FS_Subset, MessagesNat
<1>2. h \in ms /\ Cardinality(Under(h)) < BatchLimit
  BY DEF Oldest
<1>3. IsFiniteSet(Under(h)) /\ Under(m) \subseteq Under(h)
  <2>1. Under(h) \subseteq ms
    OBVIOUS
  <2>2. ASSUME NEW n \in Under(m) PROVE n \in Under(h)
    <3>1. n \in Nat /\ m \in Nat /\ h \in Nat /\ n < m /\ n \in ms
      BY <1>1, <1>2
    <3>2. n < h
      BY <3>1
    <3>3. QED
      BY <3>1, <3>2
  <2>3. QED
    BY <1>1, <2>1, <2>2, FS_Subset
<1>4. /\ Cardinality(Under(m)) <= Cardinality(Under(h)) /\ Cardinality(Under(m)) \in Nat
      /\ Cardinality(Under(h)) \in Nat
  BY <1>3, FS_Subset, FS_CardinalityType
<1>5. Cardinality(Under(m)) < BatchLimit
  BY <1>2, <1>4, IngestAssumption
<1>6. QED
  BY <1>5 DEF Oldest

-----------------------------------------------------------------------------
ReaderSet ==
    [pc : {"idle", "next", "look", "insert"},
     queue : SUBSET Sources, of : SUBSET Sources,
     loaded : [Sources -> Marks], gone : SUBSET Sources,
     batch : SUBSET Messages, top : Marks, low : Marks,
     pending : SUBSET (Sources \X Messages),
     marks : [Sources -> Marks], lows : [Sources -> Marks]]

\* What is known of a source: its candidates, and what it refused.
Known(s, m) == m \in rows[s] \/ m \in missed[s]

\* A reader at work on a source that is still the one it has loaded.
LoadedCovers(r) ==
    \A s \in Sources \ bf[r].gone : bf[r].loaded[s] # 0 =>
        /\ horizon[s] >= 1
        /\ \A m \in Messages : horizon[s] <= m /\ m <= bf[r].loaded[s] => Known(s, m)

BatchCovers(r) ==
    \A s \in Sources \ bf[r].gone : bf[r].pc \in {"look", "insert"} /\ bf[r].of = {s} =>
        /\ horizon[s] >= 1 \/ bf[r].low >= 1
        /\ \A m \in Messages : horizon[s] <= m /\ bf[r].low <= m /\ m <= bf[r].top =>
              Known(s, m) \/ <<s, m>> \in bf[r].pending \/ m \in bf[r].batch

MarksCover(r) ==
    \A s \in Sources : bf[r].marks[s] # 0 =>
        /\ s \notin bf[r].gone
        /\ horizon[s] >= 1 \/ bf[r].lows[s] >= 1
        /\ \A m \in Messages : horizon[s] <= m /\ bf[r].lows[s] <= m /\ m <= bf[r].marks[s] =>
              Known(s, m) \/ <<s, m>> \in bf[r].pending

Covers(r) ==
    /\ bf[r].pc # "idle" => LoadedCovers(r) /\ BatchCovers(r)
    /\ MarksCover(r)
    /\ bf[r].pc = "insert" => bf[r].batch # {}

MarkCovers ==
    \A s \in Sources : source[s].mark # 0 =>
        /\ horizon[s] >= 1
        /\ \A m \in Messages : horizon[s] <= m /\ m <= source[s].mark => Known(s, m)

\* What the tick has inserted is of the source it reads.
TickHolds ==
    /\ bf["tick"].pc \in {"idle", "next"} => bf["tick"].pending = {}
    /\ \A e \in bf["tick"].pending : bf["tick"].of = {e[1]}

ReadInv == IngestTypeOK /\ MarkCovers /\ (\A r \in Readers : Covers(r)) /\ TickHolds

LEMMA ReaderTypes ==
    IngestTypeOK <=>
        /\ source \in [Sources -> [status : SourceStatus, mark : Marks]]
        /\ rows \in [Sources -> SUBSET Messages]
        /\ posted \in [Sources -> Marks]
        /\ worker \in [list : SUBSET Sources, up : BOOLEAN]
        /\ inbox \subseteq Sources \X Messages
        /\ bf \in [Readers -> ReaderSet]
        /\ horizon \in [Sources -> Marks]
        /\ missed \in [Sources -> SUBSET Messages]
        /\ left \in [edits : [Sources -> Nat], trouble : Nat, manual : Nat]
  BY DEF IngestTypeOK, ReaderSet

\* The first and the second reader.
LEMMA RestedOK == Rested \in ReaderSet /\ Zero \in [Sources -> Marks]
  BY MessagesNat DEF Rested, Zero, ReaderSet

\* More rows, more refusals and a higher horizon leave a reader's promise alone.
LEMMA GrowKeeps ==
    ASSUME horizon \in [Sources -> Marks], horizon' \in [Sources -> Marks],
           \A s \in Sources : rows[s] \subseteq rows'[s] /\ missed[s] \subseteq missed'[s]
                              /\ horizon[s] <= horizon'[s],
           NEW q \in Readers, bf \in [Readers -> ReaderSet], bf'[q] = bf[q], Covers(q)
    PROVE  Covers(q)'
<1>1. /\ \A s \in Sources : horizon[s] \in Nat /\ horizon'[s] \in Nat
      /\ \A m \in Messages : m \in Nat
      /\ bf[q] \in ReaderSet
  BY MessagesNat
<1>2. \A s \in Sources, m \in Messages :
         /\ Known(s, m) => (m \in rows'[s] \/ m \in missed'[s])
         /\ horizon'[s] <= m => horizon[s] <= m
  BY <1>1 DEF Known
<1>3. \A s \in Sources : horizon[s] >= 1 => horizon'[s] >= 1
  BY <1>1
<1>4. LoadedCovers(q) => LoadedCovers(q)'
  BY <1>2, <1>3 DEF LoadedCovers, Known
<1>5. BatchCovers(q) => BatchCovers(q)'
  BY <1>2, <1>3 DEF BatchCovers, Known
<1>6. MarksCover(q) => MarksCover(q)'
  BY <1>2, <1>3 DEF MarksCover, Known
<1>7. QED
  BY <1>4, <1>5, <1>6 DEF Covers

LEMMA GrowKeepsMark ==
    ASSUME horizon \in [Sources -> Marks], horizon' \in [Sources -> Marks],
           \A s \in Sources : /\ rows[s] \subseteq rows'[s] /\ missed[s] \subseteq missed'[s]
                              /\ horizon[s] <= horizon'[s] /\ source'[s].mark = source[s].mark,
           MarkCovers
    PROVE  MarkCovers'
<1>1. /\ \A s \in Sources : horizon[s] \in Nat /\ horizon'[s] \in Nat
      /\ \A m \in Messages : m \in Nat
  BY MessagesNat
<1>2. QED
  BY <1>1 DEF MarkCovers, Known

\* A step that changes no reader and takes nothing away.
LEMMA QuietKeepsReading ==
    ASSUME ReadInv, IngestTypeOK', UNCHANGED <<bf, horizon>>,
           \A s \in Sources : rows[s] \subseteq rows'[s] /\ missed[s] \subseteq missed'[s]
                              /\ source'[s].mark = source[s].mark
    PROVE  ReadInv'
<1>1. /\ horizon \in [Sources -> Marks] /\ bf \in [Readers -> ReaderSet]
      /\ \A s \in Sources : horizon[s] <= horizon'[s]
  <2>1. horizon \in [Sources -> Marks] /\ bf \in [Readers -> ReaderSet]
    BY ReaderTypes DEF ReadInv
  <2>2. \A s \in Sources : horizon[s] \in Nat
    BY <2>1, MessagesNat
  <2>3. QED
    BY <2>1, <2>2
<1>2. MarkCovers'
  BY <1>1, GrowKeepsMark DEF ReadInv
<1>3. ASSUME NEW q \in Readers PROVE Covers(q)'
  BY <1>1, <1>3, GrowKeeps DEF ReadInv
<1>4. TickHolds'
  BY DEF ReadInv, TickHolds
<1>5. QED
  BY <1>2, <1>3, <1>4 DEF ReadInv

-----------------------------------------------------------------------------
LEMMA QuietSteps ==
    ASSUME ReadInv, NEW s \in Sources,
           \/ Post(s) \/ Switch(s) \/ Create(s)
           \/ \E m \in Messages : Live(s, m) \/ LiveFails(s, m)
    PROVE  ReadInv'
<1>1. /\ source \in [Sources -> [status : SourceStatus, mark : Marks]]
      /\ rows \in [Sources -> SUBSET Messages] /\ posted \in [Sources -> Marks]
      /\ worker \in [list : SUBSET Sources, up : BOOLEAN] /\ inbox \subseteq Sources \X Messages
      /\ bf \in [Readers -> ReaderSet] /\ horizon \in [Sources -> Marks]
      /\ missed \in [Sources -> SUBSET Messages]
      /\ left \in [edits : [Sources -> Nat], trouble : Nat, manual : Nat]
  BY ReaderTypes DEF ReadInv
<1>2. ASSUME Post(s) PROVE ReadInv'
  <2>1. /\ posted[s] < MaxPost /\ posted' = [posted EXCEPT ![s] = @ + 1]
        /\ UNCHANGED <<source, rows, worker, bf, horizon, missed, left>>
        /\ inbox' = inbox \/ inbox' = inbox \union {<<s, posted[s] + 1>>}
    BY <1>2 DEF Post
  <2>2. posted[s] + 1 \in Messages /\ posted[s] + 1 \in Marks
    BY <1>1, <2>1, MessagesNat DEF Messages, Marks
  <2>3. posted' \in [Sources -> Marks] /\ inbox' \subseteq Sources \X Messages
    BY <1>1, <2>1, <2>2
  <2>4. IngestTypeOK'
    BY <1>1, <2>1, <2>3 DEF IngestTypeOK, ReaderSet
  <2>5. QED
    BY <2>1, <2>4, QuietKeepsReading
<1>3. ASSUME NEW m \in Messages, Live(s, m) PROVE ReadInv'
  <2>1. /\ UNCHANGED <<source, posted, worker, bf, horizon, left>> /\ inbox' \subseteq inbox
        /\ \/ rows' = [rows EXCEPT ![s] = @ \union {m}] /\ missed' = missed
           \/ missed' = [missed EXCEPT ![s] = @ \union {m}] /\ rows' = rows
    BY <1>3 DEF Live
  <2>2. /\ rows' \in [Sources -> SUBSET Messages] /\ missed' \in [Sources -> SUBSET Messages]
        /\ \A u \in Sources : rows[u] \subseteq rows'[u] /\ missed[u] \subseteq missed'[u]
    <3>1. (rows[s] \union {m}) \in SUBSET Messages /\ (missed[s] \union {m}) \in SUBSET Messages
      BY <1>1
    <3>2. CASE rows' = [rows EXCEPT ![s] = @ \union {m}] /\ missed' = missed
      <4>1. rows' = [rows EXCEPT ![s] = rows[s] \union {m}]
        BY <3>2
      <4>2. QED
        BY <1>1, <3>1, <3>2, <4>1
    <3>3. CASE missed' = [missed EXCEPT ![s] = @ \union {m}] /\ rows' = rows
      <4>1. missed' = [missed EXCEPT ![s] = missed[s] \union {m}]
        BY <3>3
      <4>2. QED
        BY <1>1, <3>1, <3>3, <4>1
    <3>4. QED
      BY <2>1, <3>2, <3>3
  <2>3. IngestTypeOK'
    BY <1>1, <2>1, <2>2 DEF IngestTypeOK, ReaderSet
  <2>4. QED
    BY <2>1, <2>2, <2>3, QuietKeepsReading
<1>4. ASSUME UNCHANGED <<source, rows, posted, bf, horizon, missed>>,
             worker' \in [list : SUBSET Sources, up : BOOLEAN], inbox' \subseteq inbox,
             left' \in [edits : [Sources -> Nat], trouble : Nat, manual : Nat]
      PROVE  ReadInv'
  <2>1. IngestTypeOK'
    BY <1>1, <1>4 DEF IngestTypeOK, ReaderSet
  <2>2. QED
    BY <1>4, <2>1, QuietKeepsReading
<1>5. Trouble => left' \in [edits : [Sources -> Nat], trouble : Nat, manual : Nat]
  BY <1>1 DEF Trouble
<1>6. ASSUME NEW m \in Messages, LiveFails(s, m) PROVE ReadInv'
  BY <1>1, <1>4, <1>5, <1>6 DEF LiveFails
<1>10. ASSUME Switch(s) \/ Create(s) PROVE ReadInv'
  <2>1. /\ UNCHANGED <<rows, posted, worker, inbox, bf, horizon, missed>>
        /\ left.edits[s] > 0 /\ left' = [left EXCEPT !.edits[s] = @ - 1]
        /\ \E to \in SourceStatus : source' = [source EXCEPT ![s].status = to]
    BY <1>10 DEF Switch, Create, SourceStatus
  <2>2. left' \in [edits : [Sources -> Nat], trouble : Nat, manual : Nat]
    BY <1>1, <2>1
  <2>3. /\ source' \in [Sources -> [status : SourceStatus, mark : Marks]]
        /\ \A u \in Sources : source'[u].mark = source[u].mark
    BY <1>1, <2>1
  <2>4. IngestTypeOK'
    BY <1>1, <2>1, <2>2, <2>3 DEF IngestTypeOK, ReaderSet
  <2>5. QED
    BY <2>1, <2>3, <2>4, QuietKeepsReading
<1>11. QED
  BY <1>2, <1>3, <1>6, <1>10

LEMMA WorkerSteps ==
    ASSUME ReadInv, Disconnect \/ Supervise \/ Reconcile
    PROVE  ReadInv'
<1>1. /\ worker \in [list : SUBSET Sources, up : BOOLEAN] /\ inbox \subseteq Sources \X Messages
      /\ left \in [edits : [Sources -> Nat], trouble : Nat, manual : Nat]
  BY ReaderTypes DEF ReadInv
<1>2. UNCHANGED <<source, rows, posted, bf, horizon, missed>> /\ inbox' \subseteq inbox
  BY DEF Disconnect, Supervise, Reconcile
<1>3. worker' \in [list : SUBSET Sources, up : BOOLEAN]
  <2>1. CASE Disconnect \/ Supervise
    BY <1>1, <2>1 DEF Disconnect, Supervise
  <2>2. CASE Reconcile
    <3>1. Read \in SUBSET Sources /\ (Read # {}) \in BOOLEAN
      BY DEF Read
    <3>2. worker' = [list |-> Read, up |-> Read # {}]
      BY <2>2 DEF Reconcile
    <3>3. QED
      BY <3>1, <3>2
  <2>3. QED
    BY <2>1, <2>2
<1>4. left' \in [edits : [Sources -> Nat], trouble : Nat, manual : Nat]
  BY <1>1 DEF Disconnect, Supervise, Reconcile, Trouble
<1>5. IngestTypeOK'
  BY <1>1, <1>2, <1>3, <1>4 DEF ReadInv, IngestTypeOK
<1>6. QED
  BY <1>2, <1>5, QuietKeepsReading

\* One reader moves, and nothing known is taken away.
LEMMA OneReader ==
    ASSUME ReadInv, IngestTypeOK', NEW r \in Readers,
           \A q \in Readers \ {r} : bf'[q] = bf[q],
           \A s \in Sources : rows[s] \subseteq rows'[s] /\ missed[s] \subseteq missed'[s]
                              /\ horizon[s] <= horizon'[s],
           Covers(r)', MarkCovers', r = "tick" => TickHolds'
    PROVE  ReadInv'
<1>1. horizon \in [Sources -> Marks] /\ bf \in [Readers -> ReaderSet] /\ horizon' \in [Sources -> Marks]
  BY ReaderTypes DEF ReadInv, IngestTypeOK
<1>2. \A q \in Readers : Covers(q)'
  <2>1. ASSUME NEW q \in Readers, q # r PROVE Covers(q)'
    BY <1>1, <2>1, GrowKeeps DEF ReadInv
  <2>2. QED
    BY <2>1
<1>3. TickHolds'
  <2>1. "tick" \in Readers
    BY DEF Readers
  <2>2. QED
    BY <2>1 DEF ReadInv, TickHolds
<1>4. QED
  BY <1>2, <1>3 DEF ReadInv

\* The reader's step changes none of the tables.
LEMMA OnlyReader ==
    ASSUME ReadInv, NEW r \in Readers, NEW b \in ReaderSet, bf' = [bf EXCEPT ![r] = b],
           UNCHANGED <<source, rows, posted, worker, inbox, horizon, missed>>,
           left' \in [edits : [Sources -> Nat], trouble : Nat, manual : Nat],
           Covers(r)', r = "tick" => TickHolds'
    PROVE  ReadInv'
<1>1. /\ bf \in [Readers -> ReaderSet] /\ horizon \in [Sources -> Marks]
  BY ReaderTypes DEF ReadInv
<1>2. bf' \in [Readers -> ReaderSet] /\ \A q \in Readers \ {r} : bf'[q] = bf[q]
  BY <1>1
<1>3. IngestTypeOK'
  BY <1>2 DEF ReadInv, IngestTypeOK, ReaderSet
<1>4. \A s \in Sources : horizon[s] <= horizon'[s]
  <2>1. \A s \in Sources : horizon[s] \in Nat
    BY <1>1, MessagesNat
  <2>2. QED
    BY <2>1
<1>5. MarkCovers'
  BY DEF ReadInv, MarkCovers, Known
<1>6. QED
  BY <1>2, <1>3, <1>4, <1>5, OneReader

\* A reader that has given up has no promise to keep.
LEMMA RestKeeps ==
    ASSUME NEW r \in Readers, bf'[r] = Rested
    PROVE  Covers(r)' /\ (r = "tick" => TickHolds')
  BY DEF Rested, Zero, Covers, MarksCover, TickHolds

LEMMA GiveUpKeeps ==
    ASSUME ReadInv, NEW r \in Readers, NEW s \in Sources, BfLost(r, s) \/ BfFails(r)
    PROVE  ReadInv'
<1>1. left \in [edits : [Sources -> Nat], trouble : Nat, manual : Nat] /\ bf \in [Readers -> ReaderSet]
  BY ReaderTypes DEF ReadInv
<1>2. /\ bf' = [bf EXCEPT ![r] = Rested]
      /\ UNCHANGED <<source, rows, posted, worker, inbox, horizon, missed>>
      /\ left' = left \/ (left.trouble > 0 /\ left' = [left EXCEPT !.trouble = @ - 1])
  BY DEF BfLost, BfFails, Trouble
<1>3. bf'[r] = Rested
  BY <1>1, <1>2
<1>4. left' \in [edits : [Sources -> Nat], trouble : Nat, manual : Nat]
  BY <1>1, <1>2
<1>5. QED
  BY <1>2, <1>3, <1>4, RestKeeps, RestedOK, OnlyReader

LEMMA StartKeeps ==
    ASSUME ReadInv, NEW r \in Readers, BfStart(r)
    PROVE  ReadInv'
<1>1. /\ left \in [edits : [Sources -> Nat], trouble : Nat, manual : Nat] /\ bf \in [Readers -> ReaderSet]
      /\ source \in [Sources -> [status : SourceStatus, mark : Marks]]
  BY ReaderTypes DEF ReadInv
<1> DEFINE loaded == [s \in Sources |-> source[s].mark]
           b == [Rested EXCEPT !.pc = "next", !.queue = Read, !.loaded = loaded]
<1>2. /\ bf' = [bf EXCEPT ![r] = b]
      /\ UNCHANGED <<source, rows, posted, worker, inbox, horizon, missed>>
  BY DEF BfStart
<1>3. left' \in [edits : [Sources -> Nat], trouble : Nat, manual : Nat]
  <2>1. CASE r = "manual"
    BY <1>1, <2>1 DEF BfStart
  <2>2. CASE r # "manual"
    BY <1>1, <2>2 DEF BfStart
  <2>3. QED
    BY <2>1, <2>2
<1>4. /\ b \in ReaderSet /\ b.pc = "next" /\ b.loaded = loaded /\ b.marks = Zero /\ b.pending = {}
  <2>1. Read \subseteq Sources /\ loaded \in [Sources -> Marks]
    BY <1>1 DEF Read
  <2>2. Rested \in ReaderSet /\ Rested.marks = Zero /\ Rested.pending = {}
    BY RestedOK DEF Rested
  <2> HIDE DEF loaded
  <2>3. QED
    BY <2>1, <2>2 DEF ReaderSet
<1>5. bf'[r] = b
  BY <1>1, <1>2
<1> HIDE DEF b
<1>6. Covers(r)'
  <2>1. LoadedCovers(r)'
    BY <1>2, <1>4, <1>5 DEF LoadedCovers, Known, ReadInv, MarkCovers
  <2>2. BatchCovers(r)' /\ MarksCover(r)'
    BY <1>4, <1>5 DEF BatchCovers, MarksCover, Zero
  <2>3. QED
    BY <1>4, <1>5, <2>1, <2>2 DEF Covers
<1>7. r = "tick" => TickHolds'
  BY <1>4, <1>5 DEF TickHolds
<1>8. QED
  BY <1>2, <1>3, <1>4, <1>6, <1>7, OnlyReader

\* A source more or less in the queue makes no difference.
LEMMA QueueKeeps ==
    ASSUME ReadInv, NEW r \in Readers, NEW s \in Sources,
           bf' = [bf EXCEPT ![r].queue = @ \ {s}], bf[r].pc = "next",
           UNCHANGED <<source, rows, posted, worker, inbox, horizon, missed>>,
           left' \in [edits : [Sources -> Nat], trouble : Nat, manual : Nat]
    PROVE  ReadInv'
<1> DEFINE b == [bf[r] EXCEPT !.queue = @ \ {s}]
<1>1. bf \in [Readers -> ReaderSet] /\ bf[r] \in ReaderSet
  BY ReaderTypes DEF ReadInv
<1>2. bf' = [bf EXCEPT ![r] = b] /\ bf'[r] = b /\ b \in ReaderSet
  BY <1>1 DEF ReaderSet
<1>3. /\ bf'[r].pc = bf[r].pc /\ bf'[r].of = bf[r].of /\ bf'[r].loaded = bf[r].loaded
      /\ bf'[r].gone = bf[r].gone /\ bf'[r].batch = bf[r].batch /\ bf'[r].top = bf[r].top
      /\ bf'[r].low = bf[r].low /\ bf'[r].pending = bf[r].pending
      /\ bf'[r].marks = bf[r].marks /\ bf'[r].lows = bf[r].lows
  BY <1>1, <1>2 DEF ReaderSet
<1>4. Covers(r)'
  BY <1>3 DEF ReadInv, Covers, LoadedCovers, BatchCovers, MarksCover, Known
<1>5. r = "tick" => TickHolds'
  BY <1>3 DEF ReadInv, TickHolds
<1> HIDE DEF b
<1>6. QED
  BY <1>2, <1>4, <1>5, OnlyReader

LEMMA FetchKeeps ==
    ASSUME ReadInv, NEW r \in Readers, NEW s \in Sources, BfFetch(r, s)
    PROVE  ReadInv'
<1> DEFINE L == bf[r].loaded[s]
           fetched == Fetched(s, L)
<1>1. /\ bf \in [Readers -> ReaderSet] /\ bf[r] \in ReaderSet /\ L \in Marks /\ L \in Nat
      /\ posted[s] \in Marks /\ posted[s] \in Nat /\ horizon[s] \in Nat
      /\ left \in [edits : [Sources -> Nat], trouble : Nat, manual : Nat]
      /\ \A m \in Messages : m \in Nat /\ m >= 1
  <2>1. /\ bf \in [Readers -> ReaderSet] /\ posted \in [Sources -> Marks] /\ horizon \in [Sources -> Marks]
        /\ left \in [edits : [Sources -> Nat], trouble : Nat, manual : Nat]
    BY ReaderTypes DEF ReadInv
  <2>2. bf[r] \in ReaderSet /\ bf[r].loaded \in [Sources -> Marks]
    BY <2>1 DEF ReaderSet
  <2>3. L \in Marks /\ posted[s] \in Marks /\ horizon[s] \in Marks
    BY <2>1, <2>2
  <2>4. \A m \in Messages : m \in Nat /\ m >= 1
    BY MessagesNat DEF Messages
  <2>5. QED
    BY <2>1, <2>2, <2>3, <2>4, MessagesNat
<1>2. bf[r].pc = "next" /\ UNCHANGED <<source, rows, posted, worker, inbox, horizon, missed, left>>
  BY DEF BfFetch
<1>3. After(s, L) \subseteq Messages /\ fetched \subseteq After(s, L)
  BY DEF After, Fetched, Newest, Oldest
<1>4. CASE fetched = {}
  <2>1. bf' = [bf EXCEPT ![r].queue = @ \ {s}]
    BY <1>4 DEF BfFetch
  <2>2. QED
    BY <1>1, <1>2, <2>1, QueueKeeps
<1>5. CASE fetched # {}
  <2> DEFINE lowest == IF L = 0 THEN Min(fetched) ELSE 0
             b == [bf[r] EXCEPT !.pc = "look", !.queue = @ \ {s}, !.of = {s}, !.batch = fetched,
                                !.top = Max(fetched), !.low = lowest]
  <2>1. /\ Min(fetched) \in fetched /\ Max(fetched) \in fetched
        /\ \A m \in fetched : Min(fetched) <= m /\ m <= Max(fetched)
    BY <1>3, <1>5, MinMax
  <2>2. Max(fetched) \in Messages /\ Min(fetched) \in Messages /\ Max(fetched) \in Marks /\ lowest \in Marks
    BY <1>3, <2>1, MessagesNat
  <2>3. bf' = [bf EXCEPT ![r] = b]
    <3>1. bf' = [bf EXCEPT ![r].pc = "look", ![r].queue = @ \ {s}, ![r].of = {s},
                           ![r].batch = fetched, ![r].top = Max(fetched), ![r].low = lowest]
      BY <1>5 DEF BfFetch
    <3> HIDE DEF fetched, lowest
    <3>2. QED
      BY <1>1, <3>1 DEF ReaderSet
  <2>4. b \in ReaderSet
    <3>1. {s} \subseteq Sources /\ fetched \subseteq Messages
      BY <1>3
    <3> HIDE DEF fetched, lowest
    <3>2. QED
      BY <1>1, <2>2, <3>1 DEF ReaderSet
  <2>5. bf'[r] = b
    BY <1>1, <2>3
  <2>6. /\ b.pc = "look" /\ b.of = {s} /\ b.batch = fetched /\ b.top = Max(fetched) /\ b.low = lowest
        /\ b.loaded = bf[r].loaded /\ b.gone = bf[r].gone /\ b.pending = bf[r].pending
        /\ b.marks = bf[r].marks /\ b.lows = bf[r].lows
    <3> HIDE DEF fetched, lowest
    <3>1. QED
      BY <1>1 DEF ReaderSet
  <2>7. ASSUME s \notin bf[r].gone
        PROVE  /\ horizon[s] >= 1 \/ lowest >= 1
               /\ \A m \in Messages : horizon[s] <= m /\ lowest <= m /\ m <= Max(fetched) =>
                     Known(s, m) \/ m \in fetched
    <3>1. CASE L = 0
      <4>1. lowest >= 1
        BY <1>1, <2>2, <3>1
      <4>2. ASSUME NEW m \in Messages, lowest <= m, m <= Max(fetched) PROVE m \in fetched
        <5>1. fetched = Newest(After(s, L)) /\ lowest = Min(fetched)
          BY <3>1 DEF Fetched
        <5>2. Max(fetched) \in After(s, L)
          BY <1>3, <2>1
        <5>3. m \in After(s, L)
          <6>1. Max(fetched) <= posted[s]
            BY <5>2 DEF After
          <6>2. Max(fetched) \in Nat /\ m \in Nat /\ m >= 1
            BY <1>1, <2>2
          <6>3. L < m /\ m <= posted[s]
            BY <1>1, <3>1, <4>2, <6>1, <6>2
          <6>4. QED
            BY <6>3 DEF After
        <5>4. Min(fetched) \in Newest(After(s, L)) /\ Min(fetched) <= m
          BY <2>1, <4>2, <5>1
        <5>5. m \in Newest(After(s, L))
          BY <1>3, <5>3, <5>4, NewestClosed
        <5>6. QED
          BY <5>1, <5>5
      <4>3. QED
        BY <4>1, <4>2
    <3>2. CASE L # 0
      <4>1. /\ horizon[s] >= 1
            /\ \A m \in Messages : horizon[s] <= m /\ m <= L => Known(s, m)
        BY <1>2, <2>7, <3>2 DEF ReadInv, Covers, LoadedCovers
      <4>2. ASSUME NEW m \in Messages, ~ (m <= L), m <= Max(fetched) PROVE m \in fetched
        <5>1. fetched = Oldest(After(s, L))
          BY <3>2 DEF Fetched
        <5>2. Max(fetched) \in After(s, L)
          BY <1>3, <2>1
        <5>3. m \in After(s, L)
          <6>1. Max(fetched) <= posted[s]
            BY <5>2 DEF After
          <6>2. Max(fetched) \in Nat /\ m \in Nat
            BY <1>1, <2>2
          <6>3. L < m /\ m <= posted[s]
            BY <1>1, <4>2, <6>1, <6>2
          <6>4. QED
            BY <6>3 DEF After
        <5>4. Max(fetched) \in Oldest(After(s, L)) /\ m <= Max(fetched)
          BY <2>1, <4>2, <5>1
        <5>5. m \in Oldest(After(s, L))
          BY <1>3, <5>3, <5>4, OldestClosed
        <5>6. QED
          BY <5>1, <5>5
      <4>3. QED
        BY <4>1, <4>2
    <3>3. QED
      BY <3>1, <3>2
  <2> HIDE DEF fetched, lowest, b
  <2>8. BatchCovers(r)'
    <3>1. ASSUME NEW u \in Sources \ b.gone, b.of = {u} PROVE u = s /\ s \notin bf[r].gone
      BY <2>6, <3>1
    <3>2. QED
      BY <1>2, <2>5, <2>6, <2>7, <3>1 DEF BatchCovers, Known
  <2>9. LoadedCovers(r)' /\ MarksCover(r)'
    BY <1>2, <2>5, <2>6 DEF ReadInv, Covers, LoadedCovers, MarksCover, Known
  <2>10. Covers(r)'
    BY <2>5, <2>6, <2>8, <2>9 DEF Covers
  <2>11. r = "tick" => TickHolds'
    BY <1>2, <2>5, <2>6 DEF ReadInv, TickHolds
  <2>12. QED
    BY <1>1, <1>2, <2>3, <2>4, <2>10, <2>11, OnlyReader
<1>6. QED
  BY <1>4, <1>5

LEMMA UnreadKeeps ==
    ASSUME ReadInv, NEW r \in Readers, NEW s \in Sources, BfUnread(r, s)
    PROVE  ReadInv'
<1>1. left \in [edits : [Sources -> Nat], trouble : Nat, manual : Nat]
  BY ReaderTypes DEF ReadInv
<1>2. /\ bf[r].pc = "next" /\ bf' = [bf EXCEPT ![r].queue = @ \ {s}]
      /\ left.trouble > 0 /\ left' = [left EXCEPT !.trouble = @ - 1]
      /\ UNCHANGED <<source, rows, posted, worker, inbox, horizon, missed>>
  BY DEF BfUnread, Trouble
<1>3. left' \in [edits : [Sources -> Nat], trouble : Nat, manual : Nat]
  BY <1>1, <1>2
<1>4. QED
  BY <1>2, <1>3, QueueKeeps

LEMMA LookKeeps ==
    ASSUME ReadInv, NEW r \in Readers, NEW s \in Sources, BfLook(r, s)
    PROVE  ReadInv'
<1> DEFINE m == Min(bf[r].batch)
           found == Accepting(s) /\ m \notin rows[s]
           pc == IF found THEN "insert" ELSE "look"
           rest == IF found THEN bf[r].batch ELSE bf[r].batch \ {m}
           b == [bf[r] EXCEPT !.pc = pc, !.batch = rest]
<1>1. /\ bf \in [Readers -> ReaderSet] /\ bf[r] \in ReaderSet
      /\ rows \in [Sources -> SUBSET Messages] /\ missed \in [Sources -> SUBSET Messages]
      /\ horizon \in [Sources -> Marks]
  BY ReaderTypes DEF ReadInv
<1>2. /\ bf[r].pc = "look" /\ bf[r].of = {s} /\ bf[r].batch # {}
      /\ UNCHANGED <<source, rows, posted, worker, inbox, horizon, left>>
      /\ missed' = IF Accepting(s) THEN missed ELSE [missed EXCEPT ![s] = @ \union {m}]
  BY DEF BfLook
<1>3. bf' = [bf EXCEPT ![r] = b]
  <2>1. bf' = IF found THEN [bf EXCEPT ![r].pc = "insert"] ELSE [bf EXCEPT ![r].batch = @ \ {m}]
    BY DEF BfLook
  <2>2. CASE found
    <3>1. [bf[r] EXCEPT !.pc = "insert"] = b
      BY <1>1, <2>2 DEF ReaderSet
    <3> HIDE DEF b, found, m
    <3>2. QED
      BY <2>1, <2>2, <3>1
  <2>3. CASE ~found
    <3>1. [bf[r] EXCEPT !.batch = bf[r].batch \ {m}] = b
      BY <1>1, <1>2, <2>3 DEF ReaderSet
    <3>2. bf' = [bf EXCEPT ![r] = [bf[r] EXCEPT !.batch = bf[r].batch \ {m}]]
      BY <2>1, <2>3
    <3> HIDE DEF b, found, m
    <3>3. QED
      BY <3>1, <3>2
  <2>4. QED
    BY <2>2, <2>3
<1>4. m \in bf[r].batch /\ m \in Messages /\ bf[r].batch \subseteq Messages
  <2>1. bf[r].batch \subseteq Messages
    BY <1>1 DEF ReaderSet
  <2>2. QED
    BY <1>2, <2>1, MinMax
<1>5. missed' \in [Sources -> SUBSET Messages] /\ \A u \in Sources : missed[u] \subseteq missed'[u]
  <2>1. (missed[s] \union {m}) \in SUBSET Messages
    BY <1>1, <1>4
  <2>2. missed' = IF Accepting(s) THEN missed ELSE [missed EXCEPT ![s] = missed[s] \union {m}]
    BY <1>2
  <2> HIDE DEF m
  <2>3. QED
    BY <1>1, <2>1, <2>2
<1>6. found \/ m \in rows[s] \/ m \in missed'[s]
  <2> HIDE DEF m
  <2>1. QED
    BY <1>1, <1>2
<1>7. rest \subseteq bf[r].batch /\ (\A k \in bf[r].batch \ rest : k = m /\ ~found)
  OBVIOUS
<1>8. pc \in {"look", "insert"} /\ (pc = "insert" => rest # {})
  BY <1>2
<1> HIDE DEF m, found, pc, rest
<1>9. /\ b \in ReaderSet /\ b.pc = pc /\ b.of = {s} /\ b.batch = rest
      /\ b.loaded = bf[r].loaded /\ b.gone = bf[r].gone /\ b.pending = bf[r].pending
      /\ b.marks = bf[r].marks /\ b.lows = bf[r].lows /\ b.top = bf[r].top /\ b.low = bf[r].low
  <2>1. rest \subseteq Messages
    BY <1>4, <1>7
  <2>2. QED
    BY <1>1, <1>2, <1>8, <2>1 DEF ReaderSet
<1> HIDE DEF b
<1>10. bf' \in [Readers -> ReaderSet] /\ bf'[r] = b /\ \A q \in Readers \ {r} : bf'[q] = bf[q]
  BY <1>1, <1>3, <1>9
<1>11. IngestTypeOK'
  BY <1>2, <1>5, <1>10 DEF ReadInv, IngestTypeOK, ReaderSet
<1>12. \A u \in Sources, k \in Messages : Known(u, k) => Known(u, k)'
  BY <1>2, <1>5 DEF Known
<1>13. LoadedCovers(r)' /\ MarksCover(r)'
  BY <1>2, <1>9, <1>10, <1>12 DEF ReadInv, Covers, LoadedCovers, MarksCover
<1>14. BatchCovers(r)'
  <2>1. BatchCovers(r)
    BY <1>2 DEF ReadInv, Covers
  <2>2. \A k \in Messages : k \in bf[r].batch => k \in rest \/ Known(s, k)'
    BY <1>2, <1>6, <1>7 DEF Known
  <2>3. ASSUME NEW u \in Sources \ b.gone, b.of = {u}
        PROVE  /\ horizon'[u] >= 1 \/ b.low >= 1
               /\ \A k \in Messages : horizon'[u] <= k /\ b.low <= k /\ k <= b.top =>
                     Known(u, k)' \/ <<u, k>> \in b.pending \/ k \in b.batch
    <3>1. u = s /\ u \in Sources \ bf[r].gone /\ bf[r].of = {u}
      BY <1>2, <1>9, <2>3
    <3>2. QED
      BY <1>2, <1>9, <1>12, <2>1, <2>2, <3>1 DEF BatchCovers
  <2>4. QED
    BY <1>10, <2>3 DEF BatchCovers, Known
<1>15. Covers(r)'
  BY <1>8, <1>9, <1>10, <1>13, <1>14 DEF Covers
<1>16. MarkCovers'
  BY <1>2, <1>12 DEF ReadInv, MarkCovers
<1>17. \A u \in Sources : horizon[u] <= horizon'[u]
  <2>1. \A u \in Sources : horizon[u] \in Nat
    BY <1>1, MessagesNat
  <2>2. QED
    BY <1>2, <2>1
<1>18. r = "tick" => TickHolds'
  BY <1>2, <1>8, <1>9, <1>10 DEF ReadInv, TickHolds
<1>19. QED
  BY <1>2, <1>5, <1>10, <1>11, <1>15, <1>16, <1>17, <1>18, OneReader

LEMMA InsertKeeps ==
    ASSUME ReadInv, NEW r \in Readers, NEW s \in Sources, BfInsert(r, s)
    PROVE  ReadInv'
<1> DEFINE m == Min(bf[r].batch)
           b == [bf[r] EXCEPT !.pc = "look", !.batch = bf[r].batch \ {m},
                              !.pending = bf[r].pending \union {<<s, m>>}]
<1>1. /\ bf \in [Readers -> ReaderSet] /\ bf[r] \in ReaderSet
      /\ left \in [edits : [Sources -> Nat], trouble : Nat, manual : Nat]
  BY ReaderTypes DEF ReadInv
<1>2. /\ bf[r].pc = "insert" /\ bf[r].of = {s}
      /\ UNCHANGED <<source, rows, posted, worker, inbox, horizon, missed, left>>
  BY DEF BfInsert
<1>3. bf' = [bf EXCEPT ![r] = b]
  <2>1. bf' = [bf EXCEPT ![r].pc = "look", ![r].batch = @ \ {m}, ![r].pending = @ \union {<<s, m>>}]
    BY DEF BfInsert
  <2> HIDE DEF m
  <2>2. QED
    BY <1>1, <2>1 DEF ReaderSet
<1>4. m \in Messages /\ bf[r].batch \subseteq Messages
  <2>1. bf[r].batch \subseteq Messages /\ bf[r].batch # {}
    BY <1>1, <1>2 DEF ReaderSet, ReadInv, Covers
  <2>2. QED
    BY <2>1, MinMax
<1> HIDE DEF m
<1>5. /\ b \in ReaderSet /\ b.pc = "look" /\ b.of = {s} /\ b.batch = bf[r].batch \ {m}
      /\ b.pending = bf[r].pending \union {<<s, m>>}
      /\ b.loaded = bf[r].loaded /\ b.gone = bf[r].gone
      /\ b.marks = bf[r].marks /\ b.lows = bf[r].lows /\ b.top = bf[r].top /\ b.low = bf[r].low
  <2>1. (bf[r].pending \union {<<s, m>>}) \subseteq Sources \X Messages
    BY <1>1, <1>4 DEF ReaderSet
  <2>2. bf[r].batch \ {m} \subseteq Messages
    BY <1>4
  <2>3. QED
    BY <1>1, <1>2, <2>1, <2>2 DEF ReaderSet
<1> HIDE DEF b
<1>6. bf'[r] = b
  BY <1>1, <1>3
<1>7. LoadedCovers(r)' /\ MarksCover(r)'
  BY <1>2, <1>5, <1>6 DEF ReadInv, Covers, LoadedCovers, MarksCover, Known
<1>8. BatchCovers(r)'
  <2>1. BatchCovers(r)
    BY <1>2 DEF ReadInv, Covers
  <2>2. ASSUME NEW u \in Sources \ b.gone, b.of = {u}
        PROVE  /\ horizon[u] >= 1 \/ b.low >= 1
               /\ \A k \in Messages : horizon[u] <= k /\ b.low <= k /\ k <= b.top =>
                     Known(u, k) \/ <<u, k>> \in b.pending \/ k \in b.batch
    <3>1. u = s /\ u \in Sources \ bf[r].gone /\ bf[r].of = {u}
      BY <1>2, <1>5, <2>2
    <3>2. QED
      BY <1>2, <1>5, <2>1, <3>1 DEF BatchCovers
  <2>3. QED
    BY <1>2, <1>6, <2>2 DEF BatchCovers, Known
<1>9. Covers(r)'
  BY <1>5, <1>6, <1>7, <1>8 DEF Covers
<1>10. r = "tick" => TickHolds'
  BY <1>2, <1>5, <1>6 DEF ReadInv, TickHolds
<1>11. QED
  BY <1>1, <1>2, <1>3, <1>5, <1>9, <1>10, OnlyReader

\* A commit makes what was pending known; its watermarks are covered.
LEMMA CommitKeeps ==
    ASSUME ReadInv, NEW r \in Readers,
           NEW marks \in [Sources -> Marks], NEW lows \in [Sources -> Marks],
           \A s \in Sources : marks[s] # 0 =>
              /\ horizon[s] >= 1 \/ lows[s] >= 1
              /\ \A m \in Messages : horizon[s] <= m /\ lows[s] <= m /\ m <= marks[s] =>
                    Known(s, m) \/ <<s, m>> \in bf[r].pending,
           Committed(r, marks, lows), missed' = missed
    PROVE  /\ rows' \in [Sources -> SUBSET Messages] /\ horizon' \in [Sources -> Marks]
           /\ source' \in [Sources -> [status : SourceStatus, mark : Marks]]
           /\ \A s \in Sources : /\ rows[s] \subseteq rows'[s] /\ missed[s] \subseteq missed'[s]
                                 /\ horizon[s] <= horizon'[s]
           /\ \A s \in Sources, m \in Messages : Known(s, m) \/ <<s, m>> \in bf[r].pending => Known(s, m)'
           /\ MarkCovers'
<1>1. /\ rows \in [Sources -> SUBSET Messages] /\ horizon \in [Sources -> Marks]
      /\ source \in [Sources -> [status : SourceStatus, mark : Marks]]
  BY ReaderTypes DEF ReadInv
<1>2. /\ rows' = [s \in Sources |-> rows[s] \union {m \in Messages : <<s, m>> \in bf[r].pending}]
      /\ source' = [s \in Sources |->
                       IF marks[s] # 0 THEN [source[s] EXCEPT !.mark = marks[s]] ELSE source[s]]
      /\ horizon' = [s \in Sources |-> IF lows[s] > horizon[s] THEN lows[s] ELSE horizon[s]]
  BY DEF Committed
<1>3. rows' \in [Sources -> SUBSET Messages] /\ horizon' \in [Sources -> Marks]
  BY <1>1, <1>2
<1>4. /\ source' \in [Sources -> [status : SourceStatus, mark : Marks]]
      /\ \A s \in Sources : source'[s].mark = IF marks[s] # 0 THEN marks[s] ELSE source[s].mark
  <2>1. \A s \in Sources :
           (IF marks[s] # 0 THEN [source[s] EXCEPT !.mark = marks[s]] ELSE source[s])
           \in [status : SourceStatus, mark : Marks]
    BY <1>1
  <2>2. QED
    BY <1>1, <1>2, <2>1
<1>5. \A s \in Sources : lows[s] \in Nat /\ horizon[s] \in Nat /\ horizon'[s] \in Nat
  BY <1>1, <1>3, MessagesNat
<1>6. \A s \in Sources : horizon[s] <= horizon'[s] /\ lows[s] <= horizon'[s]
  BY <1>2, <1>5
<1>7. \A s \in Sources : rows[s] \subseteq rows'[s] /\ missed[s] \subseteq missed'[s]
  BY <1>2
<1>8. \A s \in Sources, m \in Messages : Known(s, m) \/ <<s, m>> \in bf[r].pending => Known(s, m)'
  BY <1>2 DEF Known
<1>9. \A m \in Messages : m \in Nat
  BY MessagesNat
<1>10. MarkCovers'
  <2>1. ASSUME NEW s \in Sources, source'[s].mark # 0
        PROVE  /\ horizon'[s] >= 1
               /\ \A m \in Messages : horizon'[s] <= m /\ m <= source'[s].mark => Known(s, m)'
    <3>1. CASE marks[s] # 0
      <4>1. source'[s].mark = marks[s]
        BY <1>4, <3>1
      <4>2. horizon'[s] >= 1
        BY <1>5, <1>6, <3>1
      <4>3. ASSUME NEW m \in Messages, horizon'[s] <= m, m <= marks[s] PROVE Known(s, m)'
        <5>1. horizon[s] <= m /\ lows[s] <= m
          BY <1>5, <1>6, <1>9, <4>3
        <5>2. QED
          BY <1>8, <3>1, <4>3, <5>1
      <4>4. QED
        BY <4>1, <4>2, <4>3
    <3>2. CASE marks[s] = 0
      <4>1. source'[s].mark = source[s].mark
        BY <1>4, <3>2
      <4>2. /\ horizon[s] >= 1
            /\ \A m \in Messages : horizon[s] <= m /\ m <= source[s].mark => Known(s, m)
        BY <2>1, <4>1 DEF ReadInv, MarkCovers
      <4>3. horizon'[s] >= 1
        BY <1>5, <1>6, <4>2
      <4>4. ASSUME NEW m \in Messages, horizon'[s] <= m, m <= source[s].mark PROVE Known(s, m)'
        <5>1. horizon[s] <= m
          BY <1>5, <1>6, <1>9, <4>4
        <5>2. QED
          BY <1>8, <4>2, <4>4, <5>1
      <4>5. QED
        BY <4>1, <4>3, <4>4
    <3>3. QED
      BY <3>1, <3>2
  <2>2. QED
    BY <2>1 DEF MarkCovers
<1>11. QED
  BY <1>3, <1>4, <1>6, <1>7, <1>8, <1>10

LEMMA MarkKeeps ==
    ASSUME ReadInv, NEW r \in Readers, NEW s \in Sources, BfMark(r, s)
    PROVE  ReadInv'
<1> DEFINE marks == [bf[r].marks EXCEPT ![s] = bf[r].top]
           lows == [bf[r].lows EXCEPT ![s] = bf[r].low]
<1>1. /\ bf \in [Readers -> ReaderSet] /\ bf[r] \in ReaderSet /\ horizon \in [Sources -> Marks]
      /\ left \in [edits : [Sources -> Nat], trouble : Nat, manual : Nat]
  BY ReaderTypes DEF ReadInv
<1>2. /\ bf[r].pc = "look" /\ bf[r].of = {s} /\ bf[r].batch = {} /\ s \notin bf[r].gone
      /\ UNCHANGED <<posted, worker, inbox, missed, left>>
  BY DEF BfMark
<1>3. /\ marks \in [Sources -> Marks] /\ lows \in [Sources -> Marks]
      /\ marks[s] = bf[r].top /\ lows[s] = bf[r].low
      /\ \A u \in Sources : u # s => marks[u] = bf[r].marks[u] /\ lows[u] = bf[r].lows[u]
  BY <1>1 DEF ReaderSet
<1>4. \A u \in Sources : marks[u] # 0 =>
         /\ u \notin bf[r].gone
         /\ horizon[u] >= 1 \/ lows[u] >= 1
         /\ \A m \in Messages : horizon[u] <= m /\ lows[u] <= m /\ m <= marks[u] =>
               Known(u, m) \/ <<u, m>> \in bf[r].pending
  <2>1. /\ horizon[s] >= 1 \/ bf[r].low >= 1
        /\ \A m \in Messages : horizon[s] <= m /\ bf[r].low <= m /\ m <= bf[r].top =>
              Known(s, m) \/ <<s, m>> \in bf[r].pending
    BY <1>2 DEF ReadInv, Covers, BatchCovers
  <2>2. MarksCover(r)
    BY DEF ReadInv, Covers
  <2> HIDE DEF marks, lows
  <2>3. ASSUME NEW u \in Sources, marks[u] # 0
        PROVE  /\ u \notin bf[r].gone
               /\ horizon[u] >= 1 \/ lows[u] >= 1
               /\ \A m \in Messages : horizon[u] <= m /\ lows[u] <= m /\ m <= marks[u] =>
                     Known(u, m) \/ <<u, m>> \in bf[r].pending
    <3>1. CASE u = s
      BY <1>2, <1>3, <2>1, <3>1
    <3>2. CASE u # s
      BY <1>3, <2>2, <2>3, <3>2 DEF MarksCover
    <3>3. QED
      BY <3>1, <3>2
  <2>4. QED
    BY <2>3
<1>5. CASE r = "tick"
  <2> DEFINE b == [bf[r] EXCEPT !.pc = "next", !.of = {}, !.pending = {}]
  <2>1. Committed(r, marks, lows)
    BY <1>5 DEF BfMark
  <2>2. bf' = [bf EXCEPT ![r] = b]
    <3>1. bf' = [bf EXCEPT ![r].pc = "next", ![r].of = {}, ![r].pending = {}]
      BY <1>5 DEF BfMark
    <3>2. QED
      BY <1>1, <3>1 DEF ReaderSet
  <2>3. /\ b \in ReaderSet /\ b.pc = "next" /\ b.of = {} /\ b.pending = {} /\ b.batch = bf[r].batch
        /\ b.loaded = bf[r].loaded /\ b.gone = bf[r].gone
        /\ b.marks = bf[r].marks /\ b.lows = bf[r].lows
    BY <1>1 DEF ReaderSet
  <2> HIDE DEF marks, lows, b
  <2>4. /\ rows' \in [Sources -> SUBSET Messages] /\ horizon' \in [Sources -> Marks]
        /\ source' \in [Sources -> [status : SourceStatus, mark : Marks]]
        /\ \A u \in Sources : /\ rows[u] \subseteq rows'[u] /\ missed[u] \subseteq missed'[u]
                              /\ horizon[u] <= horizon'[u]
        /\ \A u \in Sources, m \in Messages : Known(u, m) \/ <<u, m>> \in bf[r].pending => Known(u, m)'
        /\ MarkCovers'
    BY <1>2, <1>3, <1>4, <2>1, CommitKeeps
  <2>5. bf' \in [Readers -> ReaderSet] /\ bf'[r] = b /\ \A q \in Readers \ {r} : bf'[q] = bf[q]
    BY <1>1, <2>2, <2>3
  <2>6. IngestTypeOK'
    BY <1>2, <2>4, <2>5 DEF ReadInv, IngestTypeOK, ReaderSet
  <2>7. \A u \in Sources :
           /\ \A m \in Messages : horizon'[u] <= m => horizon[u] <= m
           /\ horizon[u] >= 1 => horizon'[u] >= 1
    <3>1. \A u \in Sources : horizon[u] \in Nat /\ horizon'[u] \in Nat
      BY <1>1, <2>4, MessagesNat
    <3>2. \A m \in Messages : m \in Nat
      BY MessagesNat
    <3>3. QED
      BY <2>4, <3>1, <3>2
  <2>8. \A u \in Sources, m \in Messages :
            Known(u, m) \/ <<u, m>> \in bf[r].pending => m \in rows'[u] \/ m \in missed'[u]
    BY <2>4 DEF Known
  <2>9. /\ bf'[r].loaded = bf[r].loaded /\ bf'[r].gone = bf[r].gone
         /\ bf'[r].marks = bf[r].marks /\ bf'[r].lows = bf[r].lows
    BY <2>3, <2>5
  <2>10. LoadedCovers(r)'
    <3>1. LoadedCovers(r)
      BY <1>2 DEF ReadInv, Covers
    <3>2. ASSUME NEW u \in Sources \ bf[r].gone, bf[r].loaded[u] # 0
          PROVE  /\ horizon'[u] >= 1
                 /\ \A m \in Messages : horizon'[u] <= m /\ m <= bf[r].loaded[u] =>
                       m \in rows'[u] \/ m \in missed'[u]
      BY <2>7, <2>8, <3>1, <3>2 DEF LoadedCovers
    <3>3. QED
      BY <2>9, <3>2 DEF LoadedCovers, Known
  <2>11. MarksCover(r)'
    <3>1. MarksCover(r)
      BY DEF ReadInv, Covers
    <3>2. ASSUME NEW u \in Sources, bf[r].marks[u] # 0
          PROVE  /\ u \notin bf[r].gone
                 /\ horizon'[u] >= 1 \/ bf[r].lows[u] >= 1
                 /\ \A m \in Messages : horizon'[u] <= m /\ bf[r].lows[u] <= m /\ m <= bf[r].marks[u] =>
                       m \in rows'[u] \/ m \in missed'[u]
      BY <2>7, <2>8, <3>1, <3>2 DEF MarksCover
    <3>3. QED
      BY <2>9, <3>2 DEF MarksCover, Known
  <2>12. Covers(r)'
    BY <2>3, <2>5, <2>10, <2>11 DEF Covers, BatchCovers
  <2>13. TickHolds'
    BY <1>5, <2>3, <2>5 DEF TickHolds
  <2>14. QED
    BY <2>4, <2>5, <2>6, <2>12, <2>13, OneReader
<1>6. CASE r # "tick"
  <2> DEFINE b == [bf[r] EXCEPT !.pc = "next", !.of = {}, !.marks = marks, !.lows = lows]
  <2>1. UNCHANGED <<source, rows, posted, worker, inbox, horizon, missed, left>>
    BY <1>2, <1>6 DEF BfMark
  <2>2. bf' = [bf EXCEPT ![r] = b]
    <3>1. bf' = [bf EXCEPT ![r].pc = "next", ![r].of = {}, ![r].marks = marks, ![r].lows = lows]
      BY <1>6 DEF BfMark
    <3> HIDE DEF marks, lows
    <3>2. QED
      BY <1>1, <3>1 DEF ReaderSet
  <2> HIDE DEF marks, lows
  <2>3. /\ b \in ReaderSet /\ b.pc = "next" /\ b.pending = bf[r].pending /\ b.batch = bf[r].batch
        /\ b.loaded = bf[r].loaded /\ b.gone = bf[r].gone
        /\ b.marks = marks /\ b.lows = lows
    BY <1>1, <1>3 DEF ReaderSet
  <2> HIDE DEF b
  <2>4. bf'[r] = b
    BY <1>1, <2>2
  <2>5. LoadedCovers(r)'
    BY <1>2, <2>1, <2>3, <2>4 DEF ReadInv, Covers, LoadedCovers, Known
  <2>6. MarksCover(r)'
    BY <1>4, <2>1, <2>3, <2>4 DEF MarksCover, Known
  <2>7. Covers(r)'
    BY <2>3, <2>4, <2>5, <2>6 DEF Covers, BatchCovers
  <2>8. QED
    BY <1>1, <1>6, <2>1, <2>2, <2>3, <2>7, OnlyReader
<1>7. QED
  BY <1>5, <1>6

LEMMA EndKeeps ==
    ASSUME ReadInv, NEW r \in Readers, BfEnd(r)
    PROVE  ReadInv'
<1>1. bf \in [Readers -> ReaderSet] /\ bf[r] \in ReaderSet
  BY ReaderTypes DEF ReadInv
<1>2. /\ Committed(r, bf[r].marks, bf[r].lows) /\ bf' = [bf EXCEPT ![r] = Rested]
      /\ UNCHANGED <<posted, worker, inbox, missed, left>>
  BY DEF BfEnd
<1>3. bf[r].marks \in [Sources -> Marks] /\ bf[r].lows \in [Sources -> Marks] /\ MarksCover(r)
  BY <1>1 DEF ReaderSet, ReadInv, Covers
<1>4. \A u \in Sources : bf[r].marks[u] # 0 =>
         /\ horizon[u] >= 1 \/ bf[r].lows[u] >= 1
         /\ \A m \in Messages : horizon[u] <= m /\ bf[r].lows[u] <= m /\ m <= bf[r].marks[u] =>
               Known(u, m) \/ <<u, m>> \in bf[r].pending
  BY <1>3 DEF MarksCover
<1>5. /\ rows' \in [Sources -> SUBSET Messages] /\ horizon' \in [Sources -> Marks]
      /\ source' \in [Sources -> [status : SourceStatus, mark : Marks]]
      /\ \A u \in Sources : /\ rows[u] \subseteq rows'[u] /\ missed[u] \subseteq missed'[u]
                            /\ horizon[u] <= horizon'[u]
      /\ MarkCovers'
  BY <1>2, <1>3, <1>4, CommitKeeps
<1>6. bf' \in [Readers -> ReaderSet] /\ bf'[r] = Rested /\ \A q \in Readers \ {r} : bf'[q] = bf[q]
  BY <1>1, <1>2, RestedOK
<1>7. IngestTypeOK'
  BY <1>2, <1>5, <1>6 DEF ReadInv, IngestTypeOK, ReaderSet
<1>8. Covers(r)' /\ (r = "tick" => TickHolds')
  BY <1>6, RestKeeps
<1>9. QED
  BY <1>5, <1>6, <1>7, <1>8, OneReader

\* A source deleted takes everything known of it along; the readers at work will not mark it.
LEMMA DeleteKeeps ==
    ASSUME ReadInv, NEW s \in Sources, Delete(s)
    PROVE  ReadInv'
<1> DEFINE gone(q) == IF bf[q].pc = "idle" THEN {} ELSE bf[q].gone \union {s}
<1>1. /\ bf \in [Readers -> ReaderSet]
      /\ rows \in [Sources -> SUBSET Messages] /\ missed \in [Sources -> SUBSET Messages]
      /\ horizon \in [Sources -> Marks] /\ source \in [Sources -> [status : SourceStatus, mark : Marks]]
      /\ left \in [edits : [Sources -> Nat], trouble : Nat, manual : Nat]
  BY ReaderTypes DEF ReadInv
<1>2. /\ left.edits[s] > 0 /\ left' = [left EXCEPT !.edits[s] = @ - 1]
      /\ source' = [source EXCEPT ![s] = [status |-> "deleted", mark |-> 0]]
      /\ rows' = [rows EXCEPT ![s] = {}] /\ horizon' = [horizon EXCEPT ![s] = 0]
      /\ missed' = [missed EXCEPT ![s] = {}]
      /\ bf' = [q \in Readers |-> [bf[q] EXCEPT !.gone = gone(q)]]
      /\ UNCHANGED <<posted, worker, inbox>>
      /\ \A q \in Readers : bf[q].marks[s] = 0
  BY DEF Delete, RowLocked
<1>3. ASSUME NEW q \in Readers
      PROVE  /\ bf'[q] \in ReaderSet /\ bf'[q].gone = gone(q)
             /\ bf'[q].pc = bf[q].pc /\ bf'[q].of = bf[q].of /\ bf'[q].loaded = bf[q].loaded
             /\ bf'[q].batch = bf[q].batch /\ bf'[q].top = bf[q].top
             /\ bf'[q].low = bf[q].low /\ bf'[q].pending = bf[q].pending
             /\ bf'[q].marks = bf[q].marks /\ bf'[q].lows = bf[q].lows
  <2>1. bf[q] \in ReaderSet /\ bf'[q] = [bf[q] EXCEPT !.gone = gone(q)]
    BY <1>1, <1>2
  <2>2. gone(q) \subseteq Sources
    BY <2>1 DEF ReaderSet
  <2> HIDE DEF gone
  <2>3. QED
    BY <2>1, <2>2 DEF ReaderSet
<1>4. bf' \in [Readers -> ReaderSet]
  <2>1. bf' = [q \in Readers |-> bf'[q]]
    BY <1>2
  <2>2. QED
    BY <1>3, <2>1
<1>5. /\ left' \in [edits : [Sources -> Nat], trouble : Nat, manual : Nat]
      /\ source' \in [Sources -> [status : SourceStatus, mark : Marks]]
      /\ rows' \in [Sources -> SUBSET Messages] /\ missed' \in [Sources -> SUBSET Messages]
      /\ horizon' \in [Sources -> Marks]
  <2>1. left' \in [edits : [Sources -> Nat], trouble : Nat, manual : Nat]
    BY <1>1, <1>2
  <2>2. [status |-> "deleted", mark |-> 0] \in [status : SourceStatus, mark : Marks]
    BY MessagesNat DEF SourceStatus
  <2>3. source' \in [Sources -> [status : SourceStatus, mark : Marks]]
    BY <1>1, <1>2, <2>2
  <2>4. rows' \in [Sources -> SUBSET Messages] /\ missed' \in [Sources -> SUBSET Messages]
    BY <1>1, <1>2
  <2>5. horizon' \in [Sources -> Marks]
    BY <1>1, <1>2, MessagesNat
  <2>6. QED
    BY <2>1, <2>3, <2>4, <2>5
<1>6. IngestTypeOK'
  BY <1>2, <1>4, <1>5 DEF ReadInv, IngestTypeOK, ReaderSet
<1>7. \A u \in Sources : u # s =>
         /\ source'[u] = source[u] /\ horizon'[u] = horizon[u]
         /\ \A m \in Messages : Known(u, m)' = Known(u, m)
  BY <1>1, <1>2 DEF Known
<1>8. source'[s].mark = 0
  BY <1>1, <1>2
<1>9. MarkCovers'
  BY <1>7, <1>8 DEF ReadInv, MarkCovers
<1>10. ASSUME NEW q \in Readers
       PROVE  \A u \in Sources : bf[q].marks[u] # 0 =>
                 /\ u \notin bf'[q].gone
                 /\ horizon'[u] >= 1 \/ bf[q].lows[u] >= 1
                 /\ \A m \in Messages : horizon'[u] <= m /\ bf[q].lows[u] <= m /\ m <= bf[q].marks[u] =>
                       Known(u, m)' \/ <<u, m>> \in bf[q].pending
  <2>1. MarksCover(q)
    BY DEF ReadInv, Covers
  <2>2. bf'[q].gone \subseteq bf[q].gone \union {s}
    BY <1>3
  <2>3. ASSUME NEW u \in Sources, bf[q].marks[u] # 0
        PROVE  /\ u \notin bf'[q].gone
               /\ horizon'[u] >= 1 \/ bf[q].lows[u] >= 1
               /\ \A m \in Messages : horizon'[u] <= m /\ bf[q].lows[u] <= m /\ m <= bf[q].marks[u] =>
                     Known(u, m)' \/ <<u, m>> \in bf[q].pending
    <3>1. u # s
      BY <1>2, <2>3
    <3>2. /\ u \notin bf[q].gone
          /\ horizon[u] >= 1 \/ bf[q].lows[u] >= 1
          /\ \A m \in Messages : horizon[u] <= m /\ bf[q].lows[u] <= m /\ m <= bf[q].marks[u] =>
                Known(u, m) \/ <<u, m>> \in bf[q].pending
      BY <2>1, <2>3 DEF MarksCover
    <3>3. rows'[u] = rows[u] /\ missed'[u] = missed[u] /\ horizon'[u] = horizon[u]
      BY <1>1, <1>2, <3>1
    <3>4. QED
      BY <2>2, <3>1, <3>2, <3>3 DEF Known
  <2>4. QED
    BY <2>3 DEF Known
<1>11. ASSUME NEW q \in Readers PROVE MarksCover(q)'
  <2>1. bf'[q].marks = bf[q].marks /\ bf'[q].lows = bf[q].lows /\ bf'[q].pending = bf[q].pending
    BY <1>3
  <2>2. QED
    BY <1>10, <2>1 DEF MarksCover, Known
<1>12. ASSUME NEW q \in Readers PROVE Covers(q)'
  <2>1. Covers(q)
    BY DEF ReadInv
  <2>2. CASE bf[q].pc = "idle"
    <3>1. MarksCover(q)'
      BY <1>10, <1>11, <2>2
    <3>2. QED
      BY <1>3, <2>2, <3>1 DEF Covers
  <2>3. CASE bf[q].pc # "idle"
    <3>1. bf'[q].gone = bf[q].gone \union {s}
      BY <1>3, <2>3
    <3>2. LoadedCovers(q)'
      BY <1>3, <1>7, <2>1, <2>3, <3>1 DEF Covers, LoadedCovers
    <3>3. BatchCovers(q)'
      BY <1>3, <1>7, <2>1, <2>3, <3>1 DEF Covers, BatchCovers
    <3>4. MarksCover(q)'
      BY <1>10, <1>11, <2>3
    <3>5. QED
      BY <1>3, <2>1, <3>2, <3>3, <3>4 DEF Covers
  <2>4. QED
    BY <2>2, <2>3
<1>13. TickHolds'
  <2>1. "tick" \in Readers
    BY DEF Readers
  <2>2. QED
    BY <1>3, <2>1 DEF ReadInv, TickHolds
<1>14. QED
  BY <1>6, <1>9, <1>12, <1>13 DEF ReadInv

LEMMA ReadingKeeps ==
    ASSUME ReadInv, IngestNext
    PROVE  ReadInv'
<1>1. ASSUME NEW r \in Readers, BfWork(r) PROVE ReadInv'
  BY <1>1, FetchKeeps, LookKeeps, InsertKeeps, MarkKeeps, GiveUpKeeps, EndKeeps DEF BfWork
<1>2. ASSUME NEW r \in Readers, BfFails(r) PROVE ReadInv'
  <2>1. left \in [edits : [Sources -> Nat], trouble : Nat, manual : Nat] /\ bf \in [Readers -> ReaderSet]
    BY ReaderTypes DEF ReadInv
  <2>2. /\ bf' = [bf EXCEPT ![r] = Rested]
        /\ UNCHANGED <<source, rows, posted, worker, inbox, horizon, missed>>
        /\ left.trouble > 0 /\ left' = [left EXCEPT !.trouble = @ - 1]
    BY <1>2 DEF BfFails, Trouble
  <2>3. bf'[r] = Rested /\ left' \in [edits : [Sources -> Nat], trouble : Nat, manual : Nat]
    BY <2>1, <2>2
  <2>4. QED
    BY <2>2, <2>3, RestKeeps, RestedOK, OnlyReader
<1>3. ASSUME BfNext PROVE ReadInv'
  BY <1>1, <1>2, <1>3, StartKeeps, UnreadKeeps DEF BfNext
<1>4. ASSUME LiveNext PROVE ReadInv'
  <2>1. CASE \E s \in Sources, m \in Messages : Live(s, m) \/ LiveFails(s, m)
    BY <2>1, QuietSteps
  <2>2. CASE Disconnect \/ Supervise \/ Reconcile
    BY <2>2, WorkerSteps
  <2>3. QED
    BY <1>4, <2>1, <2>2 DEF LiveNext
<1>5. ASSUME PanelNext PROVE ReadInv'
  BY <1>5, QuietSteps, DeleteKeeps DEF PanelNext
<1>6. QED
  BY <1>3, <1>4, <1>5, QuietSteps DEF IngestNext

LEMMA InitReads == Init => ReadInv
<1> SUFFICES ASSUME Init PROVE ReadInv
  OBVIOUS
<1>1. PICK scene \in Scenes :
         /\ source = [s \in Sources |->
               [status |-> IF s \in scene.present THEN "on" ELSE "deleted", mark |-> 0]]
         /\ posted = [s \in Sources |-> IF s \in scene.present THEN scene.posted ELSE MaxPost]
         /\ left = scene.left
  BY DEF Init, IngestInit
<1>2. /\ rows = [s \in Sources |-> {}] /\ worker = [list |-> {}, up |-> FALSE] /\ inbox = {}
      /\ bf = [r \in Readers |-> Rested] /\ horizon = Zero /\ missed = [s \in Sources |-> {}]
  BY DEF Init, IngestInit
<1>3. /\ scene.posted \in Marks /\ MaxPost \in Marks
      /\ scene.left \in [edits : [Sources -> Nat], trouble : Nat, manual : Nat]
  <2>1. scene \in [present : SUBSET Sources, posted : 0 .. MaxPost,
                   left : [edits : [Sources -> Nat], trouble : Nat, manual : Nat]]
    BY IngestAssumption
  <2>2. QED
    BY <2>1, MessagesNat DEF Marks
<1>4. source \in [Sources -> [status : SourceStatus, mark : Marks]]
  BY <1>1, MessagesNat DEF SourceStatus
<1>5. posted \in [Sources -> Marks]
  BY <1>1, <1>3
<1>6. IngestTypeOK
  BY <1>1, <1>2, <1>3, <1>4, <1>5, ReaderTypes, RestedOK
<1>7. \A s \in Sources : source[s].mark = 0
  BY <1>1
<1>8. \A r \in Readers : bf[r] = Rested
  BY <1>2
<1>9. \A r \in Readers : Covers(r)
  BY <1>8 DEF Rested, Zero, Covers, MarksCover
<1>10. TickHolds
  BY <1>8 DEF Rested, TickHolds, Readers
<1>11. QED
  BY <1>6, <1>7, <1>9, <1>10 DEF ReadInv, MarkCovers

LEMMA UnchangedReads ==
    ASSUME ReadInv, UNCHANGED ingestVars
    PROVE  ReadInv'
  BY DEF ingestVars, ReadInv, IngestTypeOK, MarkCovers, Covers, LoadedCovers, BatchCovers,
         MarksCover, TickHolds, Known

LEMMA ReadInvariant == Spec => []ReadInv
<1>1. ASSUME ReadInv, [Next]_vars PROVE ReadInv'
  <2>1. CASE ReadingStep
    BY <1>1, <2>1, ReadingKeeps DEF ReadingStep
  <2>2. CASE TrustStep \/ UNCHANGED vars
    BY <1>1, <2>2, UnchangedReads DEF TrustStep, vars
  <2>3. QED
    BY <1>1, <2>1, <2>2 DEF Next
<1>2. QED
  BY <1>1, InitReads, PTL DEF Spec

-----------------------------------------------------------------------------
\* The watermark of a source passes no message over, whatever is published, lost,
\* switched off or deleted meanwhile and however the tick and the forced generations
\* overlap: from the first scan on, each message up to it is a candidate, or was refused
\* while the source was off (backfill_source_channel, receive_post).
THEOREM MarksAreSound == Spec => []WatermarkSound
<1>1. ASSUME ReadInv PROVE WatermarkSound
  <2>1. ASSUME NEW s \in Sources, source[s].mark # 0, NEW m \in horizon[s] .. source[s].mark
        PROVE  m \in rows[s] \union missed[s]
    <3>1. source[s].mark \in Marks /\ horizon[s] \in Marks
      BY <1>1, ReaderTypes DEF ReadInv
    <3>2. source[s].mark \in 0 .. MaxPost /\ horizon[s] \in Nat /\ MaxPost \in Nat
      BY <3>1, MessagesNat DEF Marks
    <3>3. /\ horizon[s] >= 1
          /\ \A k \in Messages : horizon[s] <= k /\ k <= source[s].mark => Known(s, k)
      BY <1>1, <2>1 DEF ReadInv, MarkCovers
    <3>4. m \in Messages /\ horizon[s] <= m /\ m <= source[s].mark
      BY <2>1, <3>2, <3>3 DEF Messages
    <3>5. QED
      BY <3>3, <3>4 DEF Known
  <2>2. QED
    BY <2>1 DEF WatermarkSound
<1>2. QED
  BY <1>1, ReadInvariant, PTL

\* The tick never has the posts of two sources at stake: it commits source by source, so
\* a failure in one costs nothing of those read before (backfill_job).
THEOREM TickRisksOneSource == Spec => []TickHoldsOneSource
<1>1. ASSUME ReadInv PROVE TickHoldsOneSource
  <2>1. \A e \in bf["tick"].pending : bf["tick"].of = {e[1]}
    BY <1>1 DEF ReadInv, TickHolds
  <2>2. ASSUME NEW e \in bf["tick"].pending, NEW f \in bf["tick"].pending PROVE e[1] = f[1]
    <3>1. {e[1]} = {f[1]}
      BY <2>1
    <3>2. QED
      BY <3>1
  <2>3. QED
    BY <2>2 DEF TickHoldsOneSource
<1>2. QED
  BY <1>1, ReadInvariant, PTL

-----------------------------------------------------------------------------
\* What adjust_trust_score writes is within the bounds.
LEMMA ClampIsTrust ==
    ASSUME bounds \in Limits, NEW v \in Int
    PROVE  Clamp(v) \in Trusts
<1>1. bounds.min \in Trusts /\ bounds.max \in Trusts
  BY DEF Limits
<1>2. bounds.min \in Int /\ bounds.max \in Int /\ bounds.min < bounds.max /\ Highest \in Int
      /\ 0 <= bounds.min /\ bounds.max <= Highest
  BY <1>1, TrustAssumption DEF Trusts, Limits
<1>3. Lower(bounds.max, v) \in Int /\ Lower(bounds.max, v) <= bounds.max
  BY <1>2 DEF Lower
<1>4. Clamp(v) \in Int /\ bounds.min <= Clamp(v) /\ Clamp(v) <= bounds.max
  BY <1>2, <1>3 DEF Clamp, Upper
<1>5. QED
  BY <1>2, <1>4 DEF Trusts

\* An object with a value to write has one.
Objects == {o \in [held : Trusts \union {-1}, dirty : BOOLEAN] : o.dirty => o.held \in Trusts}

TrustInv == TrustTypeOK /\ judge \in [Judges -> Objects]

LEMMA ObjectTypes ==
    ASSUME NEW f \in [Judges -> Objects]
    PROVE  f \in [Judges -> [held : Trusts \union {-1}, dirty : BOOLEAN]]
  BY DEF Objects

LEMMA TrustSteps ==
    ASSUME TrustInv, TrustNext
    PROVE  TrustInv'
<1>1. /\ trust \in Trusts /\ bounds \in Limits /\ judge \in [Judges -> Objects]
      /\ setbacks \in 0 .. MaxSetbacks /\ changed \in 0 .. MaxBounds
  BY DEF TrustInv, TrustTypeOK
<1>2. MaxSetbacks \in Nat /\ MaxBounds \in Nat /\ Trusts \subseteq Int
  BY TrustAssumption DEF Trusts
<1>3. ASSUME NEW j \in Judges, NEW o \in Objects, judge' = [judge EXCEPT ![j] = o],
             UNCHANGED <<trust, bounds, changed>>,
             setbacks' = setbacks \/ (setbacks < MaxSetbacks /\ setbacks' = setbacks + 1)
      PROVE  TrustInv'
  <2>1. judge' \in [Judges -> Objects]
    BY <1>1, <1>3
  <2>2. setbacks' \in 0 .. MaxSetbacks
    BY <1>1, <1>2, <1>3
  <2>3. QED
    BY <1>1, <1>3, <2>1, <2>2, ObjectTypes DEF TrustInv, TrustTypeOK
<1>4. ASSUME NEW j \in Judges, Load(j) PROVE TrustInv'
  <2> DEFINE o == [judge[j] EXCEPT !.held = trust]
  <2>1. o \in Objects
    BY <1>1 DEF Objects
  <2>2. judge' = [judge EXCEPT ![j] = o]
    BY <1>1, <1>4 DEF Load
  <2> HIDE DEF o
  <2>3. QED
    BY <1>3, <1>4, <2>1, <2>2 DEF Load
<1>5. ASSUME NEW j \in Judges, NEW e \in Events(j), Adjust(j, e) PROVE TrustInv'
  <2> DEFINE after == Clamp(judge[j].held + Delta(e))
             o == [judge[j] EXCEPT !.held = after, !.dirty = @ \/ after # judge[j].held]
  <2>1. judge[j] \in Objects /\ judge[j].held \in Int
    <3>1. judge[j] \in Objects
      BY <1>1
    <3>2. judge[j].held \in Trusts \/ judge[j].held = -1
      BY <3>1 DEF Objects
    <3>3. QED
      BY <1>2, <3>1, <3>2
  <2>2. Delta(e) \in Int
    <3>1. e = "success" \/ e \in {"rejected", "duplicate"}
      BY DEF Events
    <3>2. CASE e = "success"
      BY <3>2, TrustAssumption DEF Delta
    <3>3. CASE e \in {"rejected", "duplicate"}
      BY <3>3, TrustAssumption DEF Delta
    <3>4. QED
      BY <3>1, <3>2, <3>3
  <2>3. after \in Trusts
    BY <1>1, <2>1, <2>2, ClampIsTrust
  <2>4. judge' = [judge EXCEPT ![j].held = after, ![j].dirty = @ \/ after # judge[j].held]
    BY <1>5 DEF Adjust
  <2> HIDE DEF after
  <2>5. o \in Objects
    BY <2>1, <2>3 DEF Objects
  <2>6. judge' = [judge EXCEPT ![j] = o]
    BY <1>1, <2>1, <2>4 DEF Objects
  <2> HIDE DEF o
  <2>7. /\ UNCHANGED <<trust, bounds, changed>>
        /\ setbacks' = setbacks \/ (setbacks < MaxSetbacks /\ setbacks' = setbacks + 1)
    BY <1>5 DEF Adjust
  <2>8. QED
    BY <1>3, <2>5, <2>6, <2>7
<1>6. ASSUME NEW j \in Judges, CommitTrust(j) PROVE TrustInv'
  <2> DEFINE o == [judge[j] EXCEPT !.dirty = FALSE]
  <2>1. judge[j] \in Objects /\ judge[j].dirty
    BY <1>1, <1>6 DEF CommitTrust
  <2>2. o \in Objects /\ judge[j].held \in Trusts
    BY <2>1 DEF Objects
  <2>3. judge' = [judge EXCEPT ![j] = o]
    BY <1>1, <1>6 DEF CommitTrust
  <2> HIDE DEF o
  <2>4. judge' \in [Judges -> Objects]
    BY <1>1, <2>2, <2>3
  <2>5. QED
    BY <1>1, <1>6, <2>2, <2>4, ObjectTypes DEF CommitTrust, TrustInv, TrustTypeOK
<1>7. ASSUME NEW j \in Judges, Discard(j) PROVE TrustInv'
  <2>1. NotLoaded \in Objects
    BY DEF NotLoaded, Objects
  <2>2. QED
    BY <1>3, <1>7, <2>1 DEF Discard
<1>8. ASSUME NEW b \in Limits, SetBounds(b) PROVE TrustInv'
  <2>1. bounds' \in Limits /\ changed' \in 0 .. MaxBounds
    BY <1>1, <1>2, <1>8 DEF SetBounds
  <2>2. QED
    BY <1>1, <1>8, <2>1, ObjectTypes DEF SetBounds, TrustInv, TrustTypeOK
<1>9. QED
  BY <1>4, <1>5, <1>6, <1>7, <1>8 DEF TrustNext

\* Every table and object of the source channels has its type: what is read, and the
\* trust, which never leaves the widest bounds whatever stale values the sessions write.
THEOREM SourcesAreTyped == Spec => []TypeOK
<1> DEFINE Inv == part \in {"reading", "trust"} /\ ReadInv /\ TrustInv
<1>1. Init => Inv
  <2> SUFFICES ASSUME Init PROVE Inv
    OBVIOUS
  <2>1. bounds \in Limits /\ trust \in bounds.min .. bounds.max
    BY DEF Init, TrustInit
  <2>2. trust \in Trusts
    <3>1. bounds.min \in Trusts /\ bounds.max \in Trusts
      BY <2>1 DEF Limits
    <3>2. QED
      BY <2>1, <3>1, TrustAssumption DEF Trusts
  <2>3. NotLoaded \in Objects
    BY DEF NotLoaded, Objects
  <2>4. /\ judge = [j \in Judges |-> NotLoaded] /\ setbacks = 0 /\ changed = 0
        /\ part \in {"reading", "trust"}
    BY DEF Init, TrustInit
  <2>5. judge \in [Judges -> Objects]
    BY <2>3, <2>4
  <2>6. QED
    BY <2>1, <2>2, <2>4, <2>5, InitReads, ObjectTypes, TrustAssumption DEF TrustInv, TrustTypeOK
<1>2. Inv /\ [Next]_vars => Inv'
  <2> SUFFICES ASSUME Inv, [Next]_vars PROVE Inv'
    OBVIOUS
  <2>1. CASE ReadingStep
    BY <2>1, ReadingKeeps DEF ReadingStep, trustVars, TrustInv, TrustTypeOK
  <2>2. CASE TrustStep
    BY <2>2, TrustSteps, UnchangedReads DEF TrustStep
  <2>3. CASE UNCHANGED vars
    BY <2>3, UnchangedReads DEF vars, trustVars, TrustInv, TrustTypeOK
  <2>4. QED
    BY <2>1, <2>2, <2>3 DEF Next
<1>3. Inv => TypeOK
  BY DEF ReadInv, TrustInv, TypeOK
<1> HIDE DEF Inv
<1>4. QED
  BY <1>1, <1>2, <1>3, PTL DEF Spec
=============================================================================
