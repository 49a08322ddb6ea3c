--------------------------- MODULE TimetableProofs ---------------------------
(***************************************************************************)
(* Timetable for any channels, posts, scenes and lists of rubrics: what    *)
(* the job brings to a channel keeps the interval, the forecast says when, *)
(* a rubric is not taken twice running while another waits, and a batch is *)
(* spread over the rubrics. A fact about all numbers is proved of the      *)
(* least one for which it would fail (Least).                              *)
(***************************************************************************)
EXTENDS Timetable, WellFoundedInduction, FiniteSetTheorems, SequenceTheorems, TLAPS

-----------------------------------------------------------------------------
\* A set of numbers has a least member.
LEMMA Least ==
    ASSUME NEW T, T \subseteq Nat, T # {}
    PROVE  \E x \in T : \A y \in T : x <= y
<1> DEFINE R == {ss \in Nat \X Nat : ss[1] < ss[2]}
<1>1. IsWellFoundedOn(R, Nat)
  BY NatLessThanWellFounded DEF OpToRel
<1>2. PICK x \in T : \A y \in T : ~ (<<y, x>> \in R)
  <2> HIDE DEF R
  <2> QED
    BY <1>1, WFMin
<1>3. ASSUME NEW y \in T PROVE x <= y
  <2>1. x \in Nat /\ y \in Nat /\ (y < x => <<y, x>> \in R)
    OBVIOUS
  <2>2. QED
    BY <1>2, <2>1
<1>4. QED
  BY <1>3

-----------------------------------------------------------------------------
\* What the job has in hand was due, and stays so in every channel not covered since.
SpacingInv ==
    /\ since \in [Channels -> 0 .. cadence.min] /\ on \subseteq Channels
    /\ cadence.min \in Nat
    /\ DOMAIN job = {"of", "chans", "covered"} /\ job.chans \subseteq Channels
    /\ \A c \in job.chans \ job.covered : since[c] >= cadence.min

\* is_due looks at the latest publication, so it looks at all of them.
LEMMA DueEverywhere ==
    ASSUME SpacingInv, Due
    PROVE  \A c \in on : since[c] >= cadence.min
<1> DEFINE T == {since[c] : c \in on}
<1>1. T \subseteq Nat /\ T # {}
  BY TimetableAssumption DEF SpacingInv, Due
<1>2. \A t \in T : Min(T) \in T /\ Min(T) <= t
  <2>1. \E x \in T : \A y \in T : x <= y
    <3> HIDE DEF T
    <3> QED
      BY <1>1, Least
  <2>2. QED
    BY <2>1 DEF Min
<1>3. Min(T) >= cadence.min
  BY DEF Due, LastAgo
<1>4. ASSUME NEW c \in on PROVE since[c] >= cadence.min
  <2>1. since[c] \in T
    OBVIOUS
  <2> HIDE DEF T
  <2>2. since[c] \in Nat /\ Min(T) \in Nat /\ Min(T) <= since[c]
    BY <1>1, <1>2, <2>1
  <2>3. QED
    BY <1>3, <2>2 DEF SpacingInv
<1>5. QED
  BY <1>4

LEMMA SpacingInit == Init => SpacingInv
<1> SUFFICES ASSUME Init PROVE SpacingInv
  OBVIOUS
<1>1. PICK s \in Scenes : cadence = s.cadence /\ since = [c \in Channels |-> s.cadence.min]
  BY DEF Init
<1>2. cadence \in Cadences
  BY <1>1 DEF Cadences
<1>3. cadence.min \in Nat
  BY <1>2, TimetableAssumption
<1>4. QED
  BY <1>1, <1>3 DEF Init, SpacingInv, Idle

LEMMA SpacingSteps == SpacingInv /\ [Next]_vars => SpacingInv'
<1> SUFFICES ASSUME SpacingInv, [Next]_vars PROVE SpacingInv'
  OBVIOUS
<1>1. CASE Clock
  <2>1. cadence' = cadence /\ \A c \in Channels : since'[c] \in 0 .. cadence.min /\ since'[c] >= since[c]
    BY <1>1 DEF Clock, SpacingInv
  <2>2. \A c \in job.chans : since[c] \in Nat /\ since'[c] \in Nat /\ since'[c] >= since[c]
    BY <2>1 DEF SpacingInv
  <2>3. since' \in [Channels -> 0 .. cadence.min] /\ UNCHANGED <<cadence, on, job>>
    BY <1>1, <2>1 DEF Clock
  <2>4. QED
    BY <2>1, <2>2, <2>3 DEF SpacingInv
<1>2. ASSUME NEW p \in Posts, Arrive(p) PROVE SpacingInv'
  BY <1>2 DEF Arrive, SpacingInv
<1>3. ASSUME NEW p \in Posts, JobPicks(p) PROVE SpacingInv'
  BY <1>3, DueEverywhere DEF JobPicks, SpacingInv
<1>4. ASSUME NEW p \in Posts, Demote(p) PROVE SpacingInv'
  BY <1>4 DEF Demote, SpacingInv
<1>5. CASE JobTakesPool
  BY <1>5, DueEverywhere DEF JobTakesPool, SpacingInv
<1>6. CASE JobCommits
  BY <1>6, TimetableAssumption DEF JobCommits, SpacingInv, Idle
<1>7. CASE JobFails
  BY <1>7 DEF JobFails, SpacingInv, Idle
<1>8. ASSUME NEW c \in Channels, Cover(c) PROVE SpacingInv'
  <2>1. since' = [since EXCEPT ![c] = 0] /\ cadence' = cadence /\ on' = on
    BY <1>8 DEF Cover
  <2>2. /\ job'.chans = job.chans /\ job'.covered = job.covered \union ({c} \intersect job.chans)
        /\ DOMAIN job' = DOMAIN job
    BY <1>8 DEF Cover, SpacingInv
  <2>3. \A d \in job'.chans \ job'.covered : d # c /\ d \in job.chans \ job.covered
    BY <2>2
  <2>4. QED
    BY <2>1, <2>2, <2>3, TimetableAssumption DEF SpacingInv
<1>9. ASSUME NEW c \in Channels, Switch(c) PROVE SpacingInv'
  BY <1>9 DEF Switch, SpacingInv
<1>10. ASSUME NEW p \in Posts, Renew(p) PROVE SpacingInv'
  BY <1>10 DEF Renew, SpacingInv
<1>11. CASE SwitchAuto
  BY <1>11 DEF SwitchAuto, SpacingInv
<1>12. CASE UNCHANGED vars
  BY <1>12 DEF vars, dayVars, SpacingInv
<1>13. QED
  BY <1>1, <1>2, <1>3, <1>4, <1>5, <1>6, <1>7, <1>8, <1>9, <1>10, <1>11, <1>12 DEF Next, DayNext

\* Whatever channels are switched on and off while a post is on its way, it comes to none
\* earlier after the last publication there than the interval, but after a cover
\* (is_due, publish_pool_job).
THEOREM PostsAreSpacedOut == Spec => SpacedOut
<1>1. SpacingInv /\ [Next]_vars =>
        [JobCommits => \A c \in job.chans \ job.covered : since[c] >= cadence.min]_vars
  BY DEF SpacingInv
<1>2. QED
  BY <1>1, SpacingInit, SpacingSteps, PTL DEF Spec, SpacedOut

-----------------------------------------------------------------------------
\* A name found by going through the list is a name of the list, or there is none.
LEMMA FirstFound ==
    ASSUME NEW list \in Seq(Names), NEW names
    PROVE  First(list, names) \in ToSet(list) \union {"none"}
<1> DEFINE found == {i \in DOMAIN list : list[i] \in names}
<1>1. CASE found = {}
  BY <1>1 DEF First
<1>2. CASE found # {}
  <2>1. found \subseteq Nat
    OBVIOUS
  <2>2. \E i \in found : \A j \in found : i <= j
    <3> HIDE DEF found
    <3> QED
      BY <1>2, <2>1, Least
  <2>3. (CHOOSE i \in found : \A j \in found : i <= j) \in DOMAIN list
    BY <2>2
  <2>4. First(list, names) = list[CHOOSE i \in found : \A j \in found : i <= j]
    BY <1>2 DEF First
  <2>5. QED
    BY <2>3, <2>4 DEF ToSet
<1>3. QED
  BY <1>1, <1>2

-----------------------------------------------------------------------------
\* The position of a name that was out lately is one of its positions.
LEMMA StaleKnown ==
    ASSUME NEW recent \in Seq(Names), NEW name \in ToSet(recent)
    PROVE  \E i \in DOMAIN recent : recent[i] = name /\ Stale(name, recent) = i - 1
<1> DEFINE at == {i \in DOMAIN recent : recent[i] = name}
<1>1. at \subseteq Nat /\ at # {}
  BY DEF ToSet
<1>2. PICK i \in at : \A j \in at : i <= j
  <2> HIDE DEF at
  <2> QED
    BY <1>1, Least
<1>3. \A j \in 1 .. i - 1 : recent[j] # name
  <2>1. ASSUME NEW j \in 1 .. i - 1 PROVE j \notin at
    BY <1>1, <1>2
  <2>2. \A j \in 1 .. i - 1 : j \in DOMAIN recent
    BY <1>2
  <2>3. QED
    BY <2>1, <2>2
<1>4. QED
  BY <1>2, <1>3 DEF Stale

\* freshest_by_rubric never takes the rubric of the last post while one of the ready posts
\* has another: whatever was out lately, however many posts are ready.
THEOREM FreshestAlternates ==
    ASSUME NEW recent \in Seq(Names), recent # <<>>,
           NEW posts, NEW labels \in [posts -> Labels],
           NEW p \in Freshest(posts, labels, recent), labels[p] = recent[1]
    PROVE  \A q \in posts : labels[q] = labels[p]
<1>1. p \in posts /\ \A q \in posts : Stale(labels[p], recent) >= Stale(labels[q], recent)
  BY DEF Freshest
<1>2. 1 \in DOMAIN recent /\ recent[1] \in ToSet(recent) /\ Len(recent) \in Nat
  BY DEF ToSet
<1>3. Stale(recent[1], recent) = 0
  <2>1. \A i \in DOMAIN recent :
           (recent[i] = recent[1] /\ \A j \in 1 .. i - 1 : recent[j] # recent[1]) <=> i = 1
    BY <1>2
  <2>2. (CHOOSE i \in DOMAIN recent : recent[i] = recent[1]
                       /\ \A j \in 1 .. i - 1 : recent[j] # recent[1]) = 1
    BY <1>2, <2>1
  <2>3. QED
    BY <1>2, <2>2 DEF Stale
<1>4. ASSUME NEW q \in posts PROVE labels[q] = labels[p]
  <2>1. 0 >= Stale(labels[q], recent)
    BY <1>1, <1>3
  <2>2. CASE labels[q] \in ToSet(recent)
    <3>1. PICK i \in DOMAIN recent : recent[i] = labels[q] /\ Stale(labels[q], recent) = i - 1
      BY <2>2, StaleKnown
    <3>2. i = 1
      BY <2>1, <3>1
    <3>3. QED
      BY <3>1, <3>2
  <2>3. CASE labels[q] \notin ToSet(recent)
    BY <1>2, <2>1, <2>3 DEF Stale
  <2>4. QED
    BY <2>2, <2>3
<1>5. QED
  BY <1>4


-----------------------------------------------------------------------------
\* Places in an order: how many members of D come before x by R. A total order of a finite
\* set has a member at every place, and one only.
Place(D, R, x) == Cardinality({y \in D : <<y, x>> \in R})

Orders(R, D) ==
    /\ \A x \in D : \A y \in D : x # y => <<x, y>> \in R \/ <<y, x>> \in R
    /\ \A x \in D : \A y \in D : ~(<<x, y>> \in R /\ <<y, x>> \in R)
    /\ \A x \in D : \A y \in D : \A z \in D : <<x, y>> \in R /\ <<y, z>> \in R => <<x, z>> \in R

LEMMA PlacesFollow ==
    ASSUME NEW D, IsFiniteSet(D), NEW R, Orders(R, D), NEW x \in D, NEW y \in D
    PROVE  /\ Place(D, R, x) \in 0 .. Cardinality(D) - 1
           /\ <<x, y>> \in R <=> Place(D, R, x) < Place(D, R, y)
           /\ Place(D, R, x) = Place(D, R, y) => x = y
<1> DEFINE B(z) == {w \in D : <<w, z>> \in R}
<1>1. ASSUME NEW z \in D
      PROVE  /\ IsFiniteSet(B(z)) /\ Cardinality(B(z)) \in Nat /\ z \notin B(z)
             /\ Place(D, R, z) = Cardinality(B(z))
  <2>1. IsFiniteSet(B(z))
    BY FS_Subset
  <2>2. QED
    BY <2>1, FS_CardinalityType DEF Place, Orders
<1>2. ASSUME NEW z \in D, NEW w \in D, <<z, w>> \in R PROVE Cardinality(B(z)) < Cardinality(B(w))
  <2>1. B(z) \subseteq B(w) \ {z} /\ z \in B(w)
    BY <1>2 DEF Orders
  <2>2. /\ IsFiniteSet(B(w) \ {z}) /\ Cardinality(B(w) \ {z}) = Cardinality(B(w)) - 1
        /\ Cardinality(B(w)) \in Nat /\ Cardinality(B(z)) \in Nat
    <3> HIDE DEF B
    <3>1. QED
      BY <1>1, <2>1, FS_RemoveElement
  <2>3. Cardinality(B(z)) <= Cardinality(B(w) \ {z})
    BY <2>1, <2>2, FS_Subset
  <2> HIDE DEF B
  <2>4. QED
    BY <2>2, <2>3
<1>3. Cardinality(B(x)) < Cardinality(D) /\ Cardinality(D) \in Nat
  <2>1. B(x) \subseteq D \ {x}
    BY DEF Orders
  <2>2. IsFiniteSet(D \ {x}) /\ Cardinality(D \ {x}) = Cardinality(D) - 1 /\ Cardinality(D) \in Nat
    BY FS_RemoveElement, FS_CardinalityType
  <2>3. Cardinality(B(x)) <= Cardinality(D \ {x}) /\ Cardinality(B(x)) \in Nat
    BY <1>1, <2>1, <2>2, FS_Subset
  <2> HIDE DEF B
  <2>4. QED
    BY <2>2, <2>3
<1> HIDE DEF B
<1>4. x = y \/ <<x, y>> \in R \/ <<y, x>> \in R
  BY DEF Orders
<1>5. /\ Cardinality(B(x)) \in Nat /\ Place(D, R, x) = Cardinality(B(x))
      /\ Cardinality(B(y)) \in Nat /\ Place(D, R, y) = Cardinality(B(y))
  BY <1>1
<1>6. <<x, y>> \in R => Cardinality(B(x)) < Cardinality(B(y))
  BY <1>2
<1>7. <<y, x>> \in R => Cardinality(B(y)) < Cardinality(B(x))
  BY <1>2
<1>8. Place(D, R, x) \in 0 .. Cardinality(D) - 1
  BY <1>3, <1>5
<1>9. QED
  BY <1>4, <1>5, <1>6, <1>7, <1>8

LEMMA PlacesFilled ==
    ASSUME NEW D, IsFiniteSet(D), NEW R, Orders(R, D)
    PROVE  \A k \in 0 .. Cardinality(D) - 1 : \E x \in D : Place(D, R, x) = k
<1> DEFINE n == Cardinality(D)
           T == 0 .. n - 1
           f == [x \in D |-> Place(D, R, x)]
<1>1. n \in Nat
  BY FS_CardinalityType
<1>2. IsFiniteSet(T) /\ Cardinality(T) = n
  <2> HIDE DEF n
  <2>1. QED
    BY <1>1, FS_Interval
<1>3. f \in Injection(D, T)
  <2>1. f \in [D -> T]
    BY PlacesFollow
  <2>2. \A x \in D : \A y \in D : f[x] = f[y] => x = y
    BY PlacesFollow
  <2> HIDE DEF f, T
  <2>3. QED
    BY <2>1, <2>2 DEF Injection, IsInjective
<1>4. f \in Surjection(D, T)
  <2> HIDE DEF f, T
  <2>1. QED
    BY <1>2, <1>3, FS_Injection
<1>5. \A k \in T : \E x \in D : f[x] = k
  <2> HIDE DEF f, T
  <2>1. QED
    BY <1>4 DEF Surjection
<1>6. QED
  BY <1>5

\* As many as wanted have the first places.
LEMMA FirstPlaces ==
    ASSUME NEW D, IsFiniteSet(D), NEW R, Orders(R, D), NEW c \in 0 .. Cardinality(D)
    PROVE  Cardinality({x \in D : Place(D, R, x) < c}) = c
<1> DEFINE S == {x \in D : Place(D, R, x) < c}
           T == 0 .. c - 1
           f == [x \in S |-> Place(D, R, x)]
<1>1. Cardinality(D) \in Nat /\ c \in Nat /\ c <= Cardinality(D) /\ \A x \in D : Place(D, R, x) \in Nat
  <2>1. Cardinality(D) \in Nat
    BY FS_CardinalityType
  <2>2. \A x \in D : Place(D, R, x) \in 0 .. Cardinality(D) - 1
    BY PlacesFollow
  <2>3. QED
    BY <2>1, <2>2
<1>2. IsFiniteSet(T) /\ Cardinality(T) = c
  <2>1. c - 1 \in Int /\ (0 > c - 1 <=> c = 0) /\ c - 1 - 0 + 1 = c
    BY <1>1
  <2>2. QED
    BY <2>1, FS_Interval
<1>3. f \in [S -> T]
  BY <1>1
<1>4. f \in Injection(S, T)
  <2>1. \A x \in S : \A y \in S : f[x] = f[y] => x = y
    BY PlacesFollow
  <2> HIDE DEF f, T, S
  <2>2. QED
    BY <1>3, <2>1 DEF Injection, IsInjective
<1>5. f \in Surjection(S, T)
  <2>1. ASSUME NEW k \in T PROVE \E x \in S : f[x] = k
    <3>1. PICK x \in D : Place(D, R, x) = k
      BY <1>1, <2>1, PlacesFilled
    <3>2. x \in S /\ f[x] = k
      BY <1>1, <2>1, <3>1
    <3>3. QED
      BY <3>2
  <2> HIDE DEF f, T, S
  <2>2. QED
    BY <1>3, <2>1 DEF Surjection
<1>6. QED
  <2> HIDE DEF f, T, S
  <2>1. Cardinality(S) = Cardinality(T)
    BY <1>2, <1>4, <1>5, FS_Injection
  <2>2. QED
    BY <1>2, <2>1 DEF S


-----------------------------------------------------------------------------
\* Of the posts of one rubric the better is of an earlier round.
LEMMA RoundsGrow ==
    ASSUME NEW pool \in Seq(Labels), NEW i \in DOMAIN pool, NEW j \in DOMAIN pool
    PROVE  /\ Round(pool, i) \in Nat
           /\ pool[i] = pool[j] /\ i < j => Round(pool, i) < Round(pool, j)
<1> DEFINE U(k) == {l \in 1 .. k : pool[l] = pool[k]}
<1>1. ASSUME NEW k \in DOMAIN pool
      PROVE  /\ k \in Nat \ {0} /\ IsFiniteSet(U(k)) /\ Cardinality(U(k)) \in Nat
             /\ Round(pool, k) = Cardinality(U(k))
  <2>1. k \in Nat \ {0}
    OBVIOUS
  <2>2. IsFiniteSet(1 .. k)
    BY <2>1, FS_Interval
  <2>3. IsFiniteSet(U(k))
    BY <2>2, FS_Subset
  <2>4. QED
    BY <2>1, <2>3, FS_CardinalityType DEF Round
<1>2. ASSUME pool[i] = pool[j], i < j PROVE Cardinality(U(i)) < Cardinality(U(j))
  <2>1. U(i) \subseteq U(j) \ {j} /\ j \in U(j)
    BY <1>1, <1>2
  <2> HIDE DEF U
  <2>2. IsFiniteSet(U(j) \ {j}) /\ Cardinality(U(j) \ {j}) = Cardinality(U(j)) - 1
    BY <1>1, <2>1, FS_RemoveElement
  <2>3. Cardinality(U(i)) <= Cardinality(U(j) \ {j})
    BY <2>1, <2>2, FS_Subset
  <2>4. Cardinality(U(i)) \in Nat /\ Cardinality(U(j)) \in Nat
    BY <1>1
  <2>5. QED
    BY <2>2, <2>3, <2>4
<1> HIDE DEF U
<1>3. QED
  BY <1>1, <1>2

\* Rubrics have different turns.
LEMMA TurnIsFirst ==
    ASSUME NEW pool \in Seq(Labels), NEW i \in DOMAIN pool
    PROVE  /\ Turn(pool, i) \in DOMAIN pool /\ pool[Turn(pool, i)] = pool[i]
           /\ \A k \in 1 .. Turn(pool, i) - 1 : pool[k] # pool[i]
<1> DEFINE at == {k \in DOMAIN pool : pool[k] = pool[i]}
<1>1. at \subseteq Nat /\ at # {}
  OBVIOUS
<1>2. PICK j \in at : \A k \in at : j <= k
  <2> HIDE DEF at
  <2> QED
    BY <1>1, Least
<1>3. j \in DOMAIN pool /\ pool[j] = pool[i] /\ \A k \in 1 .. j - 1 : pool[k] # pool[i]
  <2>1. ASSUME NEW k \in 1 .. j - 1 PROVE k \notin at /\ k \in DOMAIN pool
    BY <1>1, <1>2
  <2>2. QED
    BY <1>2, <2>1
<1>4. QED
  BY <1>3 DEF Turn

LEMMA TurnsDiffer ==
    ASSUME NEW pool \in Seq(Labels), NEW i \in DOMAIN pool, NEW j \in DOMAIN pool
    PROVE  /\ Turn(pool, i) \in Nat
           /\ Turn(pool, i) = Turn(pool, j) <=> pool[i] = pool[j]
<1> DEFINE a == Turn(pool, i)
           b == Turn(pool, j)
<1>1. /\ a \in DOMAIN pool /\ pool[a] = pool[i] /\ \A k \in 1 .. a - 1 : pool[k] # pool[i]
      /\ b \in DOMAIN pool /\ pool[b] = pool[j] /\ \A k \in 1 .. b - 1 : pool[k] # pool[j]
  BY TurnIsFirst
<1> HIDE DEF a, b
<1>2. a \in Nat \ {0} /\ b \in Nat \ {0}
  BY <1>1
<1>3. (a < b => a \in 1 .. b - 1) /\ (b < a => b \in 1 .. a - 1)
  BY <1>2
<1>4. a = b <=> pool[i] = pool[j]
  BY <1>1, <1>2, <1>3
<1>5. QED
  BY <1>2, <1>4 DEF a, b

Sooner(pool) == {ss \in (DOMAIN pool) \X (DOMAIN pool) : Before(pool, ss[1], ss[2])}

LEMMA InSooner ==
    ASSUME NEW pool, NEW i \in DOMAIN pool, NEW j \in DOMAIN pool
    PROVE  <<i, j>> \in Sooner(pool) <=> Before(pool, i, j)
  BY DEF Sooner

\* Two posts of a pool are never both before the other, and one of them is.
LEMMA BeforeOrders ==
    ASSUME NEW pool \in Seq(Labels)
    PROVE  Orders(Sooner(pool), DOMAIN pool)
<1> DEFINE D == DOMAIN pool
           R == Sooner(pool)
<1>1. \A i \in D : \A j \in D : <<i, j>> \in R <=> Before(pool, i, j)
  BY InSooner
<1>2. \A i \in D : Round(pool, i) \in Nat /\ Turn(pool, i) \in Nat
  BY RoundsGrow, TurnsDiffer
<1>3. ASSUME NEW i \in D, NEW j \in D, i # j PROVE Before(pool, i, j) \/ Before(pool, j, i)
  <2>1. CASE pool[i] = pool[j]
    <3>1. i < j \/ j < i
      BY <1>3
    <3>2. QED
      BY <1>3, <2>1, <3>1, RoundsGrow DEF Before
  <2>2. CASE pool[i] # pool[j]
    <3>1. Turn(pool, i) # Turn(pool, j)
      BY <2>2, TurnsDiffer
    <3>2. QED
      BY <1>2, <3>1 DEF Before
  <2>3. QED
    BY <2>1, <2>2
<1>4. \A i \in D : \A j \in D : ~ (Before(pool, i, j) /\ Before(pool, j, i))
  BY <1>2 DEF Before
<1>5. \A i \in D : \A j \in D : \A k \in D : Before(pool, i, j) /\ Before(pool, j, k) => Before(pool, i, k)
  BY <1>2 DEF Before
<1> HIDE DEF D, R
<1>6. Orders(R, D)
  BY <1>1, <1>3, <1>4, <1>5 DEF Orders
<1>7. QED
  BY <1>6 DEF D, R

LEMMA ChosenFirst ==
    ASSUME NEW pool \in Seq(Labels), NEW count
    PROVE  RoundRobin(pool, count) = {i \in DOMAIN pool : Place(DOMAIN pool, Sooner(pool), i) < count}
<1>1. ASSUME NEW i \in DOMAIN pool
      PROVE  Cardinality({j \in DOMAIN pool : Before(pool, j, i)}) = Place(DOMAIN pool, Sooner(pool), i)
  <2>1. {j \in DOMAIN pool : Before(pool, j, i)} = {j \in DOMAIN pool : <<j, i>> \in Sooner(pool)}
    BY InSooner
  <2>2. QED
    BY <2>1 DEF Place
<1>2. QED
  BY <1>1 DEF RoundRobin

LEMMA PoolFinite ==
    ASSUME NEW S, NEW s \in Seq(S)
    PROVE  IsFiniteSet(DOMAIN s) /\ Cardinality(DOMAIN s) = Len(s)
<1>1. Len(s) \in Nat /\ DOMAIN s = 1 .. Len(s)
  OBVIOUS
<1>2. IsFiniteSet(1 .. Len(s)) /\ Cardinality(1 .. Len(s)) = IF 1 > Len(s) THEN 0 ELSE Len(s) - 1 + 1
  BY <1>1, FS_Interval
<1>3. QED
  BY <1>1, <1>2

-----------------------------------------------------------------------------
\* Who is chosen comes before who is not; and as many are chosen as are wanted.
LEMMA ChosenComeFirst ==
    ASSUME NEW pool \in Seq(Labels), NEW count \in 0 .. Len(pool)
    PROVE  /\ RoundRobin(pool, count) \subseteq DOMAIN pool
           /\ Cardinality(RoundRobin(pool, count)) = count
           /\ \A i \in RoundRobin(pool, count) : \A j \in DOMAIN pool \ RoundRobin(pool, count) :
                Before(pool, i, j)
<1> DEFINE D == DOMAIN pool
           R == Sooner(pool)
           taken == RoundRobin(pool, count)
<1>1. IsFiniteSet(D) /\ Cardinality(D) = Len(pool)
  BY PoolFinite
<1>2. Orders(R, D)
  BY BeforeOrders
<1>3. taken = {i \in D : Place(D, R, i) < count}
  BY ChosenFirst
<1>4. Cardinality(taken) = count
  <2> HIDE DEF D, R, taken
  <2>1. Cardinality({i \in D : Place(D, R, i) < count}) = count
    BY <1>1, <1>2, FirstPlaces
  <2>2. QED
    BY <1>3, <2>1
<1>5. ASSUME NEW i \in taken, NEW j \in D \ taken PROVE Before(pool, i, j)
  <2>1. i \in D /\ j \in D
    BY <1>3, <1>5
  <2>2. Place(D, R, i) \in Nat /\ Place(D, R, j) \in Nat /\ Cardinality(D) \in Nat
    <3> HIDE DEF D, R
    <3>1. Place(D, R, i) \in 0 .. Cardinality(D) - 1 /\ Place(D, R, j) \in 0 .. Cardinality(D) - 1
      BY <1>1, <1>2, <2>1, PlacesFollow
    <3>2. QED
      BY <1>1, <3>1
  <2>3. Place(D, R, i) < count /\ ~ (Place(D, R, j) < count)
    BY <1>3, <1>5
  <2>4. <<i, j>> \in R
    <3>1. Place(D, R, i) < Place(D, R, j)
      BY <2>2, <2>3
    <3> HIDE DEF D, R
    <3>2. QED
      BY <1>1, <1>2, <2>1, <3>1, PlacesFollow
  <2>5. QED
    BY <2>1, <2>4, InSooner
<1>6. QED
  BY <1>3, <1>4, <1>5

\* Of a rubric no post is chosen before a better one.
LEMMA BestFirst ==
    ASSUME NEW pool \in Seq(Labels), NEW i \in DOMAIN pool, NEW j \in DOMAIN pool,
           pool[i] = pool[j], Before(pool, i, j)
    PROVE  i < j
<1>1. Round(pool, i) \in Nat /\ Round(pool, j) \in Nat /\ Turn(pool, i) = Turn(pool, j) /\ Turn(pool, i) \in Nat
  BY RoundsGrow, TurnsDiffer
<1>2. Round(pool, i) < Round(pool, j)
  BY <1>1 DEF Before
<1>3. i # j
  BY <1>1, <1>2
<1>4. ~ (j < i)
  BY <1>1, <1>2, RoundsGrow
<1>5. QED
  BY <1>3, <1>4

\* A set of numbers with a bound has a greatest.
LEMMA Greatest ==
    ASSUME NEW T, T \subseteq Nat, T # {}, NEW n \in Nat, \A x \in T : x <= n
    PROVE  \E x \in T : \A y \in T : y <= x
<1> DEFINE U == {u \in Nat : \A x \in T : x <= u}
<1>1. PICK u \in U : \A v \in U : u <= v
  <2>1. U \subseteq Nat /\ U # {}
    OBVIOUS
  <2> HIDE DEF U
  <2>2. QED
    BY <2>1, Least
<1>2. u \in T
  <2>1. SUFFICES ASSUME u \notin T PROVE FALSE
    OBVIOUS
  <2>2. u \in Nat /\ \A x \in T : x <= u - 1
    BY <1>1, <2>1
  <2>3. u - 1 \in Nat
    <3>1. PICK x \in T : TRUE
      OBVIOUS
    <3>2. x \in Nat /\ x <= u - 1
      BY <2>2
    <3>3. QED
      BY <2>2, <3>2
  <2>4. u - 1 \in U
    BY <2>2, <2>3
  <2>5. QED
    BY <1>1, <2>2, <2>4
<1>3. QED
  BY <1>1, <1>2

\* Round robin: a rubric with posts to spare has at most one less than any other.
LEMMA Balanced ==
    ASSUME NEW pool \in Seq(Labels), NEW taken, taken \subseteq DOMAIN pool,
           \A i \in taken : \A j \in DOMAIN pool \ taken : Before(pool, i, j),
           NEW i \in taken, NEW j \in DOMAIN pool \ taken
    PROVE  Cardinality({k \in taken : pool[k] = pool[i]}) <= Cardinality({k \in taken : pool[k] = pool[j]}) + 1
<1> DEFINE A == {k \in taken : pool[k] = pool[i]}
           B == {k \in taken : pool[k] = pool[j]}
           C == {k \in DOMAIN pool \ taken : pool[k] = pool[j]}
<1>1. /\ DOMAIN pool \subseteq Nat \ {0} /\ Len(pool) \in Nat /\ \A k \in DOMAIN pool : k <= Len(pool)
      /\ DOMAIN pool = 1 .. Len(pool) /\ IsFiniteSet(DOMAIN pool)
  BY PoolFinite
<1>2. PICK l \in C : \A k \in C : l <= k
  <2>1. C \subseteq Nat /\ C # {}
    BY <1>1
  <2> HIDE DEF C
  <2>2. QED
    BY <2>1, Least
<1>3. PICK m \in A : \A k \in A : k <= m
  <2>1. A \subseteq Nat /\ A # {} /\ \A k \in A : k <= Len(pool)
    BY <1>1
  <2> HIDE DEF A
  <2>2. QED
    BY <1>1, <2>1, Greatest
<1>4. l \in DOMAIN pool \ taken /\ pool[l] = pool[j] /\ m \in taken /\ pool[m] = pool[i]
  BY <1>2, <1>3
<1>5. Round(pool, l) \in Nat /\ Round(pool, m) \in Nat /\ Round(pool, m) <= Round(pool, l)
  <2>1. Before(pool, m, l)
    BY <1>4
  <2>2. Round(pool, l) \in Nat /\ Round(pool, m) \in Nat
    BY <1>4, RoundsGrow
  <2>3. QED
    BY <2>1, <2>2 DEF Before
<1>6. IsFiniteSet(A) /\ IsFiniteSet(B) /\ Cardinality(A) \in Nat /\ Cardinality(B) \in Nat
  <2>1. A \subseteq DOMAIN pool /\ B \subseteq DOMAIN pool
    OBVIOUS
  <2> HIDE DEF A, B
  <2>2. IsFiniteSet(A) /\ IsFiniteSet(B)
    BY <1>1, <2>1, FS_Subset
  <2>3. QED
    BY <2>2, FS_CardinalityType
<1> DEFINE V == {k \in 1 .. m : pool[k] = pool[m]}
           W == {k \in 1 .. l : pool[k] = pool[l]}
<1>7. IsFiniteSet(V) /\ IsFiniteSet(W)
  <2>1. IsFiniteSet(1 .. m) /\ IsFiniteSet(1 .. l)
    BY <1>1, <1>4, FS_Interval
  <2>2. QED
    BY <2>1, FS_Subset
<1>8. Cardinality(A) <= Round(pool, m)
  <2>1. A \subseteq V
    BY <1>1, <1>3, <1>4
  <2>2. Round(pool, m) = Cardinality(V)
    BY DEF Round
  <2> HIDE DEF A, V
  <2>3. QED
    BY <1>7, <2>1, <2>2, FS_Subset
<1>9. Round(pool, l) <= Cardinality(B) + 1
  <2>1. W \subseteq B \union {l}
    <3>1. ASSUME NEW k \in W, k # l PROVE k \in B
      <4>1. k \in DOMAIN pool /\ k < l /\ pool[k] = pool[j]
        BY <1>1, <1>4, <3>1
      <4>2. k \notin C
        BY <1>1, <1>2, <1>4, <4>1
      <4>3. QED
        BY <4>1, <4>2
    <3>2. QED
      BY <3>1
  <2>2. Round(pool, l) = Cardinality(W)
    BY DEF Round
  <2> HIDE DEF W, B
  <2>3. /\ IsFiniteSet(B \union {l})
        /\ Cardinality(B \union {l}) = Cardinality(B) \/ Cardinality(B \union {l}) = Cardinality(B) + 1
    BY <1>6, FS_AddElement
  <2>4. Cardinality(W) <= Cardinality(B \union {l})
    BY <2>1, <2>3, FS_Subset
  <2>5. QED
    BY <1>5, <1>6, <2>2, <2>3, <2>4
<1> HIDE DEF A, B
<1>10. Cardinality(A) <= Cardinality(B) + 1
  BY <1>5, <1>6, <1>8, <1>9
<1>11. QED
  BY <1>10 DEF A, B


LEMMA LeastOfThree ==
    ASSUME NEW a \in Nat, NEW b \in Nat, NEW c \in Nat
    PROVE  /\ Min({a, b, c}) \in {a, b, c}
           /\ Min({a, b, c}) <= a /\ Min({a, b, c}) <= b /\ Min({a, b, c}) <= c
<1>1. \E x \in {a, b, c} : \A y \in {a, b, c} : x <= y
  OBVIOUS
<1>2. Min({a, b, c}) \in {a, b, c} /\ \A y \in {a, b, c} : Min({a, b, c}) <= y
  <2> DEFINE T == {a, b, c}
  <2> HIDE DEF T
  <2>1. \E x \in T : \A y \in T : x <= y
    BY <1>1 DEF T
  <2>2. Min(T) \in T /\ \A y \in T : Min(T) <= y
    BY <2>1 DEF Min
  <2>3. QED
    BY <2>2 DEF T
<1>3. QED
  BY <1>2

LEMMA Factor ==
    ASSUME NEW c \in Nat, NEW f \in Nat \ {0}
    PROVE  c * f \in Nat /\ c <= c * f
<1>1. PICK g \in Nat : f = g + 1
  <2>1. f - 1 \in Nat /\ f = (f - 1) + 1
    OBVIOUS
  <2>2. QED
    BY <2>1
<1>2. c * f = c * g + c /\ c * g \in Nat
  BY <1>1
<1>3. QED
  BY <1>2

\* What a batch is drawn from: the best, as many as the factor and MAX_POOL let through.
LEMMA ChosenBalanced ==
    ASSUME NEW e \in Seq(Labels), NEW count \in Nat, NEW list
    PROVE  LET taken == Chosen(e, count, list)
               of(n) == {i \in taken : e[i] = n}
               pool == 1 .. Min({Len(e), count * PoolFactor, MaxPool})
           IN /\ Cardinality(taken) = Min({Len(e), count, MaxPool})
              /\ \A i \in taken, j \in pool \ taken : e[i] = e[j] => i < j
              /\ list # <<>> =>
                    \A i \in taken, j \in pool \ taken : Cardinality(of(e[i])) <= Cardinality(of(e[j])) + 1
<1> DEFINE limit == IF count * PoolFactor < MaxPool THEN count * PoolFactor ELSE MaxPool
           n == IF Len(e) < limit THEN Len(e) ELSE limit
           pool == SubSeq(e, 1, n)
           taken == Chosen(e, count, list)
           L == Len(e)
           P == count * PoolFactor
           m == Min({Len(e), count * PoolFactor, MaxPool})
           w == Min({Len(e), count, MaxPool})
<1>1. P \in Nat /\ count <= P /\ MaxPool \in Nat /\ L \in Nat
  BY Factor, RubricsAssumption
<1>2. m \in {L, P, MaxPool} /\ m <= L /\ m <= P /\ m <= MaxPool
  <2> HIDE DEF L, P
  <2>1. /\ Min({L, P, MaxPool}) \in {L, P, MaxPool}
        /\ Min({L, P, MaxPool}) <= L /\ Min({L, P, MaxPool}) <= P /\ Min({L, P, MaxPool}) <= MaxPool
    BY <1>1, LeastOfThree
  <2>2. QED
    BY <2>1 DEF L, P
<1>3. w \in {L, count, MaxPool} /\ w <= L /\ w <= count /\ w <= MaxPool
  <2> HIDE DEF L
  <2>1. /\ Min({L, count, MaxPool}) \in {L, count, MaxPool}
        /\ Min({L, count, MaxPool}) <= L /\ Min({L, count, MaxPool}) <= count /\ Min({L, count, MaxPool}) <= MaxPool
    BY <1>1, LeastOfThree
  <2>2. QED
    BY <2>1 DEF L
<1>4. n = m /\ n \in Nat /\ n <= Len(e)
  <2>1. n = IF L < (IF P < MaxPool THEN P ELSE MaxPool) THEN L ELSE (IF P < MaxPool THEN P ELSE MaxPool)
    OBVIOUS
  <2>2. L = Len(e)
    OBVIOUS
  <2> HIDE DEF n, m, L, P
  <2>3. QED
    BY <1>1, <1>2, <2>1, <2>2
<1>5. n <= count => w = n
  <2> HIDE DEF n, m, w, L, P
  <2>1. QED
    BY <1>1, <1>2, <1>3, <1>4
<1>6. n > count => w = count
  <2> HIDE DEF n, m, w, L, P
  <2>1. QED
    BY <1>1, <1>2, <1>3, <1>4
<1>7. taken = CASE Len(pool) <= count -> DOMAIN pool
                [] Len(pool) > count /\ list = <<>> -> 1 .. count
                [] OTHER -> RoundRobin(pool, count)
  BY DEF Chosen
<1> HIDE DEF n, m, w, L, P, taken, limit
<1>8. pool \in Seq(Labels) /\ Len(pool) = n /\ DOMAIN pool = 1 .. n /\ \A i \in 1 .. n : pool[i] = e[i]
  BY <1>4
<1> HIDE DEF pool
<1>9. /\ Cardinality(taken) = w
      /\ \A i \in taken : \A j \in (1 .. m) \ taken : e[i] = e[j] => i < j
      /\ list # <<>> => \A i \in taken : \A j \in (1 .. m) \ taken :
             Cardinality({k \in taken : e[k] = e[i]}) <= Cardinality({k \in taken : e[k] = e[j]}) + 1
  <2>1. CASE n <= count
    <3>1. taken = DOMAIN pool /\ DOMAIN pool = 1 .. n
      BY <1>4, <1>7, <1>8, <2>1
    <3>2. Cardinality(1 .. n) = n
      BY <1>8, PoolFinite
    <3>3. QED
      BY <1>4, <1>5, <2>1, <3>1, <3>2
  <2>2. CASE n > count /\ list = <<>>
    <3>1. taken = 1 .. count
      BY <1>4, <1>7, <1>8, <2>2
    <3>2. Cardinality(1 .. count) = count
      <4>1. (1 > count <=> count = 0) /\ count - 1 + 1 = count
        OBVIOUS
      <4>2. QED
        BY <4>1, FS_Interval
    <3>3. QED
      BY <1>4, <1>6, <2>2, <3>1, <3>2
  <2>3. CASE n > count /\ list # <<>>
    <3>1. taken = RoundRobin(pool, count)
      BY <1>4, <1>7, <1>8, <2>3
    <3>2. count \in 0 .. Len(pool)
      BY <1>4, <1>8, <2>3
    <3>3. /\ taken \subseteq DOMAIN pool /\ Cardinality(taken) = count
          /\ \A i \in taken : \A j \in DOMAIN pool \ taken : Before(pool, i, j)
      BY <1>8, <3>1, <3>2, ChosenComeFirst
    <3>4. \A k \in taken : pool[k] = e[k]
      BY <1>8, <3>3
    <3>5. ASSUME NEW i \in taken, NEW j \in (1 .. m) \ taken
          PROVE  /\ e[i] = e[j] => i < j
                 /\ Cardinality({k \in taken : e[k] = e[i]}) <= Cardinality({k \in taken : e[k] = e[j]}) + 1
      <4>1. i \in DOMAIN pool /\ j \in DOMAIN pool \ taken /\ pool[i] = e[i] /\ pool[j] = e[j]
        BY <1>4, <1>8, <3>3, <3>5
      <4>2. e[i] = e[j] => i < j
        BY <1>8, <3>3, <3>5, <4>1, BestFirst
      <4>3. Cardinality({k \in taken : pool[k] = pool[i]}) <= Cardinality({k \in taken : pool[k] = pool[j]}) + 1
        BY <1>8, <3>3, <3>5, <4>1, Balanced
      <4>4. /\ {k \in taken : pool[k] = pool[i]} = {k \in taken : e[k] = e[i]}
            /\ {k \in taken : pool[k] = pool[j]} = {k \in taken : e[k] = e[j]}
        BY <3>4, <4>1
      <4>5. QED
        BY <4>2, <4>3, <4>4
    <3>6. QED
      BY <1>6, <2>3, <3>3, <3>5
  <2>4. QED
    BY <1>4, <2>1, <2>2, <2>3
<1>10. QED
  BY <1>9 DEF taken, m, w

BatchInv ==
    /\ batch.eligible \in Seq(Labels)
    /\ batch.count \in Nat

\* A batch takes as many as are wanted and there are, of each rubric the best, and of a rubric
\* that has more as many as of any other but one (_eligible_candidates,
\* _round_robin_by_rubric), for any posts, rubrics and sizes.
THEOREM BatchesAreBalanced == Spec => []BatchBalanced
<1>1. Init => BatchInv
  <2>1. SUFFICES ASSUME Init PROVE BatchInv
    OBVIOUS
  <2>2. CASE batch = [eligible |-> <<>>, count |-> 1, list |-> <<>>]
    BY <2>2 DEF BatchInv
  <2>3. CASE batch \in [eligible : Pools, count : Counts, list : Menus]
    BY <2>3, TimetableAssumption DEF BatchInv
  <2>4. QED
    BY <2>1, <2>2, <2>3 DEF Init
<1>2. BatchInv /\ [Next]_vars => BatchInv'
  BY DEF BatchInv, Next, vars
<1>3. BatchInv => BatchBalanced
  <2>1. SUFFICES ASSUME BatchInv PROVE BatchBalanced
    OBVIOUS
  <2> DEFINE e == batch.eligible
             count == batch.count
             list == batch.list
  <2>2. e \in Seq(Labels) /\ count \in Nat
    BY <2>1 DEF BatchInv
  <2>3. LET taken == Chosen(e, count, list)
            of(n) == {i \in taken : e[i] = n}
            pool == 1 .. Min({Len(e), count * PoolFactor, MaxPool})
        IN /\ Cardinality(taken) = Min({Len(e), count, MaxPool})
           /\ \A i \in taken, j \in pool \ taken : e[i] = e[j] => i < j
           /\ list # <<>> =>
                 \A i \in taken, j \in pool \ taken : Cardinality(of(e[i])) <= Cardinality(of(e[j])) + 1
    <3> HIDE DEF e, count, list
    <3>1. QED
      BY <2>2, ChosenBalanced
  <2>4. QED
    BY <2>3 DEF BatchBalanced
<1>4. QED
  BY <1>1, <1>2, <1>3, PTL DEF Spec


-----------------------------------------------------------------------------
\* The rubrics of the last posts are rubrics: Nth finds a position for each of them.
LEMMA RecentIsSeq ==
    ASSUME out \in Seq(Posts), label \in [Posts -> Labels]
    PROVE  Recent \in Seq(Names)
<1> DEFINE D == {i \in DOMAIN out : label[out[i]] # "none"}
           R == {ss \in D \X D : ss[1] < ss[2]}
           n == Cardinality(D)
           Nth(k) == CHOOSE i \in D : Cardinality({j \in D : j < i}) = k - 1
           m == Min({Window, n})
<1>1. IsFiniteSet(D) /\ n \in Nat /\ D \subseteq DOMAIN out /\ D \subseteq Nat
  <2>1. IsFiniteSet(DOMAIN out)
    BY PoolFinite
  <2>2. IsFiniteSet(D)
    BY <2>1, FS_Subset
  <2>3. QED
    BY <2>2, FS_CardinalityType
<1>2. Orders(R, D)
  <2>1. \A i \in D : \A j \in D : <<i, j>> \in R <=> i < j
    OBVIOUS
  <2> HIDE DEF D, R
  <2>2. QED
    BY <1>1, <2>1 DEF Orders
<1>3. ASSUME NEW i \in D PROVE Place(D, R, i) = Cardinality({j \in D : j < i})
  <2>1. {j \in D : <<j, i>> \in R} = {j \in D : j < i}
    BY <1>3
  <2>2. QED
    BY <2>1 DEF Place
<1>4. m \in Nat /\ m <= n
  <2>1. Window \in Nat
    BY TimetableAssumption
  <2> HIDE DEF n
  <2>2. /\ Min({Window, n, n}) \in {Window, n, n} /\ Min({Window, n, n}) <= n
    BY <1>1, <2>1, LeastOfThree
  <2>3. {Window, n, n} = {Window, n}
    OBVIOUS
  <2>4. QED
    BY <1>1, <2>1, <2>2, <2>3
<1>5. ASSUME NEW k \in 1 .. m PROVE Nth(k) \in D
  <2>1. k - 1 \in 0 .. n - 1
    <3> HIDE DEF m, n
    <3>1. QED
      BY <1>1, <1>4
  <2>2. PICK i \in D : Place(D, R, i) = k - 1
    <3> HIDE DEF D, R
    <3>1. QED
      BY <1>1, <1>2, <2>1, PlacesFilled
  <2>3. Cardinality({j \in D : j < i}) = k - 1
    BY <1>3, <2>2
  <2> HIDE DEF D
  <2>4. QED
    BY <2>3
<1>6. ASSUME NEW k \in 1 .. m PROVE label[out[Nth(k)]] \in Names
  <2>1. ASSUME NEW i \in D PROVE label[out[i]] \in Names
    BY DEF Labels
  <2> HIDE DEF D, Nth, m
  <2>2. QED
    BY <1>5, <2>1
<1>7. Recent = [k \in 1 .. m |-> label[out[Nth(k)]]]
  BY DEF Recent
<1> HIDE DEF m, Nth, D
<1>8. QED
  BY <1>4, <1>6, <1>7

-----------------------------------------------------------------------------
\* What the properties are about keeps its type, and what is being sent is ready.
Kinds == {"faults", "switches", "covers", "demotions"}
Places == {"absent", "coming", "ready", "published", "duplicate"}

DayInv ==
    /\ cadence \in Cadences /\ stock \in BOOLEAN /\ auto \in BOOLEAN
    /\ now \in 0 .. 2 * Hours - 1
    /\ since \in [Channels -> 0 .. cadence.min] /\ on \subseteq Channels
    /\ post \in [Posts -> Places] /\ label \in [Posts -> Labels]
    /\ job \in [of : Posts \union {Pool, Nothing}, chans : SUBSET Channels, covered : SUBSET Channels]
    /\ job.covered \subseteq job.chans
    /\ job.of \in Posts => post[job.of] = "ready"
    /\ job.of = Nothing => job.chans = {}
    /\ left \in [Kinds -> Nat]

\* The published posts are each once in what is out.
OutInv ==
    /\ out \in Seq(Posts)
    /\ \A i \in DOMAIN out : post[out[i]] = "published"
    /\ \A p \in Posts : post[p] = "published" => \E i \in DOMAIN out : out[i] = p
    /\ \A i \in DOMAIN out : \A j \in DOMAIN out : out[i] = out[j] => i = j

TypeInv == DayInv /\ OutInv

LEMMA TypeInit == Init => TypeInv
<1> SUFFICES ASSUME Init PROVE TypeInv
  OBVIOUS
<1>1. PICK s \in Scenes : /\ cadence = s.cadence /\ stock = s.stock /\ auto = s.auto /\ left = s.left
                          /\ since = [c \in Channels |-> s.cadence.min]
                          /\ post = [p \in Posts |-> IF p \in s.posts THEN "coming" ELSE "absent"]
  BY DEF Init
<1>2. cadence \in Cadences /\ stock \in BOOLEAN /\ auto \in BOOLEAN /\ left \in [Kinds -> Nat]
  BY <1>1, TimetableAssumption DEF Kinds, Cadences
<1>3. cadence.min \in Nat /\ Hours \in Nat \ {0} /\ 0 \in 0 .. 2 * Hours - 1
  BY <1>2, TimetableAssumption
<1>4. Nothing \notin Posts
  BY TimetableAssumption DEF Nothing
<1>5. DayInv
  BY <1>1, <1>2, <1>3, <1>4 DEF Init, DayInv, Places, Labels, Idle
<1>6. OutInv
  BY <1>1 DEF Init, OutInv
<1>7. QED
  BY <1>5, <1>6 DEF TypeInv

LEMMA ClassifiedIsLabel ==
    ASSUME NEW list \in Menus, NEW answer \in Answers
    PROVE  Classify(list, answer) \in Labels
<1>1. list \in Seq(Names)
  BY TimetableAssumption
<1>2. ToSet(list) \subseteq Names
  BY <1>1 DEF ToSet
<1>3. First(list, Fitting(answer)) \in ToSet(list) \union {"none"}
  BY <1>1, FirstFound
<1>4. QED
  BY <1>2, <1>3 DEF Classify, Labels

LEMMA DaySteps == TypeInv /\ [Next]_vars => DayInv'
<1> SUFFICES ASSUME TypeInv, [Next]_vars PROVE DayInv'
  OBVIOUS
<1> USE DEF TypeInv
<1>1. CASE Clock
  <2>1. now' \in 0 .. 2 * Hours - 1
    <3>1. now \in Nat /\ Hours \in Nat \ {0} /\ now' = (now + 1) % (2 * Hours)
      BY <1>1, TimetableAssumption DEF Clock, DayInv
    <3>2. QED
      BY <3>1
  <2>2. since' \in [Channels -> 0 .. cadence.min]
    BY <1>1, TimetableAssumption DEF Clock, DayInv
  <2>3. UNCHANGED <<cadence, stock, auto, on, post, label, out, job, left>>
    BY <1>1 DEF Clock
  <2>4. QED
    BY <2>1, <2>2, <2>3 DEF DayInv
<1>2. ASSUME NEW p \in Posts, Arrive(p) PROVE DayInv'
  <2>1. post[p] = "coming" /\ post' = [post EXCEPT ![p] = "ready"]
    BY <1>2 DEF Arrive
  <2>2. label' \in [Posts -> Labels]
    <3>1. PICK list \in Menus, answer \in Answers : label' = [label EXCEPT ![p] = Classify(list, answer)]
      BY <1>2 DEF Arrive
    <3>2. QED
      BY <3>1, ClassifiedIsLabel DEF DayInv
  <2>3. UNCHANGED <<cadence, stock, auto, now, since, on, out, job, left>>
    BY <1>2 DEF Arrive
  <2>4. post' \in [Posts -> Places] /\ (job.of \in Posts => post'[job.of] = "ready")
    BY <2>1 DEF DayInv, Places
  <2>5. QED
    BY <2>2, <2>3, <2>4 DEF DayInv
<1>3. ASSUME NEW p \in Posts, JobPicks(p) PROVE DayInv'
  <2>1. p \in Ready
    BY <1>3 DEF JobPicks, Freshest
  <2>2. Nothing \notin Posts
    BY TimetableAssumption DEF Nothing
  <2>3. QED
    BY <1>3, <2>1, <2>2 DEF JobPicks, Ready, DayInv
<1>4. ASSUME NEW p \in Posts, Demote(p) PROVE DayInv'
  <2>1. /\ post[p] = "published" /\ post' = [post EXCEPT ![p] = "duplicate"]
        /\ left["demotions"] > 0 /\ left' = [left EXCEPT !["demotions"] = @ - 1]
        /\ UNCHANGED <<cadence, stock, auto, now, since, on, label, job>>
    BY <1>4 DEF Demote, Spend
  <2>2. left' \in [Kinds -> Nat]
    BY <2>1 DEF DayInv, Kinds
  <2>3. post' \in [Posts -> Places] /\ (job.of \in Posts => post'[job.of] = "ready")
    BY <2>1 DEF DayInv, Places
  <2>4. QED
    BY <2>1, <2>2, <2>3 DEF DayInv
<1>5. CASE JobTakesPool
  <2>1. Pool \notin Posts /\ Pool # Nothing
    BY TimetableAssumption DEF Pool, Nothing
  <2>2. QED
    BY <1>5, <2>1 DEF JobTakesPool, DayInv
<1>6. CASE JobCommits
  <2>1. job' = Idle /\ Nothing \notin Posts /\ UNCHANGED <<cadence, stock, auto, now, on, label, left>>
    BY <1>6, TimetableAssumption DEF JobCommits, Nothing
  <2>2. since' \in [Channels -> 0 .. cadence.min]
    BY <1>6, TimetableAssumption DEF JobCommits, DayInv
  <2>3. post' \in [Posts -> Places]
    BY <1>6 DEF JobCommits, DayInv, Places
  <2>4. QED
    BY <2>1, <2>2, <2>3 DEF DayInv, Idle
<1>7. CASE JobFails
  <2>1. Nothing \notin Posts
    BY TimetableAssumption DEF Nothing
  <2>2. left' \in [Kinds -> Nat]
    BY <1>7 DEF JobFails, Spend, DayInv, Kinds
  <2>3. QED
    BY <1>7, <2>1, <2>2 DEF JobFails, DayInv, Idle
<1>8. ASSUME NEW c \in Channels, Cover(c) PROVE DayInv'
  <2>1. since' \in [Channels -> 0 .. cadence.min]
    BY <1>8, TimetableAssumption DEF Cover, DayInv
  <2>2. left' \in [Kinds -> Nat]
    BY <1>8 DEF Cover, Spend, DayInv, Kinds
  <2>3. job' = [job EXCEPT !.covered = @ \union ({c} \intersect job.chans)]
    BY <1>8 DEF Cover
  <2>4. /\ job' \in [of : Posts \union {Pool, Nothing}, chans : SUBSET Channels, covered : SUBSET Channels]
        /\ job'.covered \subseteq job'.chans /\ job'.of = job.of /\ job'.chans = job.chans
    BY <2>3 DEF DayInv
  <2>5. UNCHANGED <<cadence, stock, auto, now, on, post, label, out>>
    BY <1>8 DEF Cover
  <2>6. QED
    BY <2>1, <2>2, <2>4, <2>5 DEF DayInv
<1>9. ASSUME NEW c \in Channels, Switch(c) PROVE DayInv'
  <2>1. left' \in [Kinds -> Nat]
    BY <1>9 DEF Switch, Spend, DayInv, Kinds
  <2>2. QED
    BY <1>9, <2>1 DEF Switch, DayInv
<1>10. ASSUME NEW p \in Posts, Renew(p) PROVE DayInv'
  <2>1. /\ post[p] = "published" /\ post' = [post EXCEPT ![p] = "coming"]
        /\ UNCHANGED <<cadence, stock, auto, now, since, on, label, job, left>>
    BY <1>10 DEF Renew
  <2>2. post' \in [Posts -> Places] /\ (job.of \in Posts => post'[job.of] = "ready")
    BY <2>1 DEF DayInv, Places
  <2>3. QED
    BY <2>1, <2>2 DEF DayInv
<1>11. CASE SwitchAuto
  <2>1. left' \in [Kinds -> Nat]
    BY <1>11 DEF SwitchAuto, Spend, DayInv, Kinds
  <2>2. QED
    BY <1>11, <2>1 DEF SwitchAuto, DayInv
<1>12. CASE UNCHANGED vars
  BY <1>12 DEF vars, dayVars, DayInv
<1>13. QED
  BY <1>1, <1>2, <1>3, <1>4, <1>5, <1>6, <1>7, <1>8, <1>9, <1>10, <1>11, <1>12 DEF Next, DayNext

\* Taking an element out of a sequence without repetitions.
LEMMA TakenOut ==
    ASSUME NEW S, NEW s \in Seq(S), NEW p,
           \A i \in DOMAIN s : \A j \in DOMAIN s : s[i] = s[j] => i = j,
           \E i \in DOMAIN s : s[i] = p
    PROVE  LET r == RemoveFirst(s, p)
           IN  /\ r \in Seq(S)
               /\ \A i \in DOMAIN r : r[i] # p
               /\ \A i \in DOMAIN r : \E j \in DOMAIN s : r[i] = s[j]
               /\ \A j \in DOMAIN s : s[j] # p => \E i \in DOMAIN r : r[i] = s[j]
               /\ \A i \in DOMAIN r : \A j \in DOMAIN r : r[i] = r[j] => i = j
<1> DEFINE r == RemoveFirst(s, p)
           at == {i \in 1 .. Len(s) : s[i] = p}
<1>1. PICK k \in DOMAIN s : s[k] = p
  OBVIOUS
<1>2. at = {k}
  BY <1>1
<1>3. r = RemoveAt(s, Min(at))
  BY <1>1 DEF RemoveFirst, SelectInSeq
<1>4. Min(at) = k
  BY <1>1, <1>2 DEF Min
<1>5. r = SubSeq(s, 1, k - 1) \o SubSeq(s, k + 1, Len(s))
  BY <1>3, <1>4 DEF RemoveAt
<1>6. k \in 1 .. Len(s) /\ Len(s) \in Nat
  BY <1>1
<1> DEFINE a == SubSeq(s, 1, k - 1)
           b == SubSeq(s, k + 1, Len(s))
<1>7. /\ a \in Seq(S) /\ Len(a) = k - 1 /\ \A i \in 1 .. k - 1 : a[i] = s[i]
      /\ b \in Seq(S) /\ Len(b) = Len(s) - k /\ \A i \in 1 .. Len(s) - k : b[i] = s[k + i]
  BY <1>6
<1> HIDE DEF r, at, a, b
<1>8. /\ r \in Seq(S) /\ Len(r) = Len(s) - 1
      /\ \A i \in 1 .. Len(s) - 1 : r[i] = IF i < k THEN s[i] ELSE s[i + 1]
  <2>1. r = a \o b
    BY <1>5 DEF a, b
  <2>2. /\ r \in Seq(S) /\ Len(r) = Len(a) + Len(b)
        /\ \A i \in 1 .. Len(a) + Len(b) : r[i] = IF i <= Len(a) THEN a[i] ELSE b[i - Len(a)]
    <3>1. /\ a \o b \in Seq(S) /\ Len(a \o b) = Len(a) + Len(b)
          /\ \A i \in 1 .. Len(a) + Len(b) : (a \o b)[i] = IF i <= Len(a) THEN a[i] ELSE b[i - Len(a)]
      BY <1>7, ConcatProperties
    <3>2. QED
      BY <2>1, <3>1
  <2>3. Len(r) = Len(s) - 1
    BY <1>6, <1>7, <2>2
  <2>4. ASSUME NEW i \in 1 .. Len(s) - 1 PROVE r[i] = IF i < k THEN s[i] ELSE s[i + 1]
    <3>1. r[i] = IF i <= k - 1 THEN a[i] ELSE b[i - (k - 1)]
      <4>1. Len(a) = k - 1 /\ i \in 1 .. Len(a) + Len(b)
        BY <1>6, <1>7
      <4>2. QED
        BY <2>2, <4>1
    <3>2. CASE i < k
      BY <1>6, <1>7, <3>1, <3>2
    <3>3. CASE i >= k
      <4>1. i - (k - 1) \in 1 .. Len(s) - k /\ k + (i - (k - 1)) = i + 1 /\ ~(i <= k - 1) /\ ~(i < k)
        BY <1>6, <3>3
      <4>2. b[i - (k - 1)] = s[k + (i - (k - 1))]
        BY <1>7, <4>1
      <4>3. QED
        BY <3>1, <4>1, <4>2
    <3>4. QED
      BY <1>6, <3>2, <3>3
  <2>5. QED
    BY <2>2, <2>3, <2>4
<1>9. DOMAIN r = 1 .. Len(s) - 1 /\ DOMAIN s = 1 .. Len(s)
  BY <1>8
<1>10. \A j \in DOMAIN s : s[j] # p => \E i \in DOMAIN r : r[i] = s[j]
  <2>1. ASSUME NEW j \in DOMAIN s, s[j] # p PROVE \E i \in DOMAIN r : r[i] = s[j]
    <3>1. CASE j < k
      <4>1. j \in DOMAIN r /\ r[j] = s[j]
        BY <1>6, <1>8, <1>9, <3>1
      <4>2. QED
        BY <4>1
    <3>2. CASE j > k
      <4>1. j - 1 \in DOMAIN r /\ r[j - 1] = s[j]
        BY <1>6, <1>8, <1>9, <3>2
      <4>2. QED
        BY <4>1
    <3>3. QED
      BY <1>1, <1>6, <1>9, <2>1, <3>1, <3>2
  <2>2. QED
    BY <2>1
<1>11. ASSUME NEW i \in DOMAIN r
       PROVE  \E j \in DOMAIN s : r[i] = s[j] /\ j # k /\ (i < k => j = i) /\ (i >= k => j = i + 1)
  BY <1>6, <1>8, <1>9
<1>12. \A i \in DOMAIN r : r[i] # p /\ \E j \in DOMAIN s : r[i] = s[j]
  BY <1>1, <1>11
<1>13. \A i \in DOMAIN r : \A j \in DOMAIN r : r[i] = r[j] => i = j
  <2>1. ASSUME NEW i \in DOMAIN r, NEW j \in DOMAIN r, r[i] = r[j] PROVE i = j
    <3>1. PICK x \in DOMAIN s : r[i] = s[x] /\ (i < k => x = i) /\ (i >= k => x = i + 1)
      BY <1>11
    <3>2. PICK y \in DOMAIN s : r[j] = s[y] /\ (j < k => y = j) /\ (j >= k => y = j + 1)
      BY <1>11
    <3>3. x = y
      BY <2>1, <3>1, <3>2
    <3>4. QED
      BY <1>6, <1>9, <3>1, <3>2, <3>3
  <2>2. QED
    BY <2>1
<1>14. QED
  BY <1>8, <1>10, <1>12, <1>13 DEF r

LEMMA OutSteps == TypeInv /\ [Next]_vars => OutInv'
<1> SUFFICES ASSUME TypeInv, [Next]_vars PROVE OutInv'
  OBVIOUS
<1> USE DEF TypeInv
<1>1. ASSUME NEW p \in Posts, Arrive(p) PROVE OutInv'
  <2>1. post[p] = "coming" /\ post' = [post EXCEPT ![p] = "ready"] /\ out' = out
    BY <1>1 DEF Arrive
  <2>2. \A q \in Posts : post'[q] = "published" <=> post[q] = "published"
    BY <2>1 DEF DayInv
  <2>3. \A i \in DOMAIN out : out[i] \in Posts
    BY DEF OutInv
  <2>4. QED
    BY <2>1, <2>2, <2>3 DEF OutInv
<1>2. CASE JobCommits
  <2>1. CASE job.of = Pool
    BY <1>2, <2>1 DEF JobCommits, OutInv
  <2>2. CASE job.of # Pool
    <3>1. job.of \in Posts
      <4>1. job # Idle /\ DOMAIN job = {"of", "chans", "covered"}
        BY <1>2 DEF JobCommits, DayInv
      <4>2. job.of = Nothing => job.chans = {} /\ job.covered = {}
        BY DEF DayInv
      <4>3. job.of # Nothing
        BY <4>1, <4>2 DEF Idle, DayInv
      <4>4. QED
        BY <2>2, <4>3 DEF DayInv
    <3> DEFINE p == job.of
    <3>2. post[p] = "ready" /\ post' = [post EXCEPT ![p] = "published"] /\ out' = <<p>> \o out
      BY <1>2, <2>2, <3>1 DEF JobCommits, DayInv
    <3> HIDE DEF p
    <3>3. out \in Seq(Posts) /\ p \in Posts /\ Len(out) \in Nat /\ DOMAIN out = 1 .. Len(out)
      BY <3>1 DEF OutInv, p
    <3>4. /\ out' \in Seq(Posts) /\ DOMAIN out' = 1 .. Len(out) + 1 /\ out'[1] = p
          /\ \A i \in 1 .. Len(out) + 1 : i # 1 => i - 1 \in DOMAIN out /\ out'[i] = out[i - 1]
          /\ \A i \in DOMAIN out : i + 1 \in 1 .. Len(out) + 1 /\ out'[i + 1] = out[i]
      BY <3>2, <3>3
    <3>5. /\ \A q \in Posts : post'[q] = "published" <=> q = p \/ post[q] = "published"
          /\ \A i \in DOMAIN out : out[i] # p /\ out[i] \in Posts
      BY <3>2, <3>3 DEF DayInv, OutInv
    <3>6. \A i \in DOMAIN out' : post'[out'[i]] = "published"
      BY <3>3, <3>4, <3>5 DEF OutInv
    <3>7. \A q \in Posts : post'[q] = "published" => \E i \in DOMAIN out' : out'[i] = q
      <4>1. ASSUME NEW q \in Posts, post'[q] = "published" PROVE \E i \in DOMAIN out' : out'[i] = q
        <5>1. CASE q = p
          <6>1. 1 \in DOMAIN out'
            BY <3>3, <3>4
          <6>2. QED
            BY <3>4, <5>1, <6>1
        <5>2. CASE q # p
          <6>1. PICK i \in DOMAIN out : out[i] = q
            BY <3>5, <4>1, <5>2 DEF OutInv
          <6>2. i + 1 \in DOMAIN out' /\ out'[i + 1] = q
            BY <3>4, <6>1
          <6>3. QED
            BY <6>2
        <5>3. QED
          BY <5>1, <5>2
      <4>2. QED
        BY <4>1
    <3>8. \A i \in DOMAIN out' : \A j \in DOMAIN out' : out'[i] = out'[j] => i = j
      <4>1. ASSUME NEW i \in DOMAIN out', NEW j \in DOMAIN out', out'[i] = out'[j] PROVE i = j
        <5>1. i \in 1 .. Len(out) + 1 /\ j \in 1 .. Len(out) + 1
          BY <3>4
        <5>2. CASE i = 1 \/ j = 1
          BY <3>4, <3>5, <4>1, <5>1, <5>2
        <5>3. CASE i # 1 /\ j # 1
          <6>1. i - 1 \in DOMAIN out /\ j - 1 \in DOMAIN out /\ out[i - 1] = out[j - 1]
            BY <3>4, <4>1, <5>1, <5>3
          <6>2. i - 1 = j - 1
            BY <6>1 DEF OutInv
          <6>3. QED
            BY <3>3, <5>1, <6>2
        <5>4. QED
          BY <5>2, <5>3
      <4>2. QED
        BY <4>1
    <3>9. QED
      BY <3>4, <3>6, <3>7, <3>8 DEF OutInv
  <2>3. QED
    BY <2>1, <2>2
<1>3. ASSUME NEW p \in Posts, Demote(p) \/ Renew(p) PROVE OutInv'
  <2>1. PICK to \in {"duplicate", "coming"} :
           post[p] = "published" /\ post' = [post EXCEPT ![p] = to] /\ out' = RemoveFirst(out, p)
    BY <1>3 DEF Demote, Renew
  <2> DEFINE r == RemoveFirst(out, p)
  <2>2. /\ out \in Seq(Posts) /\ \E i \in DOMAIN out : out[i] = p
        /\ \A i \in DOMAIN out : \A j \in DOMAIN out : out[i] = out[j] => i = j
    BY <2>1 DEF OutInv
  <2>3. /\ r \in Seq(Posts)
        /\ \A i \in DOMAIN r : r[i] # p
        /\ \A i \in DOMAIN r : \E j \in DOMAIN out : r[i] = out[j]
        /\ \A j \in DOMAIN out : out[j] # p => \E i \in DOMAIN r : r[i] = out[j]
        /\ \A i \in DOMAIN r : \A j \in DOMAIN r : r[i] = r[j] => i = j
    BY <2>2, TakenOut
  <2>4. out' = r
    BY <2>1
  <2> HIDE DEF r
  <2>5. \A q \in Posts : post'[q] = "published" <=> q # p /\ post[q] = "published"
    BY <2>1 DEF DayInv
  <2>6. \A i \in DOMAIN r : r[i] \in Posts /\ post[r[i]] = "published"
    BY <2>3 DEF OutInv
  <2>7. \A i \in DOMAIN r : post'[r[i]] = "published"
    BY <2>3, <2>5, <2>6
  <2>8. \A q \in Posts : post'[q] = "published" => \E i \in DOMAIN r : r[i] = q
    BY <2>3, <2>5 DEF OutInv
  <2>9. QED
    BY <2>3, <2>4, <2>7, <2>8 DEF OutInv
<1>4. ASSUME UNCHANGED <<post, out>> PROVE OutInv'
  BY <1>4 DEF OutInv
<1>5. ASSUME NEW p \in Posts, JobPicks(p) PROVE OutInv'
  BY <1>4, <1>5 DEF JobPicks
<1>6. ASSUME NEW c \in Channels, Cover(c) \/ Switch(c) PROVE OutInv'
  BY <1>4, <1>6 DEF Cover, Switch
<1>7. CASE Clock \/ JobTakesPool \/ JobFails \/ SwitchAuto
  BY <1>4, <1>7 DEF Clock, JobTakesPool, JobFails, SwitchAuto
<1>8. CASE UNCHANGED vars
  BY <1>4, <1>8 DEF vars, dayVars
<1>9. QED
  BY <1>1, <1>2, <1>3, <1>5, <1>6, <1>7, <1>8 DEF Next, DayNext

LEMMA TypeSteps == TypeInv /\ [Next]_vars => TypeInv'
  BY DaySteps, OutSteps DEF TypeInv

\* Every variable of the timetable keeps its type; the published posts are each once in what
\* is out, and a post being sent is ready, for any posts, channels and scenes.
THEOREM TimetableTypeCorrect == Spec => []TypeOK
<1>1. TypeInv => TypeOK
  <2>1. SUFFICES ASSUME TypeInv PROVE TypeOK
    OBVIOUS
  <2> USE <2>1 DEF TypeInv
  <2>2. ToSet(out) = {p \in Posts : post[p] = "published"}
    BY DEF OutInv, ToSet
  <2>3. IsInjective(out)
    BY DEF OutInv, IsInjective
  <2>4. Len(out) <= Cardinality(Posts)
    <3>1. IsFiniteSet(DOMAIN out) /\ Cardinality(DOMAIN out) = Len(out) /\ IsFiniteSet(Posts)
      BY PoolFinite, TimetableAssumption DEF OutInv
    <3>2. out \in Injection(DOMAIN out, Posts)
      BY <2>3 DEF Injection, OutInv
    <3>3. QED
      BY <3>1, <3>2, FS_Injection
  <2>5. QED
    BY <2>2, <2>3, <2>4 DEF TypeOK, DayInv, Places, Kinds
<1>2. QED
  BY <1>1, TypeInit, TypeSteps, PTL DEF Spec

\* The job never picks a post of the rubric that was out last while a ready post has another
\* rubric or none (pick_next, freshest_by_rubric), whatever is published, demoted and
\* switched in between, for any posts, rubrics and window.
THEOREM RubricsAlternate == Spec => NoRepeatWhileOther
<1>1. TypeInv => \A p \in Posts :
        JobPicks(p) /\ Recent # <<>> /\ label[p] = Recent[1] => \A q \in Ready : label[q] = label[p]
  <2>1. SUFFICES ASSUME TypeInv, NEW p \in Posts, JobPicks(p), Recent # <<>>, label[p] = Recent[1]
                 PROVE  \A q \in Ready : label[q] = label[p]
    OBVIOUS
  <2> DEFINE recent == Recent
             labels == [q \in Ready |-> label[q]]
  <2>2. recent \in Seq(Names) /\ recent # <<>>
    BY <2>1, RecentIsSeq DEF TypeInv, DayInv, OutInv
  <2>3. Ready \subseteq Posts /\ labels \in [Ready -> Labels]
    BY <2>1 DEF Ready, TypeInv, DayInv
  <2>4. p \in Freshest(Ready, label, recent)
    BY <2>1 DEF JobPicks
  <2>5. p \in Freshest(Ready, labels, recent) /\ p \in Ready
    <3> HIDE DEF recent
    <3>1. QED
      BY <2>2, <2>4 DEF Freshest
  <2>6. labels[p] = recent[1]
    BY <2>1, <2>5
  <2>7. \A q \in Ready : labels[q] = labels[p]
    <3> HIDE DEF recent, labels
    <3>1. QED
      BY <2>2, <2>3, <2>5, <2>6, FreshestAlternates
  <2>8. QED
    BY <2>5, <2>7
<1>2. TypeInv /\ [Next]_vars =>
        [\A p \in Posts : JobPicks(p) /\ Recent # <<>> /\ label[p] = Recent[1]
            => \A q \in Ready : label[q] = label[p]]_vars
  BY <1>1
<1>3. QED
  BY <1>2, TypeInit, TypeSteps, PTL DEF Spec, NoRepeatWhileOther


-----------------------------------------------------------------------------
\* The forecast goes on from slot to slot, so there is a function that does; a proof by
\* induction over the slots, as the least counterexample.
NextSlot(f, k) == Shifted(IF k = 1 THEN Cursor ELSE f[k - 1] + Step)

LEMMA SomeSlots == \A n \in Nat : \E f : f = [k \in 1 .. n |-> NextSlot(f, k)]
<1> DEFINE Bad == {n \in Nat : ~ \E f : f = [k \in 1 .. n |-> NextSlot(f, k)]}
<1>1. SUFFICES ASSUME Bad # {} PROVE FALSE
  OBVIOUS
<1>2. PICK n \in Bad : \A m \in Bad : n <= m
  <2>1. Bad \subseteq Nat
    OBVIOUS
  <2> HIDE DEF Bad
  <2>2. QED
    BY <1>1, <2>1, Least
<1>3. n # 0
  <2> DEFINE f == [k \in 1 .. 0 |-> Cursor]
  <2>1. f = [k \in 1 .. 0 |-> NextSlot(f, k)]
    OBVIOUS
  <2>2. QED
    BY <2>1
<1>4. n \in Nat /\ n - 1 \in Nat /\ n - 1 \notin Bad
  BY <1>2, <1>3
<1>5. PICK f : f = [k \in 1 .. n - 1 |-> NextSlot(f, k)]
  BY <1>4
<1> DEFINE g == [k \in 1 .. n |-> IF k < n THEN f[k] ELSE NextSlot(f, n)]
<1>6. ASSUME NEW k \in 1 .. n PROVE g[k] = NextSlot(g, k)
  <2>1. k # 1 => k - 1 \in 1 .. n /\ k - 1 < n
    BY <1>4
  <2>2. k # 1 => g[k - 1] = f[k - 1]
    BY <2>1
  <2>3. NextSlot(g, k) = NextSlot(f, k)
    <3> HIDE DEF g
    <3>1. QED
      BY <2>2 DEF NextSlot
  <2>4. CASE k < n
    <3>1. f[k] = NextSlot(f, k)
      <4>1. k \in 1 .. n - 1
        BY <1>4, <2>4
      <4>2. QED
        BY <1>5, <4>1
    <3>2. QED
      BY <2>3, <2>4, <3>1
  <2>5. CASE k = n
    BY <1>4, <2>3, <2>5
  <2>6. QED
    BY <1>4, <2>4, <2>5
<1>7. g = [k \in 1 .. n |-> NextSlot(g, k)]
  BY <1>6
<1>8. QED
  BY <1>2, <1>7

LEMMA SlotEquation ==
    ASSUME NEW k \in 1 .. MaxSlots
    PROVE  Slot[k] = Shifted(IF k = 1 THEN Cursor ELSE Slot[k - 1] + Step)
<1> DEFINE F == CHOOSE f : f = [j \in 1 .. MaxSlots |-> NextSlot(f, j)]
<1>1. MaxSlots \in Nat
  BY TimetableAssumption
<1>2. F = [j \in 1 .. MaxSlots |-> NextSlot(F, j)]
  <2>1. \E f : f = [j \in 1 .. MaxSlots |-> NextSlot(f, j)]
    BY <1>1, SomeSlots
  <2>2. QED
    BY <2>1
<1>3. Slot = F
  BY DEF Slot, NextSlot
<1> HIDE DEF F
<1>4. Slot[k] = NextSlot(Slot, k)
  BY <1>2, <1>3
<1>5. QED
  BY <1>4 DEF NextSlot


\* The hours go round: whatever the hour, in less than a day it is the one looked for.
LEMMA RestOf ==
    ASSUME NEW n \in Nat \ {0}, NEW q \in Int, NEW t \in 0 .. n - 1
    PROVE  (n * q + t) % n = t
  OBVIOUS

LEMMA HoursGoRound ==
    ASSUME NEW n \in Nat \ {0}, NEW h \in Nat, NEW t \in 0 .. n - 1
    PROVE  \E k \in 0 .. n - 1 : (h + k) % n = t
<1> DEFINE q == h \div n
           r == h % n
<1>1. q \in Int /\ r \in 0 .. n - 1 /\ h = n * q + r
  OBVIOUS
<1>2. CASE r <= t
  <2>1. t - r \in 0 .. n - 1 /\ h + (t - r) = n * q + t
    <3> HIDE DEF q, r
    <3>1. QED
      BY <1>1, <1>2
  <2>2. (n * q + t) % n = t
    <3> HIDE DEF q
    <3>1. QED
      BY <1>1, RestOf
  <2>3. QED
    BY <2>1, <2>2
<1>3. CASE r > t
  <2>1. (n + t) - r \in 0 .. n - 1 /\ h + ((n + t) - r) = n * (q + 1) + t /\ q + 1 \in Int
    <3> HIDE DEF q, r
    <3>1. n * (q + 1) = n * q + n
      BY <1>1
    <3>2. QED
      BY <1>1, <1>3, <3>1
  <2>2. (n * (q + 1) + t) % n = t
    <3> HIDE DEF q
    <3>1. QED
      BY <2>1, RestOf
  <2>3. QED
    BY <2>1, <2>2
<1>4. QED
  <2> HIDE DEF q, r
  <2>1. r <= t \/ r > t
    BY <1>1
  <2>2. QED
    BY <1>2, <1>3, <2>1

LEMMA CadenceBounds ==
    ASSUME cadence \in Cadences
    PROVE  /\ cadence.from \in Nat /\ cadence.to \in Nat /\ cadence.min \in Nat /\ cadence.max \in Nat
           /\ Hours \in Nat \ {0} /\ Hours <= 24 /\ MaxSlots \in Nat \ {0}
  BY TimetableAssumption

\* If there is an hour in which the bot may publish, it is less than a day away.
LEMMA NightEnds ==
    ASSUME cadence \in Cadences, NEW t \in Nat, Awake # {}
    PROVE  \E k \in 0 .. 23 : ~ Quiet(t + 2 * k)
<1>1. PICK h \in Awake : h \in 0 .. Hours - 1 /\ ~ Quiet(2 * h)
  BY DEF Awake
<1>2. PICK k \in 0 .. Hours - 1 : ((t \div 2) + k) % Hours = h
  <2>1. t \div 2 \in Nat
    OBVIOUS
  <2>2. QED
    BY <1>1, <2>1, CadenceBounds, HoursGoRound
<1>3. k \in 0 .. 23
  BY <1>2, CadenceBounds
<1>4. (t + 2 * k) \div 2 = (t \div 2) + k
  BY <1>3
<1>5. Hour(t + 2 * k) = h
  BY <1>2, <1>4 DEF Hour
<1>6. Hour(2 * h) = h
  <2>1. (2 * h) \div 2 = h /\ h \in 0 .. Hours - 1 /\ Hours \in Nat \ {0}
    BY <1>1, CadenceBounds
  <2>2. h % Hours = h
    BY <2>1
  <2>3. QED
    BY <2>1, <2>2 DEF Hour
<1>7. ~ Quiet(t + 2 * k)
  BY <1>1, <1>5, <1>6 DEF Quiet
<1>8. QED
  BY <1>3, <1>7

\* A slot is moved out of the quiet hours, and only in them.
LEMMA ShiftedIsAwake ==
    ASSUME cadence \in Cadences, now \in Nat, NEW t \in Nat
    PROVE  /\ Shifted(t) \in Nat /\ Shifted(t) >= t
           /\ Awake # {} => ~ Quiet(now + Shifted(t))
           /\ Shifted(t) = t <=> ~ Quiet(now + t)
<1> DEFINE K == {k \in 0 .. 24 : k = 24 \/ ~ Quiet(now + t + 2 * k)}
           b == Min(K)
<1>1. K \subseteq Nat /\ 24 \in K
  OBVIOUS
<1>2. b \in K /\ \A y \in K : b <= y
  <2> HIDE DEF K
  <2>1. \E x \in K : \A y \in K : x <= y
    BY <1>1, Least
  <2>2. QED
    BY <2>1 DEF Min
<1>3. Shifted(t) = t + 2 * b
  BY DEF Shifted
<1>4. b \in 0 .. 24 /\ (b = 24 \/ ~ Quiet(now + t + 2 * b))
  <2> HIDE DEF b
  <2>1. QED
    BY <1>2
<1>5. Awake # {} => ~ Quiet(now + t + 2 * b)
  <2>1. SUFFICES ASSUME Awake # {} PROVE ~ Quiet(now + t + 2 * b)
    OBVIOUS
  <2>2. PICK a \in 0 .. 23 : ~ Quiet(now + t + 2 * a)
    BY <2>1, NightEnds
  <2>3. a \in K
    BY <2>2
  <2> HIDE DEF b, K
  <2>4. b # 24
    BY <1>2, <1>4, <2>3
  <2>5. QED
    BY <1>4, <2>4
<1>6. now + t + 2 * 0 = now + t
  OBVIOUS
<1>7. ~ Quiet(now + t) => b = 0
  <2>1. SUFFICES ASSUME ~ Quiet(now + t) PROVE b = 0
    OBVIOUS
  <2>2. 0 \in K
    BY <1>6, <2>1
  <2> HIDE DEF b, K
  <2>3. QED
    BY <1>2, <1>4, <2>2
<1>8. b = 0 => ~ Quiet(now + t)
  <2> HIDE DEF b, K
  <2>1. QED
    BY <1>4, <1>6
<1> HIDE DEF b, K
<1>9. now + (t + 2 * b) = now + t + 2 * b
  BY <1>4
<1>10. QED
  BY <1>3, <1>4, <1>5, <1>7, <1>8, <1>9


LEMMA LastAgoIsLeast ==
    ASSUME cadence \in Cadences, since \in [Channels -> 0 .. cadence.min],
           NEW chans, chans \subseteq Channels, chans # {}
    PROVE  LastAgo(chans) \in Nat
<1> DEFINE T == {since[c] : c \in chans}
<1>1. T \subseteq Nat /\ T # {}
  BY TimetableAssumption
<1>2. Min(T) \in T
  <2> HIDE DEF T
  <2>1. \E x \in T : \A y \in T : x <= y
    BY <1>1, Least
  <2>2. QED
    BY <2>1 DEF Min
<1>3. QED
  BY <1>1, <1>2 DEF LastAgo

LEMMA CursorIsRest ==
    ASSUME cadence \in Cadences, since \in [Channels -> 0 .. cadence.min]
    PROVE  /\ Cursor \in Nat /\ Cursor >= cadence.min - LastAgo(Channels)
           /\ Cursor = 0 <=> LastAgo(Channels) >= cadence.min
<1> DEFINE a == cadence.min - LastAgo(Channels)
<1>1. LastAgo(Channels) \in Nat /\ cadence.min \in Nat
  BY LastAgoIsLeast, CadenceBounds, TimetableAssumption
<1>2. a \in Int
  BY <1>1
<1>3. Max({0, a}) = IF a >= 0 THEN a ELSE 0
  <2> HIDE DEF a
  <2> DEFINE w == IF a >= 0 THEN a ELSE 0
  <2>1. w \in {0, a} /\ \A y \in {0, a} : w >= y
    BY <1>2
  <2>2. \A x \in {0, a} : (\A y \in {0, a} : x >= y) => x = w
    BY <1>2
  <2> HIDE DEF w
  <2>3. Max({0, a}) = w
    BY <2>1, <2>2 DEF Max
  <2>4. QED
    BY <2>3 DEF w
<1>4. Cursor = IF a >= 0 THEN a ELSE 0
  BY <1>3 DEF Cursor
<1>5. QED
  BY <1>1, <1>4

LEMMA StepIsLong ==
    ASSUME cadence \in Cadences
    PROVE  Step \in Nat /\ (cadence.min <= cadence.max => Step >= cadence.min)
<1> DEFINE a == (cadence.min + cadence.max) \div 2
           w == IF a >= 1 THEN a ELSE 1
<1>1. cadence.min \in Nat /\ cadence.max \in Nat
  BY CadenceBounds
<1>2. a \in Nat /\ (cadence.min <= cadence.max => a >= cadence.min)
  BY <1>1
<1> HIDE DEF a
<1>3. Max({a, 1}) = w
  <2>1. w \in {a, 1} /\ \A y \in {a, 1} : w >= y
    BY <1>2
  <2>2. \A x \in {a, 1} : (\A y \in {a, 1} : x >= y) => x = w
    BY <1>2
  <2> HIDE DEF w
  <2>3. QED
    BY <2>1, <2>2 DEF Max
<1>4. Step = Max({a, 1})
  BY DEF Step, a
<1>5. QED
  BY <1>1, <1>2, <1>3, <1>4

\* Each slot is some time from now; as the least counterexample.
LEMMA SlotsAreTimes ==
    ASSUME cadence \in Cadences, since \in [Channels -> 0 .. cadence.min], now \in Nat
    PROVE  \A k \in 1 .. MaxSlots : Slot[k] \in Nat
<1> DEFINE Bad == {k \in 1 .. MaxSlots : Slot[k] \notin Nat}
<1>1. SUFFICES ASSUME Bad # {} PROVE FALSE
  OBVIOUS
<1>2. MaxSlots \in Nat
  BY TimetableAssumption
<1>3. PICK k \in Bad : \A j \in Bad : k <= j
  <2>1. Bad \subseteq Nat
    BY <1>2
  <2> HIDE DEF Bad
  <2>2. QED
    BY <1>1, <2>1, Least
<1>4. k # 1 => Slot[k - 1] \in Nat
  <2>1. SUFFICES ASSUME k # 1 PROVE Slot[k - 1] \in Nat
    OBVIOUS
  <2>2. k - 1 \in 1 .. MaxSlots /\ ~(k <= k - 1)
    BY <1>2, <1>3, <2>1
  <2>3. k - 1 \notin Bad
    BY <1>3, <2>2
  <2>4. QED
    BY <2>2, <2>3
<1>5. (IF k = 1 THEN Cursor ELSE Slot[k - 1] + Step) \in Nat
  BY <1>4, CursorIsRest, StepIsLong
<1>6. Slot[k] = Shifted(IF k = 1 THEN Cursor ELSE Slot[k - 1] + Step)
  BY <1>3, SlotEquation
<1>7. Slot[k] \in Nat
  BY <1>5, <1>6, ShiftedIsAwake
<1>8. QED
  BY <1>3, <1>7

\* The forecast the panel shows is one the job would keep to (_forecast_slots, is_due): no slot
\* in the quiet hours unless they are all, none too early unless the longest interval is less
\* than the shortest, and of a bot that publishes by itself "now" exactly when the job would
\* publish; for any cadence, channels and history.
THEOREM ForecastIsHonest == Spec => []ForecastHonest
<1>1. TypeInv => ForecastHonest
  <2>1. SUFFICES ASSUME TypeInv PROVE ForecastHonest
    OBVIOUS
  <2>2. cadence \in Cadences /\ since \in [Channels -> 0 .. cadence.min] /\ now \in Nat /\ Channels # {}
    BY <2>1, TimetableAssumption DEF TypeInv, DayInv
  <2>3. ASSUME NEW k \in 1 .. MaxSlots
        PROVE  /\ Awake # {} => ~ Quiet(now + Slot[k])
               /\ k = 1 => Slot[k] + LastAgo(Channels) >= cadence.min
               /\ k > 1 /\ cadence.min <= cadence.max => Slot[k] - Slot[k - 1] >= cadence.min
    <3> DEFINE x == IF k = 1 THEN Cursor ELSE Slot[k - 1] + Step
    <3>1. k # 1 => k - 1 \in 1 .. MaxSlots /\ Slot[k - 1] \in Nat
      <4>1. MaxSlots \in Nat
        BY TimetableAssumption
      <4>2. k # 1 => k - 1 \in 1 .. MaxSlots
        BY <4>1
      <4>3. QED
        BY <2>2, <4>2, SlotsAreTimes
    <3>2. x \in Nat
      BY <2>2, <3>1, CursorIsRest, StepIsLong
    <3>3. Slot[k] = Shifted(x)
      BY SlotEquation
    <3>4. k = 1 => x >= cadence.min - LastAgo(Channels)
      BY <2>2, CursorIsRest
    <3>5. k # 1 /\ cadence.min <= cadence.max => x >= Slot[k - 1] + cadence.min
      <4>1. cadence.min \in Nat /\ Step \in Nat /\ (cadence.min <= cadence.max => Step >= cadence.min)
        BY <2>2, CadenceBounds, StepIsLong
      <4>2. QED
        BY <3>1, <4>1
    <3> HIDE DEF x
    <3>6. Slot[k] \in Nat /\ Slot[k] >= x /\ (Awake # {} => ~ Quiet(now + Slot[k]))
      BY <2>2, <3>2, <3>3, ShiftedIsAwake
    <3>7. cadence.min \in Nat /\ LastAgo(Channels) \in Nat
      BY <2>2, CadenceBounds, LastAgoIsLeast
    <3>8. k = 1 => Slot[k] + LastAgo(Channels) >= cadence.min
      BY <3>2, <3>4, <3>6, <3>7
    <3>9. k > 1 /\ cadence.min <= cadence.max => Slot[k] - Slot[k - 1] >= cadence.min
      BY <3>1, <3>2, <3>5, <3>6, <3>7
    <3>10. QED
      BY <3>6, <3>8, <3>9
  <2>4. ASSUME on = Channels, auto PROVE Due <=> Slot[1] = 0
    <3>1. Slot[1] = Shifted(Cursor)
      <4>1. 1 \in 1 .. MaxSlots
        BY TimetableAssumption
      <4>2. QED
        BY <4>1, SlotEquation
    <3>2. Cursor \in Nat /\ (Cursor = 0 <=> LastAgo(Channels) >= cadence.min)
      BY <2>2, CursorIsRest
    <3>3. /\ Shifted(Cursor) \in Nat /\ Shifted(Cursor) >= Cursor
          /\ Shifted(Cursor) = Cursor <=> ~ Quiet(now + Cursor)
      BY <2>2, <3>2, ShiftedIsAwake
    <3>4. now + 0 = now
      BY <2>2
    <3>5. ASSUME Due PROVE Slot[1] = 0
      <4>1. Cursor = 0 /\ ~ Quiet(now)
        BY <2>4, <3>2, <3>5 DEF Due
      <4>2. QED
        BY <3>1, <3>3, <3>4, <4>1
    <3>6. ASSUME Slot[1] = 0 PROVE Due
      <4>1. Cursor = 0 /\ ~ Quiet(now)
        BY <3>1, <3>2, <3>3, <3>4, <3>6
      <4>2. QED
        BY <2>2, <2>4, <3>2, <4>1 DEF Due
    <3>7. QED
      BY <3>5, <3>6
  <2>5. QED
    BY <2>3, <2>4 DEF ForecastHonest, Slots
<1>2. QED
  BY <1>1, TypeInit, TypeSteps, PTL DEF Spec
=============================================================================
