---------------------------- MODULE MarkupProofs ----------------------------
(***************************************************************************)
(* Markup for texts of any length: every text is rendered well formed,     *)
(* with its words in their place. Induction is by the least place where    *)
(* something would not hold.                                               *)
(***************************************************************************)
EXTENDS Markup, SequenceTheorems, WellFoundedInduction, TLAPS

\* A set of natural numbers has a least one.
LEMMA Least ==
    ASSUME NEW T, T \subseteq Nat, T # {}
    PROVE  \E x \in T : \A y \in T : x <= y
<1> DEFINE R == {ss \in Nat \X Nat : ss[1] < ss[2]}
<1>1. IsWellFoundedOn(R, Nat)
  BY NatLessThanWellFounded DEF OpToRel
<1>2. PICK x \in T : \A y \in T : ~ (<<y, x>> \in R)
  <2> HIDE DEF R
  <2> QED
    BY <1>1, WFMin
<1>3. ASSUME NEW y \in T PROVE x <= y
  <2>1. x \in Nat /\ y \in Nat /\ (y < x => <<y, x>> \in R)
    OBVIOUS
  <2>2. QED
    BY <1>2, <2>1
<1>4. QED
  BY <1>3

\* What holds at first, and at each place if it held at the one before, holds throughout:
\* there is no first place where it would not.
LEMMA Throughout ==
    ASSUME NEW n \in Nat, NEW P, 0 \in P, \A i \in 1 .. n : i - 1 \in P => i \in P
    PROVE  \A i \in 0 .. n : i \in P
<1> DEFINE T == {i \in 0 .. n : i \notin P}
<1>1. CASE T = {}
  BY <1>1
<1>2. CASE T # {}
  <2>1. PICK x \in T : \A y \in T : x <= y
    <3>1. T \subseteq Nat
      OBVIOUS
    <3> HIDE DEF T
    <3>2. QED
      BY <1>2, <3>1, Least
  <2>2. x \in 1 .. n /\ x - 1 \in 0 .. n /\ ~(x <= x - 1)
    BY <2>1
  <2>3. x - 1 \in P
    BY <2>1, <2>2
  <2>4. QED
    BY <2>1, <2>2, <2>3
<1>3. QED
  BY <1>1, <1>2

\* The functions that begin with base, and go on by g; and what g has to be for that.
Along(S, n, base, g) ==
    {f \in [0 .. n -> S] : f[0] = base /\ \A i \in 1 .. n : f[i] = g[<<i, f[i - 1]>>]}
StepsIn(S, n) == [(1 .. n) \X S -> S]

\* A recursive definition along 0 .. n has a function it defines.
LEMMA Defined ==
    ASSUME NEW S, NEW n \in Nat, NEW base \in S, NEW g \in StepsIn(S, n)
    PROVE  \E f : f \in Along(S, n, base, g)
<1>0. g \in [(1 .. n) \X S -> S]
  BY DEF StepsIn
<1> DEFINE Upto(f, m) == f[0] = base /\ \A i \in 1 .. m : f[i] = g[<<i, f[i - 1]>>]
           P == {m \in 0 .. n : \E f \in [0 .. m -> S] : Upto(f, m)}
<1>1. 0 \in P
  <2> DEFINE zero == [i \in 0 .. 0 |-> base]
  <2>1. zero \in [0 .. 0 -> S] /\ Upto(zero, 0)
    OBVIOUS
  <2> HIDE DEF zero, Upto
  <2>2. QED
    BY <2>1
<1>2. ASSUME NEW m \in 1 .. n, m - 1 \in P PROVE m \in P
  <2>1. PICK f \in [0 .. m - 1 -> S] : Upto(f, m - 1)
    BY <1>2
  <2> DEFINE next == [i \in 0 .. m |-> IF i < m THEN f[i] ELSE g[<<m, f[m - 1]>>]]
  <2>2. m - 1 \in 0 .. m - 1 /\ f[m - 1] \in S /\ g[<<m, f[m - 1]>>] \in S
    BY <1>0, <2>1
  <2>3. next \in [0 .. m -> S]
    BY <2>2
  <2>4. next[0] = base
    BY <2>1
  <2>5. ASSUME NEW i \in 1 .. m PROVE next[i] = g[<<i, next[i - 1]>>]
    <3>1. next[i - 1] = f[i - 1]
      OBVIOUS
    <3>2. CASE i < m
      <4>1. i \in 1 .. m - 1 /\ next[i] = f[i]
        BY <3>2
      <4>2. QED
        BY <2>1, <3>1, <4>1
    <3>3. CASE i = m
      <4>1. next[m] = g[<<m, f[m - 1]>>]
        OBVIOUS
      <4> HIDE DEF next
      <4>2. QED
        BY <3>1, <3>3, <4>1
    <3>4. QED
      BY <3>2, <3>3
  <2>6. Upto(next, m)
    BY <2>4, <2>5
  <2> HIDE DEF next, Upto
  <2>7. QED
    BY <2>3, <2>6
<1>3. n \in P
  <2> HIDE DEF P
  <2>1. \A i \in 0 .. n : i \in P
    BY <1>1, <1>2, Throughout
  <2>2. QED
    BY <2>1
<1>4. QED
  BY <1>3 DEF Along

-----------------------------------------------------------------------------
\* What holds of the empty sequence, and with each of a longer one, holds of all.
LEMMA Lengthening ==
    ASSUME NEW S, NEW P, <<>> \in P, \A s \in Seq(S) : \A e \in S : s \in P => Append(s, e) \in P
    PROVE  \A s \in Seq(S) : s \in P
<1> SUFFICES ASSUME NEW s \in Seq(S) PROVE s \in P
  OBVIOUS
<1> DEFINE T == {i \in 0 .. Len(s) : SubSeq(s, 1, i) \in P}
<1>1. Len(s) \in Nat
  OBVIOUS
<1>2. 0 \in T
  <2>1. SubSeq(s, 1, 0) = <<>>
    BY SubSeqEmpty
  <2>2. SubSeq(s, 1, 0) \in P
    BY <2>1
  <2>3. QED
    BY <1>1, <2>2
<1>3. ASSUME NEW i \in 1 .. Len(s), i - 1 \in T PROVE i \in T
  <2>1. SubSeq(s, 1, i) = SubSeq(s, 1, i - 1) \o <<s[i]>>
    <3>1. 1 \in 1 .. Len(s) /\ i \in 1 .. Len(s)
      BY <1>1
    <3>2. QED
      BY <3>1, SubSeqRecursiveSecond
  <2>2. SubSeq(s, 1, i - 1) \in Seq(S) /\ s[i] \in S
    OBVIOUS
  <2>3. SubSeq(s, 1, i) = Append(SubSeq(s, 1, i - 1), s[i])
    BY <2>1, <2>2, AppendIsConcat
  <2>4. SubSeq(s, 1, i) \in P
    BY <1>3, <2>2, <2>3
  <2>5. QED
    BY <1>1, <2>4
<1>4. Len(s) \in T
  <2> HIDE DEF T
  <2>1. \A i \in 0 .. Len(s) : i \in T
    BY <1>1, <1>2, <1>3, Throughout
  <2>2. QED
    BY <1>1, <2>1
<1>5. QED
  BY <1>4, SubSeqFull

\* The function Without is defined by.
Keeps(D, s, f) ==
    f[0] = <<>> /\ \A i \in 1 .. Len(s) : f[i] = IF s[i] \in D THEN f[i - 1] ELSE Append(f[i - 1], s[i])

LEMMA WithoutKeeps ==
    ASSUME NEW S, NEW s \in Seq(S), NEW D
    PROVE  /\ \E f : Keeps(D, s, f) /\ Without(D, s) = f[Len(s)]
           /\ \A f : Keeps(D, s, f) => \A i \in 0 .. Len(s) : f[i] \in Seq(S)
<1>1. PICK n \in Nat : n = Len(s) /\ \A i \in 1 .. n : s[i] \in S
  OBVIOUS
<1> DEFINE Next1(i, x) == IF s[i] \in D THEN x ELSE Append(x, s[i])
           g == [x \in (1 .. n) \X Seq(S) |-> Next1(x[1], x[2])]
           Eq(f) == f = [i \in 0 .. n |-> IF i = 0 THEN <<>>
                            ELSE IF s[i] \in D THEN f[i - 1]
                            ELSE Append(f[i - 1], s[i])]
           kept == CHOOSE f : Eq(f)
<1>2. <<>> \in Seq(S)
  OBVIOUS
<1>3. ASSUME NEW i \in 1 .. n, NEW x \in Seq(S) PROVE Next1(i, x) \in Seq(S)
  BY <1>1
<1>4. g \in StepsIn(Seq(S), n)
  <2>1. \A x \in (1 .. n) \X Seq(S) : Next1(x[1], x[2]) \in Seq(S)
    BY <1>3
  <2> HIDE DEF Next1
  <2>2. QED
    BY <2>1 DEF StepsIn
<1>5. \E f : Eq(f)
  <2>1. PICK f \in [0 .. n -> Seq(S)] : f[0] = <<>> /\ \A i \in 1 .. n : f[i] = g[<<i, f[i - 1]>>]
    <3> HIDE DEF g
    <3>1. \E f : f \in Along(Seq(S), n, <<>>, g)
      BY <1>2, <1>4, Defined
    <3>2. QED
      BY <3>1 DEF Along
  <2>2. ASSUME NEW i \in 1 .. n PROVE f[i] = Next1(i, f[i - 1])
    <3>1. i - 1 \in 0 .. n
      OBVIOUS
    <3>2. <<i, f[i - 1]>> \in (1 .. n) \X Seq(S)
      BY <3>1
    <3> HIDE DEF Next1
    <3>3. QED
      BY <2>1, <3>2
  <2>3. ASSUME NEW i \in 0 .. n
        PROVE  f[i] = IF i = 0 THEN <<>>
                            ELSE IF s[i] \in D THEN f[i - 1]
                            ELSE Append(f[i - 1], s[i])
    <3>1. CASE i = 0
      BY <2>1, <3>1
    <3>2. CASE i # 0
      <4>1. i \in 1 .. n
        BY <3>2
      <4>2. QED
        BY <2>2, <3>2, <4>1
    <3>3. QED
      BY <3>1, <3>2
  <2>4. f = [i \in 0 .. n |-> f[i]]
    OBVIOUS
  <2>5. Eq(f)
    BY <2>3, <2>4
  <2>6. QED
    BY <2>5
<1>6. Eq(kept)
  <2> HIDE DEF Eq
  <2>1. QED
    BY <1>5
<1>7. Without(D, s) = kept[n]
  BY <1>1 DEF Without
<1> HIDE DEF kept
<1>8. kept[0] = <<>> /\ \A i \in 1 .. n : kept[i] = Next1(i, kept[i - 1])
  <2>1. 0 \in 0 .. n /\ \A i \in 1 .. n : i \in 0 .. n /\ i # 0
    OBVIOUS
  <2>2. QED
    BY <1>6, <2>1
<1>9. Keeps(D, s, kept)
  BY <1>1, <1>8 DEF Keeps
<1>10. ASSUME NEW f, Keeps(D, s, f) PROVE \A i \in 0 .. Len(s) : f[i] \in Seq(S)
  <2> DEFINE P == {i \in 0 .. n : f[i] \in Seq(S)}
  <2>1. f[0] = <<>> /\ \A i \in 1 .. n : f[i] = Next1(i, f[i - 1])
    BY <1>1, <1>10 DEF Keeps
  <2> HIDE DEF Next1
  <2>2. 0 \in P
    <3>1. f[0] \in Seq(S) /\ 0 \in 0 .. n
      BY <1>2, <2>1
    <3>2. QED
      BY <3>1
  <2>3. ASSUME NEW i \in 1 .. n, i - 1 \in P PROVE i \in P
    <3>1. Next1(i, f[i - 1]) \in Seq(S)
      BY <1>3, <2>3
    <3>2. QED
      BY <2>1, <3>1
  <2> HIDE DEF P
  <2>4. \A i \in 0 .. n : i \in P
    BY <2>2, <2>3, Throughout
  <2>5. QED
    BY <1>1, <2>4 DEF P
<1>11. QED
  BY <1>1, <1>7, <1>9, <1>10

LEMMA WithoutTyped ==
    ASSUME NEW S, NEW s \in Seq(S), NEW D
    PROVE  Without(D, s) \in Seq(S)
<1>1. Len(s) \in 0 .. Len(s)
  OBVIOUS
<1>2. QED
  BY <1>1, WithoutKeeps

LEMMA WithoutNothing == ASSUME NEW D PROVE Without(D, <<>>) = <<>>
<1>1. <<>> \in Seq({}) /\ Len(<<>>) = 0
  OBVIOUS
<1>2. PICK f : Keeps(D, <<>>, f) /\ Without(D, <<>>) = f[Len(<<>>)]
  BY <1>1, WithoutKeeps
<1>3. f[0] = <<>>
  BY <1>2 DEF Keeps
<1>4. QED
  BY <1>1, <1>2, <1>3

\* A longer sequence is worked through as the shorter one is, and then its last.
LEMMA WithoutAppend ==
    ASSUME NEW S, NEW s \in Seq(S), NEW e \in S, NEW D
    PROVE  Without(D, Append(s, e)) = IF e \in D THEN Without(D, s) ELSE Append(Without(D, s), e)
<1> DEFINE r == Append(s, e)
<1>1. /\ r \in Seq(S) /\ Len(r) = Len(s) + 1 /\ Len(s) \in Nat /\ r[Len(s) + 1] = e
      /\ \A i \in 1 .. Len(s) : r[i] = s[i]
  BY AppendProperties
<1> HIDE DEF r
<1>2. PICK f : Keeps(D, s, f) /\ Without(D, s) = f[Len(s)]
  BY WithoutKeeps
<1>3. PICK h : Keeps(D, r, h) /\ Without(D, r) = h[Len(r)]
  BY <1>1, WithoutKeeps
<1> DEFINE P == {i \in 0 .. Len(s) : f[i] = h[i]}
<1>4. 0 \in P
  BY <1>1, <1>2, <1>3 DEF Keeps
<1>5. ASSUME NEW i \in 1 .. Len(s), i - 1 \in P PROVE i \in P
  <2>1. f[i - 1] = h[i - 1] /\ r[i] = s[i] /\ i \in 1 .. Len(r)
    BY <1>1, <1>5
  <2>2. f[i] = IF s[i] \in D THEN f[i - 1] ELSE Append(f[i - 1], s[i])
    BY <1>2 DEF Keeps
  <2>3. h[i] = IF r[i] \in D THEN h[i - 1] ELSE Append(h[i - 1], r[i])
    BY <1>3, <2>1 DEF Keeps
  <2>4. f[i] = h[i]
    BY <2>1, <2>2, <2>3
  <2>5. QED
    BY <1>1, <2>4
<1>6. Len(s) \in P
  <2> HIDE DEF P
  <2>1. \A i \in 0 .. Len(s) : i \in P
    BY <1>1, <1>4, <1>5, Throughout
  <2>2. QED
    BY <1>1, <2>1
<1>7. h[Len(r)] = IF r[Len(r)] \in D THEN h[Len(r) - 1] ELSE Append(h[Len(r) - 1], r[Len(r)])
  <2>1. Len(r) \in 1 .. Len(r)
    BY <1>1
  <2>2. QED
    BY <1>3, <2>1 DEF Keeps
<1>8. Len(r) - 1 = Len(s) /\ r[Len(r)] = e
  BY <1>1
<1>9. Without(D, r) = IF e \in D THEN Without(D, s) ELSE Append(Without(D, s), e)
  BY <1>2, <1>3, <1>6, <1>7, <1>8
<1>10. QED
  BY <1>9 DEF r

\* Sequences put together are worked through one after the other.
LEMMA WithoutConcat ==
    ASSUME NEW S, NEW a \in Seq(S), NEW b \in Seq(S), NEW D
    PROVE  Without(D, a \o b) = Without(D, a) \o Without(D, b)
<1> DEFINE P == {s \in Seq(S) : Without(D, a \o s) = Without(D, a) \o Without(D, s)}
<1>1. <<>> \in P
  <2>1. Without(D, a) \in Seq(S)
    BY WithoutTyped
  <2>2. a \o <<>> = a /\ Without(D, a) \o <<>> = Without(D, a)
    BY <2>1, ConcatEmptySeq
  <2>3. Without(D, <<>>) = <<>> /\ <<>> \in Seq(S)
    BY WithoutNothing
  <2>4. Without(D, a \o <<>>) = Without(D, a) \o Without(D, <<>>)
    BY <2>2, <2>3
  <2>5. QED
    BY <2>3, <2>4
<1>2. ASSUME NEW s \in Seq(S), NEW e \in S, s \in P PROVE Append(s, e) \in P
  <2> DEFINE wa == Without(D, a)
             ws == Without(D, s)
  <2>1. wa \in Seq(S) /\ ws \in Seq(S) /\ a \o s \in Seq(S)
    BY WithoutTyped, ConcatProperties
  <2>2. \A x \in Seq(S) : x \o Append(s, e) = Append(x \o s, e)
    <3>1. <<e>> \in Seq(S)
      OBVIOUS
    <3>2. ASSUME NEW x \in Seq(S) PROVE x \o Append(s, e) = Append(x \o s, e)
      <4>1. x \o s \in Seq(S)
        BY ConcatProperties
      <4>2. Append(s, e) = s \o <<e>> /\ Append(x \o s, e) = (x \o s) \o <<e>>
        BY <4>1, AppendIsConcat
      <4>3. QED
        BY <3>1, <4>2, ConcatAssociative
    <3>3. QED
      BY <3>2
  <2>3. wa \o Append(ws, e) = Append(wa \o ws, e)
    <3>1. <<e>> \in Seq(S) /\ wa \o ws \in Seq(S)
      BY <2>1, ConcatProperties
    <3>2. Append(ws, e) = ws \o <<e>> /\ Append(wa \o ws, e) = (wa \o ws) \o <<e>>
      BY <2>1, <3>1, AppendIsConcat
    <3> HIDE DEF wa, ws
    <3>3. QED
      BY <2>1, <3>1, <3>2, ConcatAssociative
  <2>4. Without(D, a \o s) = wa \o ws
    BY <1>2
  <2>5. Without(D, a \o Append(s, e)) = IF e \in D THEN wa \o ws ELSE Append(wa \o ws, e)
    <3>1. a \o Append(s, e) = Append(a \o s, e)
      BY <2>2
    <3> HIDE DEF wa, ws
    <3>2. Without(D, Append(a \o s, e)) = IF e \in D THEN Without(D, a \o s) ELSE Append(Without(D, a \o s), e)
      BY <2>1, WithoutAppend
    <3>3. QED
      BY <2>4, <3>1, <3>2
  <2>6. Without(D, Append(s, e)) = IF e \in D THEN ws ELSE Append(ws, e)
    BY WithoutAppend
  <2>7. Append(s, e) \in Seq(S)
    OBVIOUS
  <2>8. Without(D, a \o Append(s, e)) = wa \o Without(D, Append(s, e))
    BY <2>3, <2>5, <2>6
  <2>9. QED
    BY <2>7, <2>8
<1>3. b \in P
  <2> HIDE DEF P
  <2>1. QED
    BY <1>1, <1>2, Lengthening
<1>4. QED
  BY <1>3

\* Without what it has not, or with nothing else.
LEMMA WithoutAll ==
    ASSUME NEW S, NEW s \in Seq(S), NEW D, S \subseteq D
    PROVE  Without(D, s) = <<>>
<1> DEFINE P == {x \in Seq(S) : Without(D, x) = <<>>}
<1>1. <<>> \in P
  BY WithoutNothing
<1>2. ASSUME NEW x \in Seq(S), NEW e \in S, x \in P PROVE Append(x, e) \in P
  BY <1>2, WithoutAppend
<1>3. s \in P
  <2> HIDE DEF P
  <2>1. QED
    BY <1>1, <1>2, Lengthening
<1>4. QED
  BY <1>3

LEMMA WithoutNone ==
    ASSUME NEW S, NEW s \in Seq(S), NEW D, S \cap D = {}
    PROVE  Without(D, s) = s
<1> DEFINE P == {x \in Seq(S) : Without(D, x) = x}
<1>1. <<>> \in P
  BY WithoutNothing
<1>2. ASSUME NEW x \in Seq(S), NEW e \in S, x \in P PROVE Append(x, e) \in P
  BY <1>2, WithoutAppend
<1>3. s \in P
  <2> HIDE DEF P
  <2>1. QED
    BY <1>1, <1>2, Lengthening
<1>4. QED
  BY <1>3

LEMMA WithoutTwice ==
    ASSUME NEW S, NEW s \in Seq(S), NEW D, NEW E
    PROVE  Without(E, Without(D, s)) = Without(D \union E, s)
<1> DEFINE P == {x \in Seq(S) : Without(E, Without(D, x)) = Without(D \union E, x)}
<1>1. <<>> \in P
  BY WithoutNothing
<1>2. ASSUME NEW x \in Seq(S), NEW e \in S, x \in P PROVE Append(x, e) \in P
  <2>1. Without(D, x) \in Seq(S)
    BY WithoutTyped
  <2>2. Without(E, Append(Without(D, x), e)) =
          IF e \in E THEN Without(E, Without(D, x)) ELSE Append(Without(E, Without(D, x)), e)
    BY <2>1, WithoutAppend
  <2>3. Without(D, Append(x, e)) = IF e \in D THEN Without(D, x) ELSE Append(Without(D, x), e)
    BY WithoutAppend
  <2>4. Without(D \union E, Append(x, e)) =
          IF e \in D \union E THEN Without(D \union E, x) ELSE Append(Without(D \union E, x), e)
    BY WithoutAppend
  <2>5. Without(E, Without(D, x)) = Without(D \union E, x)
    BY <1>2
  <2>6. Without(E, Without(D, Append(x, e))) = Without(D \union E, Append(x, e))
    BY <2>2, <2>3, <2>4, <2>5
  <2>7. QED
    BY <2>6
<1>3. s \in P
  <2> HIDE DEF P
  <2>1. QED
    BY <1>1, <1>2, Lengthening
<1>4. QED
  BY <1>3

-----------------------------------------------------------------------------
\* What a text consists of once it is escaped, with tags or without; and what shows no word.
Plain == (Characters \ {"<"}) \union {"&lt;"}
Glyphs == Plain \union Opening \union Closing
Silent == (Opening \union Closing) \union Markers
Core(s) == Without(Silent, s)

LEMMA TagNames ==
    Opening = {"<b>", "<u>", "<s>", "<i>"} /\ Closing = {"</b>", "</u>", "</s>", "</i>"}
<1>1. DOMAIN Rules = 1 .. 5
  BY DEF Rules
<1>2. /\ Rules[1].open = "<b>" /\ Rules[2].open = "<u>" /\ Rules[3].open = "<s>"
      /\ Rules[4].open = "<b>" /\ Rules[5].open = "<i>"
      /\ Rules[1].close = "</b>" /\ Rules[2].close = "</u>" /\ Rules[3].close = "</s>"
      /\ Rules[4].close = "</b>" /\ Rules[5].close = "</i>"
  BY DEF Rules
<1>3. Opening = {Rules[i].open : i \in 1 .. 5} /\ Closing = {Rules[i].close : i \in 1 .. 5}
  <2>1. Tags = {<<Rules[i].open, Rules[i].close>> : i \in 1 .. 5}
    BY <1>1 DEF Tags
  <2>2. \A i \in 1 .. 5 : <<Rules[i].open, Rules[i].close>>[1] = Rules[i].open
                        /\ <<Rules[i].open, Rules[i].close>>[2] = Rules[i].close
    OBVIOUS
  <2>3. Opening = {t[1] : t \in Tags} /\ Closing = {t[2] : t \in Tags}
    BY DEF Opening, Closing
  <2>4. ASSUME NEW o PROVE /\ o \in Opening <=> \E i \in 1 .. 5 : o = Rules[i].open
                           /\ o \in Closing <=> \E i \in 1 .. 5 : o = Rules[i].close
    <3> HIDE DEF Opening, Closing
    <3>1. /\ o \in Opening <=> \E t \in Tags : o = t[1]
          /\ o \in Closing <=> \E t \in Tags : o = t[2]
      BY <2>3
    <3>2. \A t : t \in Tags <=> \E i \in 1 .. 5 : t = <<Rules[i].open, Rules[i].close>>
      BY <2>1
    <3>3. ASSUME NEW i \in 1 .. 5 PROVE \E t \in Tags : t[1] = Rules[i].open /\ t[2] = Rules[i].close
      <4>1. <<Rules[i].open, Rules[i].close>> \in Tags
        BY <3>2
      <4>2. QED
        BY <2>2, <4>1
    <3>4. ASSUME NEW t \in Tags PROVE \E i \in 1 .. 5 : t[1] = Rules[i].open /\ t[2] = Rules[i].close
      <4>1. PICK i \in 1 .. 5 : t = <<Rules[i].open, Rules[i].close>>
        BY <3>2
      <4>2. t[1] = Rules[i].open /\ t[2] = Rules[i].close
        BY <2>2, <4>1
      <4>3. QED
        BY <4>2
    <3>5. QED
      BY <3>1, <3>3, <3>4
  <2>5. QED
    BY <2>4
<1>4. 1 .. 5 = {1, 2, 3, 4, 5}
  OBVIOUS
<1>5. QED
  BY <1>2, <1>3, <1>4

LEMMA RuleFacts ==
    ASSUME NEW i \in 1 .. 5
    PROVE  /\ Rules[i].char \in Markers /\ Rules[i].width \in {1, 2}
           /\ Rules[i].open \in Opening /\ Rules[i].close \in Closing
<1>1. i = 1 \/ i = 2 \/ i = 3 \/ i = 4 \/ i = 5
  OBVIOUS
<1>2. QED
  <2>1. CASE i = 1
    BY <2>1, TagNames DEF Rules, Markers
  <2>2. CASE i = 2
    BY <2>2, TagNames DEF Rules, Markers
  <2>3. CASE i = 3
    BY <2>3, TagNames DEF Rules, Markers
  <2>4. CASE i = 4
    BY <2>4, TagNames DEF Rules, Markers
  <2>5. CASE i = 5
    BY <2>5, TagNames DEF Rules, Markers
  <2>6. QED
    BY <1>1, <2>1, <2>2, <2>3, <2>4, <2>5

LEMMA GlyphFacts ==
    /\ "<" \notin Glyphs /\ Plain \cap (Opening \union Closing) = {} /\ Opening \cap Closing = {}
    /\ Plain \subseteq Glyphs /\ Opening \subseteq Glyphs /\ Closing \subseteq Glyphs
    /\ Markers \subseteq Silent /\ Opening \subseteq Silent /\ Closing \subseteq Silent
  BY TagNames DEF Glyphs, Plain, Characters, Markers, Silent

\* A stretch of a text is its stretches put together.
LEMMA Parted ==
    ASSUME NEW S, NEW s \in Seq(S), NEW k \in 0 .. Len(s), NEW n \in k .. Len(s)
    PROVE  /\ SubSeq(s, 1, k) \in Seq(S) /\ SubSeq(s, k + 1, n) \in Seq(S)
           /\ SubSeq(s, 1, n) = SubSeq(s, 1, k) \o SubSeq(s, k + 1, n)
<1>1. 1 \in 1 .. Len(s) + 1 /\ k \in 1 - 1 .. Len(s)
  OBVIOUS
<1>2. SubSeq(s, 1, k) \o SubSeq(s, k + 1, n) = SubSeq(s, 1, n)
  BY <1>1, ConcatAdjacentSubSeq
<1>3. QED
  BY <1>2

LEMMA CoreParted ==
    ASSUME NEW s \in Seq(Glyphs), NEW k \in 0 .. Len(s), NEW n \in k .. Len(s)
    PROVE  Core(SubSeq(s, 1, n)) = Core(SubSeq(s, 1, k)) \o Core(SubSeq(s, k + 1, n))
<1> DEFINE a == SubSeq(s, 1, k)
           b == SubSeq(s, k + 1, n)
<1>1. a \in Seq(Glyphs) /\ b \in Seq(Glyphs) /\ SubSeq(s, 1, n) = a \o b
  BY Parted
<1> HIDE DEF a, b
<1>2. Core(a \o b) = Core(a) \o Core(b)
  BY <1>1, WithoutConcat DEF Core
<1>3. QED
  BY <1>1, <1>2 DEF a, b

LEMMA Prefix ==
    ASSUME NEW S, NEW s \in Seq(S), NEW k \in 0 .. Len(s)
    PROVE  SubSeq(s, 1, k) \in Seq(S)
  BY SubSeqProperties

\* A marker shows no word.
LEMMA SilentStretch ==
    ASSUME NEW s \in Seq(Glyphs), NEW a \in 1 .. Len(s), NEW n \in a - 1 .. Len(s),
           \A i \in a .. n : s[i] \in Silent
    PROVE  Core(SubSeq(s, a, n)) = <<>>
<1>1. SubSeq(s, a, n) \in Seq(Silent)
  BY SubSeqProperties
<1>2. QED
  BY <1>1, WithoutAll DEF Core

LEMMA CoreAppend ==
    ASSUME NEW s \in Seq(Glyphs), NEW e \in Glyphs
    PROVE  Core(Append(s, e)) = IF e \in Silent THEN Core(s) ELSE Append(Core(s), e)
  BY WithoutAppend DEF Core

LEMMA CoreTyped == ASSUME NEW s \in Seq(Glyphs) PROVE Core(s) \in Seq(Glyphs)
  BY WithoutTyped DEF Core

\* Markers that stand at i and at j, each of w characters; and what is written for them.
Matched(txt, w, i, j) ==
    /\ w \in Nat \ {0} /\ i \in 1 .. Len(txt) /\ j \in i + w + 1 .. Len(txt) /\ j + w - 1 <= Len(txt)
    /\ \A k \in i .. i + w - 1 : txt[k] \in Silent
    /\ \A k \in j .. j + w - 1 : txt[k] \in Silent
Before(txt, i) == SubSeq(txt, 1, i - 1)
Between(txt, w, i, j) == SubSeq(txt, i + w, j - 1)
Through(txt, w, j) == SubSeq(txt, 1, j + w - 1)
Wrapped(out, op, mid, cl) == out \o <<op>> \o mid \o <<cl>>

LEMMA PairKeeps ==
    ASSUME NEW txt \in Seq(Glyphs), NEW w, NEW i, NEW j, Matched(txt, w, i, j),
           NEW op \in Opening, NEW cl \in Closing, NEW out \in Seq(Glyphs)
    PROVE  /\ Wrapped(out, op, Between(txt, w, i, j), cl) \in Seq(Glyphs)
           /\ Core(out) = Core(Before(txt, i)) =>
                Core(Wrapped(out, op, Between(txt, w, i, j), cl)) = Core(Through(txt, w, j))
<1>1. PICK n \in Nat : n = Len(txt)
  OBVIOUS
<1> DEFINE mid == SubSeq(txt, i + w, j - 1)
<1>2. /\ i - 1 \in 0 .. n /\ i + w - 1 \in i - 1 .. n /\ (i - 1) + 1 = i
      /\ i + w - 1 \in 0 .. n /\ j - 1 \in i + w - 1 .. n /\ (i + w - 1) + 1 = i + w
      /\ j - 1 \in 0 .. n /\ j + w - 1 \in j - 1 .. n /\ (j - 1) + 1 = j
      /\ j \in 1 .. n /\ i \in 1 .. n /\ j + w - 1 \in 0 .. n
  <2>1. i \in Nat /\ j \in Nat /\ w \in Nat /\ 1 <= w /\ 1 <= i /\ i + w + 1 <= j /\ j + w - 1 <= n
    BY <1>1 DEF Matched
  <2>2. QED
    BY <2>1
<1>3. Core(SubSeq(txt, i, i + w - 1)) = <<>> /\ Core(SubSeq(txt, j, j + w - 1)) = <<>>
  <2>1. i \in 1 .. n /\ j \in 1 .. n /\ j + w - 1 \in j - 1 .. n
    BY <1>2
  <2>2. QED
    BY <1>1, <1>2, <2>1, SilentStretch DEF Matched
<1> DEFINE a == SubSeq(txt, 1, i - 1)
           b == SubSeq(txt, 1, i + w - 1)
           d == SubSeq(txt, 1, j - 1)
           e == SubSeq(txt, 1, j + w - 1)
<1>4. /\ a \in Seq(Glyphs) /\ b \in Seq(Glyphs) /\ mid \in Seq(Glyphs)
      /\ d \in Seq(Glyphs) /\ e \in Seq(Glyphs)
  <2>1. a \in Seq(Glyphs) /\ b \in Seq(Glyphs) /\ d \in Seq(Glyphs) /\ e \in Seq(Glyphs)
    BY <1>2, <1>1, Prefix
  <2>2. SubSeq(txt, (i + w - 1) + 1, j - 1) \in Seq(Glyphs)
    BY <1>2, <1>1, Parted
  <2>3. QED
    BY <1>2, <2>1, <2>2
<1>5. Core(b) = Core(a) \o Core(SubSeq(txt, i, i + w - 1))
  BY <1>1, <1>2, CoreParted
<1>6. Core(d) = Core(b) \o Core(mid)
  BY <1>1, <1>2, CoreParted
<1>7. Core(e) = Core(d) \o Core(SubSeq(txt, j, j + w - 1))
  BY <1>1, <1>2, CoreParted
<1> HIDE DEF a, b, d, e, mid
<1>8. /\ Core(a) \in Seq(Glyphs) /\ Core(b) \in Seq(Glyphs) /\ Core(d) \in Seq(Glyphs)
      /\ Core(mid) \in Seq(Glyphs) /\ Core(out) \in Seq(Glyphs)
  BY <1>4, CoreTyped
<1>9. Core(out) = Core(a) => Core(e) = Core(out) \o Core(mid)
  <2>1. Core(b) = Core(a) /\ Core(e) = Core(d)
    BY <1>3, <1>5, <1>7, <1>8, ConcatEmptySeq
  <2>2. QED
    BY <1>6, <2>1
<1> DEFINE o == <<op>>
           z == <<cl>>
           x == out \o o
           y == x \o mid
<1>10. Core(o) = <<>> /\ Core(z) = <<>> /\ o \in Seq(Glyphs) /\ z \in Seq(Glyphs)
  <2>1. o \in Seq(Glyphs) /\ z \in Seq(Glyphs)
    BY GlyphFacts
  <2>2. o \in Seq(Silent) /\ z \in Seq(Silent)
    BY GlyphFacts
  <2>3. QED
    BY <2>2, <2>1, WithoutAll DEF Core
<1> HIDE DEF o, z
<1>11. x \in Seq(Glyphs) /\ Core(x) = Core(out)
  <2>1. x \in Seq(Glyphs) /\ Core(x) = Core(out) \o Core(o)
    BY <1>10, ConcatProperties, WithoutConcat DEF Core
  <2>2. QED
    BY <1>8, <1>10, <2>1, ConcatEmptySeq
<1> HIDE DEF x
<1>12. y \in Seq(Glyphs) /\ Core(y) = Core(out) \o Core(mid)
  <2>1. y \in Seq(Glyphs) /\ Core(y) = Core(x) \o Core(mid)
    BY <1>4, <1>11, ConcatProperties, WithoutConcat DEF Core
  <2>2. QED
    BY <1>11, <2>1
<1> HIDE DEF y
<1>13. y \o z \in Seq(Glyphs) /\ Core(y \o z) = Core(out) \o Core(mid)
  <2>1. y \o z \in Seq(Glyphs) /\ Core(y \o z) = Core(y) \o Core(z) /\ Core(y) \in Seq(Glyphs)
    <3>1. y \o z \in Seq(Glyphs)
      BY <1>10, <1>12, ConcatProperties
    <3>2. Core(y \o z) = Core(y) \o Core(z)
      BY <1>10, <1>12, WithoutConcat DEF Core
    <3>3. Core(y) \in Seq(Glyphs)
      BY <1>12, CoreTyped
    <3>4. QED
      BY <3>1, <3>2, <3>3
  <2>2. QED
    BY <1>10, <1>12, <2>1, ConcatEmptySeq
<1>14. y \o z = Wrapped(out, op, Between(txt, w, i, j), cl)
  BY DEF y, x, o, z, mid, Between, Wrapped
<1>15. QED
  BY <1>9, <1>13, <1>14 DEF a, e, Before, Through

\* A character that is copied.
LEMMA OneKeeps ==
    ASSUME NEW txt \in Seq(Glyphs), NEW i \in 1 .. Len(txt), NEW out \in Seq(Glyphs)
    PROVE  /\ Append(out, txt[i]) \in Seq(Glyphs)
           /\ Core(out) = Core(SubSeq(txt, 1, i - 1)) => Core(Append(out, txt[i])) = Core(SubSeq(txt, 1, i))
<1>1. txt[i] \in Glyphs /\ SubSeq(txt, 1, i - 1) \in Seq(Glyphs)
  BY SubSeqProperties
<1>2. SubSeq(txt, 1, i) = Append(SubSeq(txt, 1, i - 1), txt[i])
  <2>1. 1 \in 1 .. Len(txt) /\ i \in 1 .. Len(txt)
    OBVIOUS
  <2>2. SubSeq(txt, 1, i) = SubSeq(txt, 1, i - 1) \o <<txt[i]>>
    BY <2>1, SubSeqRecursiveSecond
  <2>3. QED
    BY <1>1, <2>2, AppendIsConcat
<1> DEFINE s == SubSeq(txt, 1, i - 1)
<1> HIDE DEF s
<1>3. s \in Seq(Glyphs) /\ SubSeq(txt, 1, i) = Append(s, txt[i])
  BY <1>1, <1>2 DEF s
<1>4. /\ Core(Append(s, txt[i])) = IF txt[i] \in Silent THEN Core(s) ELSE Append(Core(s), txt[i])
      /\ Core(Append(out, txt[i])) = IF txt[i] \in Silent THEN Core(out) ELSE Append(Core(out), txt[i])
  <2>1. ASSUME NEW y \in Seq(Glyphs)
        PROVE  Core(Append(y, txt[i])) = IF txt[i] \in Silent THEN Core(y) ELSE Append(Core(y), txt[i])
    BY <1>1, CoreAppend
  <2>2. QED
    BY <1>3, <2>1
<1>5. Append(out, txt[i]) \in Seq(Glyphs)
  BY <1>1
<1>6. Core(out) = Core(s) => Core(Append(out, txt[i])) = Core(Append(s, txt[i]))
  BY <1>4
<1>7. QED
  BY <1>3, <1>5, <1>6 DEF s

-----------------------------------------------------------------------------
\* A rule of the list, of a text of glyphs: what is written has the words of what is read.
LEMMA ReplaceKeeps ==
    ASSUME NEW txt \in Seq(Glyphs), NEW r,
           r.char \in Markers, r.width \in {1, 2}, r.open \in Opening, r.close \in Closing
    PROVE  Replace(txt, r) \in Seq(Glyphs) /\ Core(Replace(txt, r)) = Core(txt)
<1> DEFINE n == Len(txt)
           w == r.width
           Is(i, c) == i \in 1 .. n /\ txt[i] = c
           Marker(i) == /\ \A k \in 0 .. r.width - 1 : Is(i + k, r.char)
                        /\ r.beside => ~Is(i - 1, r.char) /\ ~Is(i + 1, r.char)
           Opens(i) == /\ Marker(i) /\ i + r.width <= n /\ ~Is(i + r.width, " ")
                       /\ r.words => ~Is(i - 1, "x")
           Closes(i) == {j \in i + r.width + 1 .. n :
                            /\ Marker(j) /\ ~Is(j - 1, " ")
                            /\ r.words => ~Is(j + r.width, "x")
                            /\ r.width = 1 => \A k \in i + 1 .. j - 1 : txt[k] # r.char}
           Close(i) == CHOOSE j \in Closes(i) : \A k \in Closes(i) : j <= k
           Pair(i, before) == [out |-> before.out \o <<r.open>> \o SubSeq(txt, i + r.width, Close(i) - 1) \o <<r.close>>,
                               next |-> Close(i) + r.width]
           One(i, before) == [out |-> Append(before.out, txt[i]), next |-> i + 1]
           After(i, before) == IF i < before.next THEN before
                               ELSE IF Opens(i) /\ Closes(i) # {} THEN Pair(i, before) ELSE One(i, before)
           Eq(f) == f = [i \in 0 .. n |->
               IF i = 0 THEN [out |-> <<>>, next |-> 1]
               ELSE LET before == f[i - 1]
                    IN  IF i < before.next THEN before
                        ELSE IF Opens(i) /\ Closes(i) # {}
                        THEN LET j == CHOOSE j \in Closes(i) : \A k \in Closes(i) : j <= k
                             IN  [out |-> before.out \o <<r.open>> \o SubSeq(txt, i + r.width, j - 1) \o <<r.close>>,
                                  next |-> j + r.width]
                        ELSE [out |-> Append(before.out, txt[i]), next |-> i + 1]]
           done == CHOOSE f : Eq(f)
           States == [out : Seq(Glyphs), next : Nat]
           first == [out |-> <<>>, next |-> 1]
           g == [x \in (1 .. n) \X States |-> After(x[1], x[2])]
<1>1. n \in Nat /\ \A i \in 1 .. n : txt[i] \in Glyphs
  OBVIOUS
<1>2. r.width \in Nat \ {0} /\ (r.width = 1 \/ r.width = 2)
  OBVIOUS
<1>3. Replace(txt, r) = done[n].out
  BY DEF Replace
<1>4. ASSUME NEW f PROVE Eq(f) <=> f = [i \in 0 .. n |-> IF i = 0 THEN first ELSE After(i, f[i - 1])]
  OBVIOUS
<1> HIDE DEF n, Eq, done, Marker, Opens
\* The first marker that closes, and where the two markers stand.
<1>5. ASSUME NEW i \in 1 .. n, Closes(i) # {}
      PROVE  Close(i) \in i + r.width + 1 .. n /\ Marker(Close(i))
  <2>1. Closes(i) \subseteq i + r.width + 1 .. n
    BY Zenon
  <2>2. Closes(i) \subseteq Nat
    <3> HIDE DEF Closes
    <3>1. i + r.width + 1 .. n \subseteq Nat
      BY <1>1, <1>2
    <3>2. QED
      BY <2>1, <3>1
  <2>3. Close(i) \in Closes(i)
    <3> HIDE DEF Closes
    <3>1. \E j \in Closes(i) : \A k \in Closes(i) : j <= k
      BY <1>5, <2>2, Least
    <3>2. QED
      BY <3>1
  <2> HIDE DEF Close
  <2>4. QED
    BY <2>3
<1>6. ASSUME NEW i \in Nat, Marker(i)
      PROVE  i + r.width - 1 <= n /\ \A k \in i .. i + r.width - 1 : txt[k] \in Silent
  <2>1. \A k \in 0 .. r.width - 1 : i + k \in 1 .. n /\ txt[i + k] = r.char
    BY <1>6 DEF Marker
  <2>2. r.width - 1 \in 0 .. r.width - 1 /\ i + (r.width - 1) = i + r.width - 1
    BY <1>2
  <2>3. i + r.width - 1 <= n
    BY <1>1, <2>1, <2>2
  <2>4. ASSUME NEW k \in i .. i + r.width - 1 PROVE txt[k] \in Silent
    <3>1. k - i \in 0 .. r.width - 1 /\ i + (k - i) = k
      BY <1>2
    <3>2. r.char \in Silent
      BY GlyphFacts
    <3>3. QED
      BY <2>1, <3>1, <3>2
  <2>5. QED
    BY <2>3, <2>4
<1> HIDE DEF Closes, Close
<1>7. ASSUME NEW i \in 1 .. n, NEW before \in States, Opens(i), Closes(i) # {}
      PROVE  /\ Pair(i, before).out \in Seq(Glyphs) /\ Pair(i, before).next \in i + 1 .. n + 1
             /\ Core(before.out) = Core(SubSeq(txt, 1, i - 1))
                  => Core(Pair(i, before).out) = Core(SubSeq(txt, 1, Pair(i, before).next - 1))
  <2>1. PICK j \in Nat : j = Close(i) /\ j \in i + r.width + 1 .. n /\ Marker(j)
    <3>1. Close(i) \in i + r.width + 1 .. n /\ Marker(Close(i))
      BY <1>5, <1>7
    <3>2. Close(i) \in Nat
      BY <1>2, <3>1
    <3>3. QED
      BY <3>1, <3>2
  <2>2. i \in Nat /\ Marker(i) /\ before.out \in Seq(Glyphs)
    <3>1. Marker(i)
      BY <1>7, Zenon DEF Opens
    <3>2. i \in Nat /\ before.out \in Seq(Glyphs)
      OBVIOUS
    <3>3. QED
      BY <3>1, <3>2
  <2>3. /\ \A k \in i .. i + r.width - 1 : txt[k] \in Silent
        /\ \A k \in j .. j + r.width - 1 : txt[k] \in Silent
        /\ j + r.width - 1 <= n
    BY <1>6, <2>1, <2>2
  <2> DEFINE all == Wrapped(before.out, r.open, Between(txt, r.width, i, j), r.close)
  <2>4. /\ all \in Seq(Glyphs)
        /\ Core(before.out) = Core(Before(txt, i)) => Core(all) = Core(Through(txt, r.width, j))
    <3>1. Matched(txt, r.width, i, j)
      BY <1>2, <2>1, <2>2, <2>3 DEF n, Matched
    <3>2. QED
      BY <2>2, <3>1, PairKeeps
  <2>5. Pair(i, before).out = all /\ Pair(i, before).next = j + r.width
    BY <2>1 DEF Between, Wrapped
  <2> HIDE DEF all, Pair
  <2>6. j + r.width \in i + 1 .. n + 1 /\ j + r.width - 1 = (j + r.width) - 1
    <3>1. PICK v \in Nat : v = r.width /\ v >= 1
      BY <1>2
    <3>2. j \in i + v + 1 .. n /\ j + v - 1 <= n
      BY <2>1, <2>3, <3>1
    <3>3. j + v \in i + 1 .. n + 1
      <4>1. v \in Nat /\ v >= 1 /\ i + v + 1 <= j /\ j + v - 1 <= n /\ i \in Nat /\ j \in Nat /\ n \in Nat
        BY <1>1, <2>1, <2>2, <3>1, <3>2
      <4>2. QED
        BY <4>1
    <3>4. QED
      BY <3>1, <3>3
  <2>7. QED
    BY <2>4, <2>5, <2>6 DEF Before, Through
<1>8. ASSUME NEW i \in 1 .. n, NEW before \in States
      PROVE  /\ One(i, before).out \in Seq(Glyphs) /\ One(i, before).next \in i + 1 .. n + 1
             /\ Core(before.out) = Core(SubSeq(txt, 1, i - 1))
                  => Core(One(i, before).out) = Core(SubSeq(txt, 1, One(i, before).next - 1))
  <2>1. before.out \in Seq(Glyphs)
    OBVIOUS
  <2>2. /\ Append(before.out, txt[i]) \in Seq(Glyphs)
        /\ Core(before.out) = Core(SubSeq(txt, 1, i - 1))
             => Core(Append(before.out, txt[i])) = Core(SubSeq(txt, 1, i))
    BY <2>1, OneKeeps DEF n
  <2>3. One(i, before).out = Append(before.out, txt[i]) /\ One(i, before).next = i + 1
    OBVIOUS
  <2> HIDE DEF One
  <2>4. i + 1 \in i + 1 .. n + 1 /\ (i + 1) - 1 = i
    BY <1>1
  <2>5. QED
    BY <2>2, <2>3, <2>4
<1>9. ASSUME NEW i \in 1 .. n, NEW before \in States
      PROVE  /\ Pair(i, before) = [out |-> Pair(i, before).out, next |-> Pair(i, before).next]
             /\ One(i, before) = [out |-> One(i, before).out, next |-> One(i, before).next]
  OBVIOUS
<1> HIDE DEF Pair, One
\* The words so far are those of the text before the place where the next match may begin.
<1> DEFINE Good(i, st) == /\ st \in States /\ st.next \in i + 1 .. n + 1
                          /\ Core(st.out) = Core(SubSeq(txt, 1, st.next - 1))
<1>10. ASSUME NEW i \in 1 .. n, NEW before \in States
       PROVE  /\ After(i, before) \in States
              /\ Good(i - 1, before) => Good(i, After(i, before))
  <2>1. CASE i < before.next
    <3>1. After(i, before) = before
      BY <2>1
    <3> HIDE DEF After
    <3>2. before.next \in (i - 1) + 1 .. n + 1 => before.next \in i + 1 .. n + 1
      <4>1. PICK m \in Nat : m = before.next
        OBVIOUS
      <4>2. i < m /\ i \in Nat
        BY <2>1, <4>1
      <4>3. m \in (i - 1) + 1 .. n + 1 => m \in i + 1 .. n + 1
        BY <1>1, <4>2
      <4>4. QED
        BY <4>1, <4>3
    <3>3. QED
      BY <3>1, <3>2
  <2>2. CASE ~(i < before.next)
    <3> DEFINE st == After(i, before)
    <3>1. /\ st.out \in Seq(Glyphs) /\ st.next \in i + 1 .. n + 1 /\ st = [out |-> st.out, next |-> st.next]
          /\ Core(before.out) = Core(SubSeq(txt, 1, i - 1)) => Core(st.out) = Core(SubSeq(txt, 1, st.next - 1))
      <4>1. CASE Opens(i) /\ Closes(i) # {}
        <5>1. st = Pair(i, before)
          BY <2>2, <4>1
        <5> HIDE DEF st
        <5>2. QED
          BY <1>7, <1>9, <4>1, <5>1
      <4>2. CASE ~(Opens(i) /\ Closes(i) # {})
        <5>1. st = One(i, before)
          BY <2>2, <4>2
        <5> HIDE DEF st
        <5>2. QED
          BY <1>8, <1>9, <5>1
      <4>3. QED
        BY <4>1, <4>2
    <3> HIDE DEF st
    <3>2. st \in States
      <4>1. st.next \in Nat
        BY <1>1, <3>1
      <4>2. QED
        BY <3>1, <4>1
    <3>3. Good(i - 1, before) => Core(before.out) = Core(SubSeq(txt, 1, i - 1))
      <4>1. PICK m \in Nat : m = before.next
        OBVIOUS
      <4>2. i \in Nat /\ m <= i
        BY <2>2, <4>1
      <4>3. m \in (i - 1) + 1 .. n + 1 => m - 1 = i - 1
        BY <1>1, <4>2
      <4>4. QED
        BY <4>1, <4>3
    <3>4. QED
      BY <3>1, <3>2, <3>3 DEF st
  <2>3. QED
    BY <2>1, <2>2
<1> HIDE DEF After
<1>11. first \in States /\ Good(0, first)
  <2>1. SubSeq(txt, 1, 0) = <<>> /\ first.next - 1 = 0 /\ first.out = <<>>
    BY SubSeqEmpty
  <2>2. first \in States /\ first.next \in 0 + 1 .. n + 1
    BY <1>1
  <2>3. QED
    BY <2>1, <2>2
<1> HIDE DEF first, Good, States
<1>12. g \in StepsIn(States, n)
  <2>1. \A x \in (1 .. n) \X States : After(x[1], x[2]) \in States
    BY <1>10
  <2>2. QED
    BY <2>1 DEF StepsIn
<1>13. \E f : Eq(f)
  <2>1. PICK f \in [0 .. n -> States] : f[0] = first /\ \A i \in 1 .. n : f[i] = g[<<i, f[i - 1]>>]
    <3> HIDE DEF g
    <3>1. \E f : f \in Along(States, n, first, g)
      BY <1>1, <1>11, <1>12, Defined
    <3>2. QED
      BY <3>1 DEF Along
  <2>2. ASSUME NEW i \in 1 .. n PROVE f[i] = After(i, f[i - 1])
    <3>1. i - 1 \in 0 .. n
      BY <1>1
    <3>2. <<i, f[i - 1]>> \in (1 .. n) \X States
      BY <3>1
    <3>3. QED
      BY <2>1, <3>2
  <2>3. ASSUME NEW i \in 0 .. n PROVE f[i] = IF i = 0 THEN first ELSE After(i, f[i - 1])
    <3>1. i = 0 \/ i \in 1 .. n
      BY <1>1
    <3>2. QED
      BY <2>1, <2>2, <3>1
  <2>4. f = [i \in 0 .. n |-> f[i]]
    OBVIOUS
  <2>5. Eq(f)
    BY <1>4, <2>3, <2>4
  <2>6. QED
    BY <2>5
<1>14. Eq(done)
  BY <1>13 DEF done
<1>15. done[0] = first /\ \A i \in 1 .. n : done[i] = After(i, done[i - 1])
  <2>1. done = [i \in 0 .. n |-> IF i = 0 THEN first ELSE After(i, done[i - 1])]
    BY <1>4, <1>14
  <2>2. 0 \in 0 .. n /\ \A i \in 1 .. n : i \in 0 .. n /\ i # 0
    BY <1>1
  <2>3. QED
    BY <2>1, <2>2
<1> DEFINE P == {i \in 0 .. n : done[i] \in States /\ Good(i, done[i])}
<1>16. 0 \in P
  BY <1>1, <1>11, <1>15
<1>17. ASSUME NEW i \in 1 .. n, i - 1 \in P PROVE i \in P
  <2>1. i \in 0 .. n /\ done[i - 1] \in States /\ Good(i - 1, done[i - 1])
    BY <1>1, <1>17
  <2>2. After(i, done[i - 1]) \in States /\ Good(i, After(i, done[i - 1]))
    BY <1>10, <2>1
  <2>3. QED
    BY <1>15, <2>1, <2>2
<1>18. n \in P
  <2> HIDE DEF P
  <2>1. \A i \in 0 .. n : i \in P
    BY <1>1, <1>16, <1>17, Throughout
  <2>2. QED
    BY <1>1, <2>1
<1>19. done[n].out \in Seq(Glyphs) /\ Core(done[n].out) = Core(SubSeq(txt, 1, n))
  <2>1. Good(n, done[n])
    BY <1>18
  <2>2. PICK m : m = done[n].next /\ m \in n + 1 .. n + 1
    BY <2>1 DEF Good
  <2>3. m - 1 = n
    BY <1>1, <2>2
  <2>4. QED
    BY <2>1, <2>2, <2>3 DEF Good, States
<1>20. SubSeq(txt, 1, n) = txt
  BY SubSeqFull DEF n
<1>21. QED
  BY <1>3, <1>19, <1>20

-----------------------------------------------------------------------------
\* An escaped text is of plain characters.
LEMMA EscapedPlain ==
    ASSUME NEW txt \in Seq(Characters)
    PROVE  Escaped(txt) \in Seq(Plain) /\ Escaped(txt) \in Seq(Glyphs)
<1>1. Escaped(txt) \in Seq(Plain)
  <2>1. DOMAIN txt = 1 .. Len(txt) /\ \A i \in 1 .. Len(txt) : txt[i] \in Characters
    OBVIOUS
  <2>2. \A i \in 1 .. Len(txt) : (IF txt[i] = "<" THEN "&lt;" ELSE txt[i]) \in Plain
    BY <2>1 DEF Plain
  <2>3. Escaped(txt) \in [1 .. Len(txt) -> Plain]
    BY <2>1, <2>2 DEF Escaped
  <2>4. Len(txt) \in Nat
    OBVIOUS
  <2>5. QED
    BY <2>3, <2>4, SeqDef
<1>2. QED
  BY <1>1, GlyphFacts

\* No rule takes a word away or puts one in.
LEMMA MarkedKeeps ==
    ASSUME NEW txt \in Seq(Characters)
    PROVE  Marked(txt) \in Seq(Glyphs) /\ Core(Marked(txt)) = Core(Escaped(txt))
<1> DEFINE n == Len(Rules)
           base == Escaped(txt)
           Next1(i, s) == Replace(s, Rules[i])
           g == [x \in (1 .. n) \X Seq(Glyphs) |-> Next1(x[1], x[2])]
           Eq(f) == f = [i \in 0 .. n |-> IF i = 0 THEN Escaped(txt) ELSE Replace(f[i - 1], Rules[i])]
           after == CHOOSE f : Eq(f)
<1>1. n = 5
  BY DEF Rules
<1>2. Marked(txt) = after[n]
  BY DEF Marked
<1>3. base \in Seq(Glyphs)
  BY EscapedPlain
<1>4. ASSUME NEW f PROVE Eq(f) <=> f = [i \in 0 .. n |-> IF i = 0 THEN base ELSE Next1(i, f[i - 1])]
  OBVIOUS
<1> HIDE DEF n, base, after, Eq
<1>5. ASSUME NEW i \in 1 .. n, NEW s \in Seq(Glyphs) PROVE Next1(i, s) \in Seq(Glyphs) /\ Core(Next1(i, s)) = Core(s)
  <2> DEFINE r == Rules[i]
  <2>1. r.char \in Markers /\ r.width \in {1, 2} /\ r.open \in Opening /\ r.close \in Closing
    BY <1>1, RuleFacts
  <2> HIDE DEF r
  <2>2. Replace(s, r) \in Seq(Glyphs) /\ Core(Replace(s, r)) = Core(s)
    BY <2>1, ReplaceKeeps
  <2>3. QED
    BY <2>2 DEF r
<1> HIDE DEF Next1
<1>6. g \in StepsIn(Seq(Glyphs), n)
  <2>1. \A x \in (1 .. n) \X Seq(Glyphs) : Next1(x[1], x[2]) \in Seq(Glyphs)
    BY <1>5
  <2>2. QED
    BY <2>1 DEF StepsIn
<1>7. \E f : Eq(f)
  <2>1. PICK f \in [0 .. n -> Seq(Glyphs)] : f[0] = base /\ \A i \in 1 .. n : f[i] = g[<<i, f[i - 1]>>]
    <3> HIDE DEF g
    <3>1. n \in Nat
      BY <1>1
    <3>2. \E f : f \in Along(Seq(Glyphs), n, base, g)
      BY <1>3, <1>6, <3>1, Defined
    <3>3. QED
      BY <3>2 DEF Along
  <2>2. ASSUME NEW i \in 1 .. n PROVE f[i] = Next1(i, f[i - 1])
    <3>1. i - 1 \in 0 .. n
      BY <1>1
    <3>2. <<i, f[i - 1]>> \in (1 .. n) \X Seq(Glyphs)
      BY <3>1
    <3>3. QED
      BY <2>1, <3>2
  <2>3. ASSUME NEW i \in 0 .. n PROVE f[i] = IF i = 0 THEN base ELSE Next1(i, f[i - 1])
    <3>1. i = 0 \/ i \in 1 .. n
      BY <1>1
    <3>2. QED
      BY <2>1, <2>2, <3>1
  <2>4. f = [i \in 0 .. n |-> f[i]]
    OBVIOUS
  <2>5. Eq(f)
    BY <1>4, <2>3, <2>4
  <2>6. QED
    BY <2>5
<1>8. Eq(after)
  BY <1>7 DEF after
<1>9. after[0] = base /\ \A i \in 1 .. n : after[i] = Next1(i, after[i - 1])
  <2>1. after = [i \in 0 .. n |-> IF i = 0 THEN base ELSE Next1(i, after[i - 1])]
    BY <1>4, <1>8
  <2>2. 0 \in 0 .. n /\ \A i \in 1 .. n : i \in 0 .. n /\ i # 0
    BY <1>1
  <2>3. QED
    BY <2>1, <2>2
<1> DEFINE P == {i \in 0 .. n : after[i] \in Seq(Glyphs) /\ Core(after[i]) = Core(base)}
<1>10. 0 \in P
  BY <1>1, <1>3, <1>9
<1>11. ASSUME NEW i \in 1 .. n, i - 1 \in P PROVE i \in P
  <2>1. i \in 0 .. n /\ after[i - 1] \in Seq(Glyphs) /\ Core(after[i - 1]) = Core(base)
    BY <1>1, <1>11
  <2>2. Next1(i, after[i - 1]) \in Seq(Glyphs) /\ Core(Next1(i, after[i - 1])) = Core(after[i - 1])
    BY <1>5, <2>1
  <2>3. QED
    BY <1>9, <2>1, <2>2
<1>12. n \in P
  <2> HIDE DEF P
  <2>1. n \in Nat /\ n \in 0 .. n
    BY <1>1
  <2>2. \A i \in 0 .. n : i \in P
    BY <1>10, <1>11, <2>1, Throughout
  <2>3. QED
    BY <2>1, <2>2
<1>13. QED
  BY <1>2, <1>12 DEF base

\* A text without tags has none that is open.
LEMMA PlainWellFormed ==
    ASSUME NEW s \in Seq(Plain)
    PROVE  WellFormed(s)
<1> DEFINE n == Len(s)
           S == Seq(Opening \union Closing)
           Step(stack, k) ==
               CASE k \in Opening -> <<k>> \o stack
                 [] k \in Closing -> IF stack # <<>> /\ <<stack[1], k>> \in Tags THEN Tail(stack) ELSE <<k>> \o stack
                 [] OTHER -> stack
           Eq(f) == f = [i \in 0 .. n |-> IF i = 0 THEN <<>> ELSE Step(f[i - 1], s[i])]
           opened == CHOOSE f : Eq(f)
           none == [i \in 0 .. n |-> <<>>]
<1>1. n \in Nat /\ \A i \in 1 .. n : s[i] \in Plain
  OBVIOUS
<1>2. WellFormed(s) <=> opened[n] = <<>>
  BY DEF WellFormed
<1>3. ASSUME NEW i \in 1 .. n, NEW x PROVE Step(x, s[i]) = x
  <2>1. s[i] \notin Opening /\ s[i] \notin Closing
    BY <1>1, GlyphFacts
  <2> HIDE DEF n
  <2>2. QED
    BY <2>1
<1>4. ASSUME NEW f PROVE Eq(f) <=> f = [i \in 0 .. n |-> IF i = 0 THEN <<>> ELSE Step(f[i - 1], s[i])]
  OBVIOUS
<1> HIDE DEF n, Step, Eq, opened
<1>5. Eq(none)
  <2>1. ASSUME NEW i \in 0 .. n PROVE none[i] = IF i = 0 THEN <<>> ELSE Step(none[i - 1], s[i])
    <3>1. none[i] = <<>>
      OBVIOUS
    <3>2. i # 0 => i \in 1 .. n /\ i - 1 \in 0 .. n
      BY <1>1
    <3>3. i # 0 => none[i - 1] = <<>>
      BY <3>2
    <3> HIDE DEF none
    <3>4. QED
      BY <1>3, <3>1, <3>2, <3>3
  <2>2. none = [i \in 0 .. n |-> none[i]]
    OBVIOUS
  <2> HIDE DEF none
  <2>3. QED
    BY <1>4, <2>1, <2>2
<1>6. Eq(opened)
  <2> HIDE DEF none
  <2>1. QED
    BY <1>5 DEF opened
<1>7. opened[0] = <<>> /\ \A i \in 1 .. n : opened[i] = opened[i - 1]
  <2>1. opened = [i \in 0 .. n |-> IF i = 0 THEN <<>> ELSE Step(opened[i - 1], s[i])]
    BY <1>4, <1>6
  <2>2. 0 \in 0 .. n /\ \A i \in 1 .. n : i \in 0 .. n /\ i # 0
    BY <1>1
  <2>3. QED
    BY <1>3, <2>1, <2>2
<1> DEFINE P == {i \in 0 .. n : opened[i] = <<>>}
<1>8. n \in P
  <2>1. 0 \in P /\ \A i \in 1 .. n : i - 1 \in P => i \in P
    BY <1>1, <1>7
  <2> HIDE DEF P
  <2>2. \A i \in 0 .. n : i \in P
    BY <1>1, <2>1, Throughout
  <2>3. QED
    BY <1>1, <2>2
<1>9. QED
  BY <1>2, <1>8

-----------------------------------------------------------------------------
\* What is read of a rendered text is what is left without tags and without markers.
LEMMA WordsAreCore ==
    ASSUME NEW s \in Seq(Glyphs)
    PROVE  Words(Visible(s)) = Core(s)
<1>1. Without(Markers, Without(Opening \union Closing, s)) = Without((Opening \union Closing) \union Markers, s)
  BY WithoutTwice
<1>2. QED
  BY <1>1 DEF Words, Visible, Core, Silent

LEMMA EscapedWords ==
    ASSUME NEW s \in Seq(Plain)
    PROVE  Words(s) = Core(s)
<1>1. Without(Opening \union Closing, s) = s
  BY GlyphFacts, WithoutNone
<1>2. s \in Seq(Glyphs)
  BY GlyphFacts
<1>3. QED
  BY <1>1, <1>2, WordsAreCore DEF Words, Visible

\* Of any text the model may write, to_telegram_html makes HTML that is well formed, has every
\* word of the text in its place, and nothing unescaped (tg_format.py).
THEOREM EveryTextIsRendered ==
    ASSUME NEW txt \in Seq(Characters)
    PROVE  Rendered(txt)
<1> DEFINE e == Escaped(txt)
           m == Marked(txt)
           h == Html(txt)
<1>1. /\ e \in Seq(Plain) /\ e \in Seq(Glyphs) /\ WellFormed(e)
      /\ m \in Seq(Glyphs) /\ Core(m) = Core(e)
  BY EscapedPlain, PlainWellFormed, MarkedKeeps
<1>2. WellFormed(h) /\ (h = m \/ h = e)
  BY <1>1 DEF Html
<1> HIDE DEF e, m, h
<1>3. h \in Seq(Glyphs) /\ Core(h) = Core(e)
  BY <1>1, <1>2
<1>4. Words(Visible(h)) = Words(e)
  BY <1>1, <1>3, WordsAreCore, EscapedWords
<1>5. "<" \notin Range(h)
  BY <1>3, GlyphFacts DEF Range
<1>6. QED
  BY <1>2, <1>4, <1>5 DEF Rendered, e, h
=============================================================================
