------------------------------- MODULE Markup -------------------------------
(***************************************************************************)
(* Markdown from the model into the HTML Telegram takes (to_telegram_html, *)
(* core/services/tg_format.py). A text is a sequence of characters: "x"    *)
(* for any letter or digit, " " for white space, "<" for any character to  *)
(* be escaped, and "code" for a fragment that was put aside before (code,  *)
(* links), which no rule looks into. Texts of one line, without headings.  *)
(***************************************************************************)
EXTENDS Naturals, Sequences, Functions

\* The rules in their order: how often the character stands in a marker; whether letters
\* beside the markers forbid it; whether the same character does, beside or between.
Rules == << [char |-> "*", width |-> 2, words |-> FALSE, beside |-> FALSE, open |-> "<b>", close |-> "</b>"],
            [char |-> "_", width |-> 2, words |-> TRUE,  beside |-> FALSE, open |-> "<u>", close |-> "</u>"],
            [char |-> "~", width |-> 2, words |-> FALSE, beside |-> FALSE, open |-> "<s>", close |-> "</s>"],
            [char |-> "*", width |-> 1, words |-> FALSE, beside |-> TRUE,  open |-> "<b>", close |-> "</b>"],
            [char |-> "_", width |-> 1, words |-> TRUE,  beside |-> FALSE, open |-> "<i>", close |-> "</i>"] >>

Markers == {"*", "_", "~"}
Characters == {"x", " ", "<", "code"} \union Markers

\* One rule: from the left, each marker with the first one that closes it. After each
\* place: what is written by now, and where the next match may begin.
Replace(text, r) ==
    LET n == Len(text)
        Is(i, c) == i \in 1 .. n /\ text[i] = c
        Marker(i) == /\ \A k \in 0 .. r.width - 1 : Is(i + k, r.char)
                     /\ r.beside => ~Is(i - 1, r.char) /\ ~Is(i + 1, r.char)
        Opens(i) == /\ Marker(i) /\ i + r.width <= n /\ ~Is(i + r.width, " ")
                    /\ r.words => ~Is(i - 1, "x")
        Closes(i) == {j \in i + r.width + 1 .. n :
                         /\ Marker(j) /\ ~Is(j - 1, " ")
                         /\ r.words => ~Is(j + r.width, "x")
                         /\ r.width = 1 => \A k \in i + 1 .. j - 1 : text[k] # r.char}
        done[i \in 0 .. n] ==
            IF i = 0 THEN [out |-> <<>>, next |-> 1]
            ELSE LET before == done[i - 1]
                 IN  IF i < before.next THEN before
                     ELSE IF Opens(i) /\ Closes(i) # {}
                     THEN LET j == CHOOSE j \in Closes(i) : \A k \in Closes(i) : j <= k
                          IN  [out |-> before.out \o <<r.open>> \o SubSeq(text, i + r.width, j - 1) \o <<r.close>>,
                               next |-> j + r.width]
                     ELSE [out |-> Append(before.out, text[i]), next |-> i + 1]
    IN  done[n].out

\* html.escape.
Escaped(text) == [i \in DOMAIN text |-> IF text[i] = "<" THEN "&lt;" ELSE text[i]]

\* All the rules, one after the other.
Marked(text) ==
    LET after[i \in 0 .. Len(Rules)] == IF i = 0 THEN Escaped(text) ELSE Replace(after[i - 1], Rules[i])
    IN  after[Len(Rules)]

Tags == {<<Rules[i].open, Rules[i].close>> : i \in DOMAIN Rules}
Opening == {t[1] : t \in Tags}
Closing == {t[2] : t \in Tags}

\* _is_well_formed: the tags that are open, last first; a close that is not theirs is
\* never taken away.
WellFormed(rendered) ==
    LET Step(stack, k) ==
            CASE k \in Opening -> <<k>> \o stack
              [] k \in Closing -> IF stack # <<>> /\ <<stack[1], k>> \in Tags THEN Tail(stack) ELSE <<k>> \o stack
              [] OTHER -> stack
        open[i \in 0 .. Len(rendered)] == IF i = 0 THEN <<>> ELSE Step(open[i - 1], rendered[i])
    IN  open[Len(rendered)] = <<>>

\* Mutant of Html: every rule is right by itself, and the result is not looked at.
HtmlUnchecked(text) == Marked(text)

\* to_telegram_html: where tags cross, the text without markup.
Html(text) == IF WellFormed(Marked(text)) THEN Marked(text) ELSE Escaped(text)

\* The others of a sequence, in their order.
Without(dropped, seq) ==
    LET kept[i \in 0 .. Len(seq)] ==
            IF i = 0 THEN <<>>
            ELSE IF seq[i] \in dropped THEN kept[i - 1]
            ELSE Append(kept[i - 1], seq[i])
    IN  kept[Len(seq)]

\* visible_length counts these.
Visible(rendered) == Without(Opening \union Closing, rendered)

Words(text) == Without(Markers, text)

-----------------------------------------------------------------------------
\* What is sent is HTML that Telegram takes -- every tag is closed, and none across
\* another -- with every word of the text in its place and nothing that is not escaped,
\* however the model's markers stand to each other.
Rendered(text) ==
    /\ WellFormed(Html(text))
    /\ Words(Visible(Html(text))) = Words(Escaped(text))
    /\ "<" \notin Range(Html(text))
=============================================================================
