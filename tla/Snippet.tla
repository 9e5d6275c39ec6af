------------------------------ MODULE Snippet ------------------------------
(***************************************************************************)
(* The line of a document that is shown for a hit, and what of it is       *)
(* highlighted (src/snippet.rs).  Widths and ranges count characters.      *)
(***************************************************************************)
EXTENDS Tokenizer

\* The lines that are not empty.
lines(s) ==
    Slices(s, Runs({i \in DOMAIN s : s[i] # "newline"}, DOMAIN s))

\* The terms of a set that a line has, and the atoms that have them.
Seen(line, terms) == {t \in terms : \E atom \in ToSet(tokenize(line)) : Contains(atom, t)}

SpansWith(line, terms) ==
    LET all == tokenize(line)
        spans == Spans(line)
        with == SelectSeq([n \in DOMAIN spans |-> n],
                          LAMBDA n : \E t \in terms : Contains(all[n], t))
    IN  [k \in DOMAIN with |-> spans[with[k]]]

\* line.trim(), as the interval that is left.
Trimmed(line) ==
    LET kept == {i \in DOMAIN line : line[i] \notin Whitespace} IN <<Min(kept), Max(kept)>>

Ellipsis(cut) == IF cut THEN <<"...">> ELSE <<>>

\* Mutant: the ranges do not make room for the leading ellipsis.
Shift_NoRoom(prefix, first) == 1 - first

\* How far ranges move when the text is prefix and the line from first on.
Shift(prefix, first) == Len(prefix) + 1 - first

\* make_snippet: a window of the trimmed line, a quarter of it before the first hit.
make_snippet(line, spans, max_width) ==
    LET trimmed == Trimmed(line)
        chars == trimmed[2] - trimmed[1] + 1
        hit == IF spans = <<>> THEN 0 ELSE spans[1][1] - trimmed[1]
        quarter == IF hit > max_width \div 4 THEN hit - max_width \div 4 ELSE 0
        whole == chars <= max_width \/ max_width = 0
        first == IF whole THEN trimmed[1]
                 ELSE trimmed[1] + Min({quarter, chars - max_width})
        last == IF whole THEN trimmed[2] ELSE first + max_width - 1
        prefix == Ellipsis(first > trimmed[1])
        inside == SelectSeq(spans, LAMBDA span : span[1] >= first /\ span[2] <= last)
        shift == Shift(prefix, first)
    IN  [text |-> prefix \o SubSeq(line, first, last) \o Ellipsis(last < trimmed[2]),
         highlights |-> [n \in DOMAIN inside |->
                            <<inside[n][1] + shift, inside[n][2] + shift>>]]

NoSnippet == [text |-> <<>>, highlights |-> <<>>]

\* The line with the most of the terms, the first of those: 0 if none has any.
best_line(distinct) ==
    LET most == Max({0} \cup ToSet(distinct))
    IN  IF most = 0 THEN 0 ELSE Min({n \in DOMAIN distinct : distinct[n] = most})

Excerpt(line, terms, max_width) == make_snippet(line, SpansWith(line, terms), max_width)

\* snippet_for: the best line, if there is one, cut to a window.
snippet_for(s, terms, max_width) ==
    LET all == lines(s)
        best == best_line([n \in DOMAIN all |-> Cardinality(Seen(all[n], terms))])
    IN  IF best = 0 THEN NoSnippet ELSE Excerpt(all[best], terms, max_width)
=============================================================================
