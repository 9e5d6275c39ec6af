------------------------------ MODULE Tokenizer ------------------------------
(***************************************************************************)
(* How a text becomes atoms, and an atom terms (src/tokenizer.rs).         *)
(*                                                                         *)
(* A text is a sequence of characters, of which there is one or a few of   *)
(* each kind the code tells apart.  "mark" is a combining mark, "." stands *)
(* for the punctuation that UAX #29 leaves inside words, "-" for the rest. *)
(* Places are counted from 1, intervals are pairs <<first, last>>.         *)
(***************************************************************************)
EXTENDS Integers, Sequences, FiniteSets, FiniteSetsExt, SequencesExt

Upper == {"A", "D", "N", "O", "R"}
Lower == {"a", "d", "n", "o", "r"}
Digit == {"1"}
Whitespace == {" ", "newline"}
Char == Upper \cup Lower \cup Digit \cup Whitespace \cup {"_", "mark", ".", "-", "(", ")", "\""}

\* is_cut: punctuation, but for "_".
is_cut(c) == c \in {".", "-", "(", ")", "\""}

IsAlphanumeric(c) == c \in Upper \cup Lower \cup Digit

\* to_lowercase
LowerCase == [c \in Upper |-> CASE c = "A" -> "a" [] c = "D" -> "d" [] c = "N" -> "n"
                                [] c = "O" -> "o" [] c = "R" -> "r"]
fold(s) == [i \in DOMAIN s |-> IF s[i] \in Upper THEN LowerCase[s[i]] ELSE s[i]]

-----------------------------------------------------------------------------
(* The word boundaries of UAX #29 (the unicode-segmentation crate).         *)

\* The character that marks up to i belong to, i itself if it is none; 0 if they
\* begin the text or a line.
Base(text, i) ==
    LET j == Max({0} \cup {k \in 1 .. i : text[k] # "mark"})
    IN  IF j \in 1 .. i - 1 /\ text[j] = "newline" THEN 0 ELSE j

Wordlike(c) == c \notin Whitespace /\ (c = "_" \/ ~is_cut(c))

\* Whether there is no boundary between the characters i and i + 1.
Joined(text, i) ==
    LET before == Base(text, i)
        next == text[i + 1]
        Behind(k) == {j \in k + 1 .. Len(text) : text[j] # "mark"}
        \* What is on both sides of the "." are letters, or digits.
        Inside(p, dot) ==
            /\ text[dot] = "." /\ p > 0 /\ Behind(dot) # {}
            /\ \E S \in {Upper \cup Lower, Digit} :
                  {text[p], text[Min(Behind(dot))]} \subseteq S
    IN  \/ next = "mark" /\ text[i] # "newline"
        \/ /\ next # "mark" /\ before > 0
           /\ \/ Wordlike(text[before]) /\ Wordlike(next)
              \/ Inside(before, i + 1)
              \/ before > 1 /\ Inside(Base(text, before - 1), before)

-----------------------------------------------------------------------------
(* Atoms: the runs without cut characters inside a word, those that have a  *)
(* letter or a digit.                                                       *)

\* The longest intervals of places in within, where a place in linked has the next
\* one in the same interval.
Runs(within, linked) ==
    LET starts == {i \in within : ~(i - 1 \in within /\ i - 1 \in linked)}
        End(p) == Max({j \in within : p <= j /\ \A k \in p .. j - 1 : k \in linked /\ k + 1 \in within})
    IN  [n \in 1 .. Cardinality(starts) |->
            LET p == CHOOSE i \in starts : Cardinality({j \in starts : j < i}) = n - 1
            IN  <<p, End(p)>>]

Slice(s, interval) == SubSeq(s, interval[1], interval[2])
Slices(s, intervals) == [n \in DOMAIN intervals |-> Slice(s, intervals[n])]

\* next_atom, until there is none: the spans of the atoms.
Spans(text) ==
    LET not_cut == {i \in DOMAIN text : ~is_cut(text[i])}
        no_boundary == {i \in 1 .. Len(text) - 1 : Joined(text, i)}
    IN  SelectSeq(Runs(not_cut, no_boundary),
                  LAMBDA span : \E i \in span[1] .. span[2] : IsAlphanumeric(text[i]))

-----------------------------------------------------------------------------
(* Identifier parts.                                                        *)

class(c) == CASE c \in Upper -> "Upper"
              [] c \in Lower -> "Lower"
              [] c \in Digit -> "Digit"
              [] OTHER -> "Other"

\* split_camel: whether a part ends after the character i.
CamelCut(atom, i) ==
    LET after_non_upper == class(atom[i]) \notin {"Upper", "Other"}
        acronym_end == /\ class(atom[i]) = "Upper"
                       /\ i + 2 <= Len(atom) /\ class(atom[i + 2]) = "Lower"
    IN  class(atom[i + 1]) = "Upper" /\ (after_non_upper \/ acronym_end)

identifier_parts(atom) ==
    LET not_underscore == {i \in DOMAIN atom : atom[i] # "_"}
        same_part == {i \in 1 .. Len(atom) - 1 : ~CamelCut(atom, i)}
        parts == Slices(atom, Runs(not_underscore, same_part))
    IN  IF parts = <<atom>> THEN <<>> ELSE parts

\* The terms of an atom: the whole, then the parts that say something else.
RECURSIVE WithParts(_, _)
WithParts(terms, parts) ==
    IF parts = <<>> THEN terms
    ELSE WithParts(IF Contains(terms, fold(parts[1])) THEN terms
                   ELSE Append(terms, fold(parts[1])), Tail(parts))

Emitted(atom) == WithParts(<<fold(atom)>>, identifier_parts(atom))

\* tokenize: the terms at each position of a text that is indexed.
tokenize(text) == LET all == Slices(text, Spans(text)) IN [n \in DOMAIN all |-> Emitted(all[n])]

\* Mutant: identifiers are split on the query side, too.
atoms_Split(text) == FlattenSeq(tokenize(text))

\* atoms: the terms of a text that is typed.
atoms(text) == LET all == Slices(text, Spans(text)) IN [n \in DOMAIN all |-> fold(all[n])]
=============================================================================
