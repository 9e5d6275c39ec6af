----------------------------- MODULE QueryParser -----------------------------
(***************************************************************************)
(* From the characters of a query to its node (src/query/parser.rs).       *)
(*                                                                         *)
(* A token is a record of a kind and, for words and phrases, its text.  A  *)
(* parsing function takes the tokens and the index idx of the first that   *)
(* is not consumed, and returns the index behind what it consumed with a   *)
(* node, or an error.  Where an error is, and of what, is left out.        *)
(***************************************************************************)
EXTENDS Tokenizer, QueryNode

Tok(kind, text) == [kind |-> kind, text |-> text]

-----------------------------------------------------------------------------
(* lex: the tokens, or UnterminatedPhrase.                                  *)

EndsWord(c) == c \in Whitespace \cup {"(", ")", "\""}

\* The first place from i on whose character is in S; one past the end if none is.
NextIn(src, i, S) == Min({Len(src) + 1} \cup {j \in i .. Len(src) : src[j] \in S})

WordTok(word) == CASE word = <<"A", "N", "D">> -> Tok("And", <<>>)
                   [] word = <<"O", "R">> -> Tok("Or", <<>>)
                   [] OTHER -> Tok("Word", word)

Unterminated == <<Tok("Unterminated", <<>>)>>

RECURSIVE lex(_, _, _)
lex(src, i, toks) ==
    IF i > Len(src) THEN toks
    ELSE CASE src[i] \in Whitespace -> lex(src, i + 1, toks)
           [] src[i] = "(" -> lex(src, i + 1, Append(toks, Tok("LParen", <<>>)))
           [] src[i] = ")" -> lex(src, i + 1, Append(toks, Tok("RParen", <<>>)))
           [] src[i] = "\"" ->
                LET close == NextIn(src, i + 1, {"\""})
                IN  IF close > Len(src) THEN Unterminated
                    ELSE lex(src, close + 1,
                             Append(toks, Tok("Phrase", SubSeq(src, i + 1, close - 1))))
           [] src[i] = "-" ->
                IF i < Len(src) /\ src[i + 1] \notin Whitespace
                THEN lex(src, i + 1, Append(toks, Tok("Minus", <<>>)))
                ELSE lex(src, i + 1, toks)
           [] OTHER ->
                LET end == NextIn(src, i, {c \in Char : EndsWord(c)})
                IN  lex(src, end, Append(toks, WordTok(SubSeq(src, i, end - 1))))

-----------------------------------------------------------------------------
(* The recursive descent.                                                   *)

None == [kind |-> "None"]
NodeOfTerms(terms) ==
    CASE Len(terms) = 0 -> None
      [] Len(terms) = 1 -> Term(terms[1])
      [] Len(terms) > 1 -> Phrase(terms)

\* text_to_node: None, a term or a phrase.
text_to_node(text) == NodeOfTerms(atoms(text))

Parsed(node, idx) == [ok |-> TRUE, node |-> node, idx |-> idx]
Failed(error) == [ok |-> FALSE, error |-> error]

\* The kind of the next token.
peek(toks, idx) == IF idx <= Len(toks) THEN toks[idx].kind ELSE "End"

\* Mutant: any token will do.
starts_operand_Any(toks, idx) == peek(toks, idx) # "End"

starts_operand(toks, idx) == peek(toks, idx) \in {"Word", "Phrase", "Minus", "LParen"}

RECURSIVE parse_or(_, _, _), parse_and(_, _, _, _), parse_atom(_, _)

\* What follows an opening parenthesis.
Closed(toks, inner) ==
    IF ~inner.ok THEN inner
    ELSE IF peek(toks, inner.idx) = "RParen" THEN Parsed(inner.node, inner.idx + 1)
    ELSE Failed("UnbalancedParen")

parse_atom(toks, idx) ==
    CASE peek(toks, idx) = "End" -> Failed("Empty")
      [] peek(toks, idx) = "LParen" -> Closed(toks, parse_or(toks, idx + 1, <<>>))
      [] peek(toks, idx) \in {"Word", "Phrase"} ->
           Parsed(text_to_node(toks[idx].text), idx + 1)
      [] peek(toks, idx) \in {"And", "Or", "Minus", "RParen"} -> Failed("Unexpected")

\* What the operands of an AND come to.
And_of(toks, idx, must, must_not) ==
    CASE must = <<>> /\ must_not # <<>> -> Failed("OnlyNegation")
      [] must = <<>> /\ must_not = <<>> ->
           Failed(IF peek(toks, idx) = "End" THEN "Empty" ELSE "Unexpected")
      [] Len(must) = 1 /\ must_not = <<>> -> Parsed(must[1], idx)
      [] OTHER -> Parsed(And(must, must_not), idx)

\* One more operand of an AND; one without words is left out.
Operand_of(toks, negated, unary, must, must_not) ==
    LET With(nodes) == IF unary.node = None THEN nodes ELSE Append(nodes, unary.node)
    IN  IF ~unary.ok THEN unary
        ELSE IF negated THEN parse_and(toks, unary.idx, must, With(must_not))
        ELSE parse_and(toks, unary.idx, With(must), must_not)

parse_and(toks, idx, must, must_not) ==
    LET leading == must = <<>> /\ must_not = <<>>
        negated == peek(toks, idx) = "Minus"
    IN  CASE peek(toks, idx) \in {"End", "Or", "RParen"} -> And_of(toks, idx, must, must_not)
          [] peek(toks, idx) = "And" ->
               IF leading \/ ~starts_operand(toks, idx + 1) THEN Failed("Unexpected")
               ELSE parse_and(toks, idx + 1, must, must_not)
          [] OTHER ->
               Operand_of(toks, negated, parse_atom(toks, IF negated THEN idx + 1 ELSE idx),
                          must, must_not)

\* One more clause of an OR.
Clause_of(toks, clause, children) ==
    LET all == Append(children, clause.node)
    IN  IF ~clause.ok THEN clause
        ELSE IF peek(toks, clause.idx) # "Or"
        THEN Parsed(IF Len(all) = 1 THEN all[1] ELSE Or(all), clause.idx)
        ELSE IF starts_operand(toks, clause.idx + 1)
        THEN parse_or(toks, clause.idx + 1, all)
        ELSE Failed("Unexpected")

parse_or(toks, idx, children) ==
    Clause_of(toks, parse_and(toks, idx, <<>>, <<>>), children)

\* The query, all of toks.
Whole(toks, query) ==
    IF query.ok /\ query.idx <= Len(toks) THEN Failed("UnbalancedParen") ELSE query

parse_toks(toks) ==
    CASE toks = Unterminated -> Failed("UnterminatedPhrase")
      [] toks = <<>> -> Failed("Empty")
      [] OTHER -> Whole(toks, parse_or(toks, 1, <<>>))

parse(input) == parse_toks(lex(input, 1, <<>>))
=============================================================================
