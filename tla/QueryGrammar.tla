---------------------------- MODULE QueryGrammar ----------------------------
(***************************************************************************)
(* The query language by its grammar (src/query/parser.rs, the comment on  *)
(* the module): which queries there are and what they speak of.  It is     *)
(* what the recursive descent of QueryParser is compared with, so it is    *)
(* said another way: a query is taken apart at its operators, from the     *)
(* outermost inwards.                                                      *)
(***************************************************************************)
EXTENDS QueryParser

Count(toks, i, kind) == Cardinality({j \in 1 .. i : toks[j].kind = kind})
Depth(toks, i) == Count(toks, i, "LParen") - Count(toks, i, "RParen")

Balanced(toks) == /\ \A i \in DOMAIN toks : Depth(toks, i) >= 0
                  /\ Depth(toks, Len(toks)) = 0

\* The places of the tokens outside of all parentheses, these included.
Outside(toks) == {i \in DOMAIN toks : 0 \in {Depth(toks, i), Depth(toks, i - 1)}}

\* Clauses, separated by ORs.
Clauses(toks) ==
    Runs({i \in DOMAIN toks : ~(toks[i].kind = "Or" /\ Depth(toks, i) = 0)}, DOMAIN toks)

Operand == {"Word", "Phrase", "LParen"}
Begins(toks, i) == i \in DOMAIN toks /\ toks[i].kind \in Operand \cup {"Minus"}

\* The operands of a clause are where it has one outside of its parentheses.
Operands(clause) == {i \in Outside(clause) : clause[i].kind \in Operand}
Negated(clause, i) == i > 1 /\ clause[i - 1].kind = "Minus"

\* What the parenthesis that opens at i encloses.
Inside(clause, i) ==
    LET close == Min({j \in i .. Len(clause) : Depth(clause, j) = Depth(clause, i) - 1})
    IN  SubSeq(clause, i + 1, close - 1)

HasWords(clause, i) == clause[i].kind = "LParen" \/ atoms(clause[i].text) # <<>>

RECURSIVE WellFormed(_), LeadingAnd(_), Sense(_, _)

WellFormed(toks) ==
    /\ Balanced(toks)
    /\ toks # <<>> /\ toks[1].kind # "Or" /\ toks[Len(toks)].kind # "Or"
    /\ \A i \in DOMAIN toks : toks[i].kind = "Or" => Begins(toks, i + 1)
    /\ \A span \in ToSet(Clauses(toks)) :
          LET clause == Slice(toks, span)
              words == {i \in Operands(clause) : HasWords(clause, i)}
          IN  /\ \E i \in words : ~Negated(clause, i)
              /\ \A i \in Outside(clause) :
                    /\ clause[i].kind = "And" => i > 1 /\ Begins(clause, i + 1)
                    /\ clause[i].kind = "Minus" => i + 1 \in Operands(clause)
              /\ \A i \in Operands(clause) :
                    clause[i].kind = "LParen" => WellFormed(Inside(clause, i))

\* Some AND has operands before it, but none with words.  The grammar allows it;
\* the parser has dropped those operands by then and takes the AND for the first
\* thing in its clause.
LeadingAnd(toks) ==
    \E span \in ToSet(Clauses(toks)) :
        LET clause == Slice(toks, span)
        IN  \/ \E i \in Outside(clause) :
                  /\ clause[i].kind = "And"
                  /\ \A j \in Operands(clause) : j < i => ~HasWords(clause, j)
            \/ \E i \in Operands(clause) :
                  clause[i].kind = "LParen" /\ LeadingAnd(Inside(clause, i))

\* The texts a query speaks of.  texts: a sequence of texts, each tokenized.
Sense(toks, texts) ==
    LET Says(clause, i) == IF clause[i].kind = "LParen" THEN Sense(Inside(clause, i), texts)
                           ELSE {d \in DOMAIN texts : Found(atoms(clause[i].text), texts[d]) # {}}
        OfClause(clause) ==
            {d \in DOMAIN texts : \A i \in Operands(clause) :
                HasWords(clause, i) => (d \in Says(clause, i)) = ~Negated(clause, i)}
    IN  UNION {OfClause(Slice(toks, span)) : span \in ToSet(Clauses(toks))}
=============================================================================
