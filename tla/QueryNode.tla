------------------------------ MODULE QueryNode ------------------------------
(***************************************************************************)
(* Parsed queries (Node of src/query/parser.rs) and what they mean.        *)
(*                                                                         *)
(* A node is a record with a kind: Term (a term), Phrase (a sequence of    *)
(* terms), And (must and must_not, sequences of nodes) or Or (children).   *)
(* A text is the sequence of its atoms, an atom the sequence of the terms  *)
(* emitted at its position, the whole atom first.                          *)
(***************************************************************************)
EXTENDS Integers, Sequences, SequencesExt

Term(t) == [kind |-> "Term", t |-> t]
Phrase(ts) == [kind |-> "Phrase", ts |-> ts]
And(must, must_not) == [kind |-> "And", must |-> must, must_not |-> must_not]
Or(children) == [kind |-> "Or", children |-> children]

\* query_terms: every term the query names, positive or negated.
RECURSIVE query_terms(_)
query_terms(node) ==
    CASE node.kind = "Term" -> {node.t}
      [] node.kind = "Phrase" -> ToSet(node.ts)
      [] node.kind = "And" -> UNION {query_terms(n) : n \in ToSet(node.must \o node.must_not)}
      [] node.kind = "Or" -> UNION {query_terms(n) : n \in ToSet(node.children)}

\* highlight_terms: the positive ones, which snippets look for.
RECURSIVE highlight_terms(_)
highlight_terms(node) ==
    CASE node.kind = "Term" -> {node.t}
      [] node.kind = "Phrase" -> ToSet(node.ts)
      [] node.kind = "And" -> UNION {highlight_terms(n) : n \in ToSet(node.must)}
      [] node.kind = "Or" -> UNION {highlight_terms(n) : n \in ToSet(node.children)}

-----------------------------------------------------------------------------
(* The meaning of a node, from the comments on Node: a phrase is found      *)
(* where its terms are at consecutive positions.                            *)

\* Where in a text the terms ts are found, one after the other.
Found(ts, text) ==
    {n \in DOMAIN text : \A i \in DOMAIN ts :
        n + i - 1 \in DOMAIN text /\ Contains(text[n + i - 1], ts[i])}

RECURSIVE Matches(_, _)
Matches(node, text) ==
    CASE node.kind = "Term" -> Found(<<node.t>>, text) # {}
      [] node.kind = "Phrase" -> Found(node.ts, text) # {}
      [] node.kind = "Or" -> \E n \in ToSet(node.children) : Matches(n, text)
      [] node.kind = "And" -> /\ \A n \in ToSet(node.must) : Matches(n, text)
                              /\ \A n \in ToSet(node.must_not) : ~Matches(n, text)
=============================================================================
