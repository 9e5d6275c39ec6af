---------------------------- MODULE MemoryIndex ----------------------------
(***************************************************************************)
(* The posting lists a build keeps in memory (src/index/memory.rs) and the *)
(* documents it makes them of (src/index/builder.rs).                      *)
(*                                                                         *)
(* The n-th atom of a text is at position n - 1; the terms emitted there   *)
(* are the whole atom and its parts (Tokenizer).  A document that is not   *)
(* indexed (unreadable, not UTF-8, binary, too large) has NoText.          *)
(***************************************************************************)
EXTENDS Tokenizer, TLC

CONSTANT NoText    \* what is read of a document that gets no postings

-----------------------------------------------------------------------------
(* A fold from the left and a sort of natural numbers.  The library has     *)
(* both (FoldLeft, SetToSortSeq), by definitions too slow for the runs.     *)

Reduce(op(_, _), base, s) ==
    LET f[i \in 0 .. Len(s)] == IF i = 0 THEN base ELSE op(f[i - 1], s[i])
    IN  f[Len(s)]

\* The function itself, of which TLC then computes each value once.
Table(f) == f @@ <<>>

Ascending(S) == SelectSeq([i \in 1 .. 1 + Max({0} \cup S) |-> i - 1], LAMBDA n : n \in S)

-----------------------------------------------------------------------------
(* MemPostingList: a sequence of postings, ascending by doc.                *)

push(list, doc, position) ==
    IF list # <<>> /\ Last(list).doc = doc
    THEN IF Last(Last(list).positions) = position
         THEN list
         ELSE [list EXCEPT ![Len(list)].positions = Append(@, position)]
    ELSE Append(list, [doc |-> doc, positions |-> <<position>>])

\* The map of terms; a term without postings has the empty list.
ListOf(terms, t) == IF t \in DOMAIN terms THEN terms[t] ELSE <<>>

Pushed(terms, t, doc, position) ==
    (t :> push(ListOf(terms, t), doc, position)) @@ terms

\* Of lists that are, doc by doc, one behind the other (Encodable: SegmentFile).
append(list, other) == list \o other

\* merge_shard: each list of the shard is appended to the store's.
merge_shard(store, shard) ==
    Table([t \in DOMAIN store \cup DOMAIN shard |-> append(ListOf(store, t), ListOf(shard, t))])

-----------------------------------------------------------------------------
(* index_document: every term of every atom, in source order.               *)

index_atom(terms, doc, atom, position) ==
    Reduce(LAMBDA m, t : Pushed(m, t, doc, position), terms, atom)

index_document(terms, doc, text) ==
    LET emitted == tokenize(text)
    IN  Reduce(LAMBDA m, n : index_atom(m, doc, emitted[n], n - 1), terms,
               [n \in DOMAIN emitted |-> n])

\* index_shard: the postings of consecutive documents, ids from first_doc on.
index_shard(first_doc, texts) ==
    Reduce(LAMBDA m, i : IF texts[i] = NoText THEN m
                         ELSE index_document(m, first_doc + i - 1, texts[i]),
           <<>>, [i \in DOMAIN texts |-> i])

\* The record of a document: its length in atoms, if it was indexed.
RecordOf(path, text) ==
    [path |-> path, indexed |-> text # NoText,
     len |-> IF text = NoText THEN 0 ELSE Len(tokenize(text))]

-----------------------------------------------------------------------------
(* MemPostingCursor: an index idx into the list, Len(list) when exhausted.  *)

MemDoc(list, idx) == IF idx < Len(list) THEN list[idx + 1].doc ELSE -1

MemAdvance(list, idx) == IF idx < Len(list) THEN idx + 1 ELSE idx

\* The doubling steps of seek: the last interval lo + 1 .. hi - 1 to search.
RECURSIVE Gallop(_, _, _, _)
Gallop(list, target, lo, step) ==
    IF lo + step < Len(list) /\ list[lo + step + 1].doc < target
    THEN Gallop(list, target, lo + step, 2 * step)
    ELSE [lo |-> lo, hi |-> IF lo + step < Len(list) THEN lo + step ELSE Len(list)]

MemSeek(list, idx, target) ==
    IF idx >= Len(list) \/ list[idx + 1].doc >= target
    THEN idx
    ELSE LET last == Gallop(list, target, idx, 1)
         IN  last.lo + 1 + Cardinality({i \in last.lo + 1 .. last.hi - 1 :
                                            list[i + 1].doc < target})
=============================================================================
