------------------------------ MODULE Evaluate ------------------------------
(***************************************************************************)
(* The evaluation of a parsed query over the segments of an index          *)
(* (src/query/exec.rs, src/store/segment.rs).                              *)
(*                                                                         *)
(* A segment is a record of the id of its first doc and its three files.   *)
(* A result is a sequence of hits, ascending by doc.  BM25 is left out: a  *)
(* hit's score is the number of occurrences it is computed from, summed as *)
(* scores are.                                                             *)
(***************************************************************************)
EXTENDS SegmentFile, QueryNode

Hit(doc, score) == [doc |-> doc, score |-> score]

-----------------------------------------------------------------------------
(* A segment as the engine sees it.  A doc has a length if it is indexed    *)
(* and not deleted: the doc table decides whether a posting counts.         *)

num_docs(seg) == Len(seg.doc.records)
end_doc(seg) == seg.base + num_docs(seg)

HasLen(seg, local) ==
    /\ local < num_docs(seg)
    /\ ~is_deleted(seg.del, local)
    /\ seg.doc.records[local + 1].indexed

NoDoc == [path |-> <<>>, indexed |-> FALSE, len |-> -1]

doc_meta(seg, local) ==
    IF local >= num_docs(seg) \/ is_deleted(seg.del, local) THEN NoDoc
    ELSE DocOf(seg.doc, local)

\* locate finds the first segment that ends behind the id; an id before its base
\* is of no doc.
DocWithId(segs, id) ==
    LET behind == {i \in DOMAIN segs : end_doc(segs[i]) > id}
        seg == segs[Min(behind)]
    IN  IF behind = {} \/ id < seg.base THEN NoDoc ELSE doc_meta(seg, id - seg.base)

\* Index::doc: under the path of its patch, if there is one.
PatchedDoc(segs, patches, id) ==
    LET found == DocWithId(segs, id)
        patch == SelectSeq(patches, LAMBDA p : p.doc_id = id)
    IN  IF found = NoDoc \/ patch = <<>> THEN found ELSE [found EXCEPT !.path = patch[1].path]

\* One dictionary lookup per term; terms the segment lacks are left out.
Lists(seg, ts) ==
    LET found == Table([t \in ts |-> lookup(seg.idx, t)])
    IN  Table([t \in {u \in ts : found[u] # Absent} |-> found[t]])

-----------------------------------------------------------------------------
(* Leaves: walks of cursors.                                                *)

RECURSIVE Walk(_, _, _)
Walk(seg, data, c) ==
    IF Done(c) THEN <<>>
    ELSE (IF HasLen(seg, c.cur.doc) THEN <<Hit(c.cur.doc, c.cur.tf)>> ELSE <<>>)
            \o Walk(seg, data, Advance(data, c))

eval_term(seg, lists, t) ==
    IF t \in DOMAIN lists THEN Walk(seg, lists[t], NewCursor(lists[t])) ELSE <<>>

\* phrase_matches: the positions p of the first term such that term i is at p + i - 1.
phrase_matches(positions) ==
    Cardinality({p \in ToSet(positions[1]) :
        \A i \in DOMAIN positions : p + i - 1 \in ToSet(positions[i])})

\* The leapfrog: every cursor from the i-th on is brought to target; one that
\* overshoots sets a new target for the first, and all start over.
RECURSIVE Align(_, _, _, _)

SeekTo(datas, cursors, i, target) == [cursors EXCEPT ![i] = Seek(datas[i], @, target)]

NotMet(cursors) == [met |-> FALSE, cursors |-> cursors]

\* Mutant: after an overshoot the cursors before are not looked at again.
StartOver_GoOn(datas, cursors, i) ==
    IF Done(cursors[1]) THEN NotMet(cursors)
    ELSE Align(datas, cursors, cursors[1].cur.doc, i + 1)

StartOver(datas, cursors, i) ==
    IF Done(cursors[1]) THEN NotMet(cursors)
    ELSE Align(datas, cursors, cursors[1].cur.doc, 2)

Brought(datas, cursors, target, i) ==
    IF Done(cursors[i]) THEN NotMet(cursors)
    ELSE IF cursors[i].cur.doc = target THEN Align(datas, cursors, target, i + 1)
    ELSE StartOver(datas, SeekTo(datas, cursors, 1, cursors[i].cur.doc), i)

Align(datas, cursors, target, i) ==
    IF i > Len(cursors) THEN [met |-> TRUE, cursors |-> cursors]
    ELSE Brought(datas, SeekTo(datas, cursors, i, target), target, i)

RECURSIVE Leapfrog(_, _, _)

Met(seg, datas, at) ==
    LET doc == at[1].cur.doc
        tf == phrase_matches([i \in DOMAIN at |-> Positions(datas[i], at[i])])
    IN  (IF HasLen(seg, doc) /\ tf > 0 THEN <<Hit(doc, tf)>> ELSE <<>>)
            \o Leapfrog(seg, datas, [at EXCEPT ![1] = Advance(datas[1], @)])

Leapfrog(seg, datas, cursors) ==
    IF Done(cursors[1]) THEN <<>>
    ELSE LET aligned == Align(datas, cursors, cursors[1].cur.doc, 2)
         IN  IF aligned.met THEN Met(seg, datas, aligned.cursors) ELSE <<>>

eval_phrase(seg, lists, ts) ==
    IF ToSet(ts) \subseteq DOMAIN lists
    THEN LET datas == [i \in DOMAIN ts |-> lists[ts[i]]]
         IN  Leapfrog(seg, datas, [i \in DOMAIN datas |-> NewCursor(datas[i])])
    ELSE <<>>

-----------------------------------------------------------------------------
(* Inner nodes: results are sorted by doc, so the code's binary searches    *)
(* and merges are selections by doc.                                        *)

Has(hits, doc) == \E i \in DOMAIN hits : hits[i].doc = doc
ScoreOf(hits, doc) == hits[CHOOSE i \in DOMAIN hits : hits[i].doc = doc].score

intersect(lists) ==
    LET common == SelectSeq(lists[1], LAMBDA h : \A i \in DOMAIN lists : Has(lists[i], h.doc))
    IN  [n \in DOMAIN common |->
            Hit(common[n].doc,
                Reduce(LAMBDA s, l : s + ScoreOf(l, common[n].doc), 0, lists))]

RECURSIVE merge_sum(_, _)
merge_sum(a, b) ==
    CASE a = <<>> -> b
      [] b = <<>> -> a
      [] a # <<>> /\ b # <<>> ->
           CASE a[1].doc < b[1].doc -> <<a[1]>> \o merge_sum(Tail(a), b)
             [] a[1].doc > b[1].doc -> <<b[1]>> \o merge_sum(a, Tail(b))
             [] a[1].doc = b[1].doc ->
                  <<Hit(a[1].doc, a[1].score + b[1].score)>> \o merge_sum(Tail(a), Tail(b))

union(lists) == Reduce(merge_sum, <<>>, lists)

difference(hits, excluded) == SelectSeq(hits, LAMBDA h : ~Has(excluded, h.doc))

RECURSIVE eval_node(_, _, _)
eval_node(seg, lists, node) ==
    CASE node.kind = "Term" -> eval_term(seg, lists, node.t)
      [] node.kind = "Phrase" -> eval_phrase(seg, lists, node.ts)
      [] node.kind = "Or" ->
           union([i \in DOMAIN node.children |-> eval_node(seg, lists, node.children[i])])
      [] node.kind = "And" ->
           Reduce(LAMBDA hits, n : difference(hits, eval_node(seg, lists, n)),
                    intersect([i \in DOMAIN node.must |-> eval_node(seg, lists, node.must[i])]),
                    node.must_not)

-----------------------------------------------------------------------------
(* evaluate: segment by segment, ids offset by the segment's base.          *)

Offset(hits, base) == [n \in DOMAIN hits |-> Hit(base + hits[n].doc, hits[n].score)]

evaluate(segs, node) ==
    FlattenSeq([i \in DOMAIN segs |->
        Offset(eval_node(segs[i], Lists(segs[i], query_terms(node)), node), segs[i].base)])

-----------------------------------------------------------------------------
(* search: the best hits, ties by id.                                       *)

\* A stable sort by descending score.
ByScore(hits) ==
    LET before(m, n) == \/ hits[m].score > hits[n].score
                        \/ hits[m].score = hits[n].score /\ m < n
        order == SortSeq([n \in DOMAIN hits |-> n], before)
    IN  [n \in DOMAIN hits |-> hits[order[n]]]

TopOf(hits, limit) ==
    [hits |-> SubSeq(ByScore(hits), 1, Min({limit, Len(hits)})), total_matches |-> Len(hits)]

search(segs, node, limit) == TopOf(evaluate(segs, node), limit)
=============================================================================
