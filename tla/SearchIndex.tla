---------------------------- MODULE SearchIndex ----------------------------
(***************************************************************************)
(* What is searched: documents are indexed shard by shard, flushed to      *)
(* segments, deleted and merged, and queries are evaluated over the        *)
(* segments there are (src/store/writer.rs, merge.rs, reader.rs with       *)
(* src/query/exec.rs).  One writer at a time, one commit an action: what   *)
(* happens between the steps of a commit is the matter of CommitProtocol,  *)
(* IndexStore and DocIndex, which in turn leave the contents out.          *)
(*                                                                         *)
(* Segments are named by their place in segs: ids are given out in the     *)
(* order of doc ids, so both orders are one.                               *)
(***************************************************************************)
EXTENDS Evaluate, QueryParser

CONSTANTS Text,              \* texts of documents: sequences of characters
          docs_per_segment,  \* a segment is flushed once it holds this many docs
          shard_size,        \* documents in a shard, at most
          tier_size,         \* segments a tier needs to be merged
          max_merge,         \* segments of a group, at most
          max_segment_bytes, \* larger segments are not merged
          min_tier_bytes,    \* smaller segments are of one tier (1 MiB in the code)
          del_percent,       \* a segment more than this deleted is rewritten
          Query,             \* queries that are tried on every index
          MaxDocs,           \* bound: documents
          MaxId,             \* bound: ids that merges give out
          MaxDeleted         \* bound: deleted docs that are in segments at a time

ASSUME SearchAssumption ==
    /\ {docs_per_segment, shard_size, min_tier_bytes} \subseteq Nat \ {0}
    /\ {tier_size, max_merge, max_segment_bytes, del_percent, MaxDocs, MaxId,
        MaxDeleted} \subseteq Nat
    /\ NoText \notin Text

VARIABLES acc,      \* SegmentAcc: records and postings not yet flushed
          segs,     \* the segments, ascending by base
          text_of,  \* history: the text of each document, numbered from 1
          doc_at,   \* history: the document each doc id was given to
          removed   \* history: the documents that were deleted

index == <<acc, segs, text_of, doc_at, removed>>

NewAcc == [records |-> <<>>, store |-> <<>>]

EmptyIndex == acc = NewAcc /\ segs = <<>> /\ text_of = <<>> /\ doc_at = <<>> /\ removed = {}

\* The first id that no segment has.
id_bound == Max({0} \cup {end_doc(segs[i]) : i \in DOMAIN segs})

-----------------------------------------------------------------------------
(* build_segments: a shard is absorbed by the accumulator, which is flushed *)
(* when it is full and at the end.                                          *)

absorb(a, first_doc, paths, texts) ==
    [records |-> a.records \o [i \in DOMAIN texts |-> RecordOf(paths[i], texts[i])],
     store |-> merge_shard(a.store, index_shard(first_doc, texts))]

over_budget(a) == Len(a.records) >= docs_per_segment

flush_segment(a, base) ==
    [base |-> base, idx |-> write_idx(a.store, base), doc |-> encode_docs(a.records),
     del |-> NoDeletions]

\* The path of a document: of another length for each.
PathOf(d) == [i \in 1 .. d |-> d]

\* The documents docs are given the ids from first_doc on.
GiveIds(first_doc, docs) ==
    doc_at' = doc_at @@ [id \in first_doc .. first_doc + Len(docs) - 1 |->
                            docs[id - first_doc + 1]]

Absorbed(full) ==
    IF over_budget(full)
    THEN acc' = NewAcc /\ segs' = Append(segs, flush_segment(full, id_bound))
    ELSE acc' = full /\ UNCHANGED segs

Shard(texts) ==
    LET first_doc == id_bound + Len(acc.records)
        docs == [n \in DOMAIN texts |-> Len(text_of) + n]
    IN  /\ Len(text_of) + Len(texts) <= MaxDocs
        /\ Absorbed(absorb(acc, first_doc, [n \in DOMAIN docs |-> PathOf(docs[n])], texts))
        /\ text_of' = text_of \o texts
        /\ GiveIds(first_doc, docs)
        /\ UNCHANGED removed

Finish ==
    /\ acc.records # <<>>
    /\ segs' = Append(segs, flush_segment(acc, id_bound))
    /\ acc' = NewAcc
    /\ UNCHANGED <<text_of, doc_at, removed>>

-----------------------------------------------------------------------------
(* Deletions and merges: commits of their own.                              *)

Committed == acc = NewAcc

num_deleted(seg) == count(seg.del)
live_docs(seg) == num_docs(seg) - num_deleted(seg)
NumDeleted == Reduce(LAMBDA n, seg : n + num_deleted(seg), 0, segs)

\* recompute_stats: how many docs there are, and of which kind.
recompute_stats ==
    LET total(of(_)) == Reduce(LAMBDA n, seg : n + of(seg), 0, segs)
    IN  [docs_total |-> total(live_docs),
         docs_indexed |-> total(LAMBDA seg : Max({0, seg.doc.num_indexed - num_deleted(seg)})),
         docs_skipped |-> total(LAMBDA seg : num_docs(seg) - seg.doc.num_indexed)]

Delete(i, local) ==
    /\ Committed
    /\ ~is_deleted(segs[i].del, local)
    /\ NumDeleted < MaxDeleted
    /\ LET del == IF segs[i].del = NoDeletions THEN NewBitmap(num_docs(segs[i]))
                  ELSE segs[i].del
       IN  segs' = [segs EXCEPT ![i].del = set_bit(del, local)]
    /\ removed' = removed \cup {doc_at[segs[i].base + local]}
    /\ UNCHANGED <<acc, text_of, doc_at>>

total_bytes(seg) ==
    Len(seg.idx.postings) + Len(seg.idx.dict) + Len(seg.idx.sparse) + num_docs(seg)
        + Len(seg.doc.paths) + Len(seg.del.bits)

\* The floor of the binary logarithm (of a size below 2 ^ 21).
Log2(n) == Max({k \in 0 .. 20 : 2 ^ k <= n})

Tier(seg) ==
    LET live_bytes == IF num_docs(seg) = 0 THEN 0
                      ELSE (total_bytes(seg) * live_docs(seg)) \div num_docs(seg)
    IN  Log2(Max({live_bytes, min_tier_bytes}))

chunks(s, n) ==
    [k \in 1 .. (Len(s) + n - 1) \div n |->
        SubSeq(s, (k - 1) * n + 1, IF k * n < Len(s) THEN k * n ELSE Len(s))]

\* Segments to be rewritten for their deletions, one at a time.
Rewrites ==
    {i \in DOMAIN segs : /\ 100 * num_deleted(segs[i]) > del_percent * num_docs(segs[i])
                         /\ total_bytes(segs[i]) <= max_segment_bytes}

InTier(n) ==
    Ascending({i \in DOMAIN segs \ Rewrites : /\ total_bytes(segs[i]) <= max_segment_bytes
                                                 /\ Tier(segs[i]) = n})

\* Mutant: a group of one is merged too.
TierGroups_OfOne(n) == chunks(InTier(n), Max({max_merge, 2}))

\* The groups of one tier, if it is large enough.
TierGroups(n) ==
    IF Len(InTier(n)) < tier_size THEN <<>>
    ELSE SelectSeq(chunks(InTier(n), Max({max_merge, 2})), LAMBDA group : Len(group) >= 2)

plan_merges ==
    LET tiers == Ascending({Tier(segs[i]) : i \in DOMAIN segs})
        rewrites == Ascending(Rewrites)
    IN  [k \in DOMAIN rewrites |-> <<rewrites[k]>>]
            \o FlattenSeq([k \in DOMAIN tiers |-> TierGroups(tiers[k])])

\* The docs of a group that are not deleted, in the order of their new ids.
Survivors(group) ==
    FlattenSeq([k \in DOMAIN group |->
        LET live == Ascending({local \in 0 .. num_docs(segs[group[k]]) - 1 :
                                  ~is_deleted(segs[group[k]].del, local)})
        IN  [n \in DOMAIN live |-> [seg |-> group[k], local |-> live[n]]]])

\* The store with the rest of a list added: postings of survivors, under new ids.
RECURSIVE Remapped(_, _, _, _, _, _)
Remapped(store, t, data, c, i, survivors) ==
    LET old == [seg |-> i, local |-> c.cur.doc]
        AddAt(m, p) == Pushed(m, t, SelectInSeq(survivors, LAMBDA s : s = old) - 1, p)
        added == IF Contains(survivors, old)
                 THEN Reduce(AddAt, store, Positions(data, c)) ELSE store
    IN  IF Done(c) THEN store
        ELSE Remapped(added, t, data, Advance(data, c), i, survivors)

prepare_merge(group) ==
    LET survivors == Survivors(group)
        AddList(store, i, e) ==
            LET data == postings_at(segs[i].idx, e)
            IN  Remapped(store, e.term, data, NewCursor(data), i, survivors)
        AddSegment(store, i) ==
            Reduce(LAMBDA m, e : AddList(m, i, e), store, terms(segs[i].idx))
    IN  [store |-> Reduce(AddSegment, <<>>, group),
         records |-> [n \in DOMAIN survivors |->
             DocOf(segs[survivors[n].seg].doc, survivors[n].local)],
         docs |-> [n \in DOMAIN survivors |->
             doc_at[segs[survivors[n].seg].base + survivors[n].local]]]

\* A prepared merge is committed under the ids from next_id on.
commit_one(done, prepared) ==
    [segs |-> Append(done.segs,
                 [base |-> done.next_id, idx |-> write_idx(prepared.store, 0),
                  doc |-> encode_docs(prepared.records), del |-> NoDeletions]),
     next_id |-> done.next_id + Len(prepared.records),
     docs |-> done.docs \o prepared.docs]

\* commit_merges, nothing having happened since prepare_merge.
commit_merges(plan) ==
    LET kept == Ascending(DOMAIN segs \ UNION {ToSet(plan[k]) : k \in DOMAIN plan})
    IN  Reduce(LAMBDA done, group : commit_one(done, prepare_merge(group)),
               [segs |-> [n \in DOMAIN kept |-> segs[kept[n]]],
                next_id |-> id_bound, docs |-> <<>>],
               plan)

PutInForce(done) ==
    /\ done.next_id <= MaxId
    /\ segs' = done.segs
    /\ GiveIds(id_bound, done.docs)

Merge ==
    /\ Committed
    /\ plan_merges # <<>>
    /\ PutInForce(commit_merges(plan_merges))
    /\ UNCHANGED <<acc, text_of, removed>>

IndexNext ==
    \/ \E n \in 1 .. shard_size : \E texts \in [1 .. n -> Text \cup {NoText}] : Shard(texts)
    \/ Finish
    \/ \E i \in DOMAIN segs : \E local \in 0 .. num_docs(segs[i]) - 1 : Delete(i, local)
    \/ Merge

-----------------------------------------------------------------------------
(* What the queries should find (Matches: QueryNode), and how often.  The   *)
(* invariants here are checked by Search.                                   *)

\* The atoms of a text, without the terms that are too long to be written.
TermsWritten(text) ==
    LET all == tokenize(text)
    IN  [n \in DOMAIN all |-> SelectSeq(all[n], LAMBDA t : Len(t) <= MAX_TERM_BYTES)]

Written == Table([text \in Text |-> TermsWritten(text)])

NodeOf == Table([input \in Query |-> parse(input).node])

\* The occurrences a match is scored by, in the atoms of a text.
RECURSIVE Occurrences(_, _)
Occurrences(node, all) ==
    LET Sum(nodes) == Reduce(LAMBDA s, n : s + Occurrences(n, all), 0, nodes)
    IN  IF ~Matches(node, all) THEN 0
        ELSE CASE node.kind = "Term" -> Cardinality(Found(<<node.t>>, all))
               [] node.kind = "Phrase" -> Cardinality(Found(node.ts, all))
               [] node.kind = "Or" -> Sum(node.children)
               [] node.kind = "And" -> Sum(node.must)

\* The documents there are: flushed, and not deleted.
Live ==
    {d \in DOMAIN text_of \ removed :
        \A id \in DOMAIN doc_at : doc_at[id] = d => id < id_bound}

\* Those that are to be found.
Searchable == {d \in Live : text_of[d] # NoText}

AreExact(hits, node, matching) ==
    /\ Ascends([n \in DOMAIN hits |-> hits[n].doc])
    /\ Len(hits) = Cardinality(matching)
    /\ {<<doc_at[h.doc], h.score>> : h \in ToSet(hits)} =
           {<<d, Occurrences(node, Written[text_of[d]])>> : d \in matching}

(* A query over the segments finds exactly the documents that match it and  *)
(* are indexed and not deleted, each once, in the order of their ids, and   *)
(* counts in each the occurrences its text has: however the documents came  *)
(* to be spread over shards, segments and merges, and although cursors skip *)
(* through encoded lists that still name deleted docs (exec.rs, evaluate).  *)
HitsAreExact ==
    \A input \in Query :
        LET node == NodeOf[input]
        IN  AreExact(evaluate(segs, node), node,
                     {d \in Searchable : Matches(node, Written[text_of[d]])})

-----------------------------------------------------------------------------
\* Terms in the texts, and those of the queries.
Terms == UNION {ToSet(atom) : atom \in UNION {ToSet(tokenize(text)) : text \in Text}}
            \cup UNION {query_terms(NodeOf[input]) : input \in Query}

\* Where each text has a term.
PlacesOf == Table([text \in Text |->
                Table([t \in Terms |-> {n - 1 : n \in Found(<<t>>, Written[text])}])])

\* The postings a segment should have for a term, those of deleted docs included.
ListOfPlaces(places) ==
    LET with == Ascending({l \in DOMAIN places : places[l] # {}})
    IN  [k \in DOMAIN with |-> [doc |-> with[k], positions |-> Ascending(places[with[k]])]]

PostingsOf(seg, t) ==
    ListOfPlaces([local \in 0 .. num_docs(seg) - 1 |->
        LET text == text_of[doc_at[seg.base + local]]
        IN  IF text = NoText THEN {} ELSE PlacesOf[text][t]])

\* The cursor of an encoded list after i steps.
RECURSIVE CursorAt(_, _)
CursorAt(data, i) == IF i = 0 THEN NewCursor(data) ELSE Advance(data, CursorAt(data, i - 1))

\* Both cursors are at index i of the list.
BothAt(list, i, idx, data, c) ==
    /\ idx = i
    /\ IF i = Len(list) THEN Done(c)
       ELSE /\ c.cur.doc = list[i + 1].doc
            /\ c.cur.tf = Len(list[i + 1].positions)
            /\ Positions(data, c) = list[i + 1].positions

\* From every place, advancing or seeking, the cursor in memory and the one
\* on disk come to the first posting from there on that will do.
CursorsAgree(list, data) ==
    \A i \in 0 .. Len(list) :
        LET c == CursorAt(data, i)
            First(target) == i + Len(SelectSeq(SubSeq(list, i + 1, Len(list)),
                                               LAMBDA p : p.doc < target))
        IN  /\ BothAt(list, i, i, data, c)
            /\ \A target \in 0 .. docs_per_segment + 1 :
                  BothAt(list, First(target), MemSeek(list, i, target),
                         data, Seek(data, c, target))

\* What the dictionary leads to, data, is the list.
ListReadsBack(list, data) ==
    IF list = <<>> THEN data = Absent ELSE data # Absent /\ CursorsAgree(list, data)

\* The id that a document has, of those it was given.
IdOf(d) == Max({id \in DOMAIN doc_at : doc_at[id] = d})

\* Looked up by id, a document that was not deleted has its record, and no
\* other id has one.
DocsReadBack ==
    /\ \A d \in Live : DocWithId(segs, IdOf(d)) = RecordOf(PathOf(d), text_of[d])
    /\ Cardinality({id \in 0 .. id_bound : DocWithId(segs, id) # NoDoc}) = Cardinality(Live)

\* Whichever documents are renamed, their patches are written and read back so
\* that each has its new path, and the others their own.
PatchesReadBack ==
    \A renamed \in SUBSET Live :
        LET ids == Ascending({IdOf(d) : d \in renamed})
            NewPath(d) == PathOf(MaxDocs + d)
            file == encode_overlay([n \in DOMAIN ids |->
                        [doc_id |-> ids[n], path |-> NewPath(doc_at[ids[n]])]])
        IN  /\ OverlayVerifies(file)
            /\ \A d \in Live :
                  PatchedDoc(segs, PatchesOf(file), IdOf(d)).path =
                      IF d \in renamed THEN NewPath(d) ELSE PathOf(d)

\* The figures are right, but for deleted docs that were not indexed: they are
\* taken from the indexed ones.
CountsAgree ==
    LET stats == recompute_stats
        skipped == {<<i, local>> \in (DOMAIN segs) \X (0 .. docs_per_segment + shard_size) :
                       /\ is_deleted(segs[i].del, local)
                       /\ ~segs[i].doc.records[local + 1].indexed}
    IN  /\ stats.docs_total = Cardinality(Live)
        /\ skipped = {} => /\ stats.docs_indexed = Cardinality(Searchable)
                           /\ stats.docs_skipped = Cardinality(Live \ Searchable)

(* A segment reads back as what it was written from: its files pass the     *)
(* walk of verify, every id of a live document, and none of the gaps merges *)
(* leave, leads to its length and its path, or that of its patch, the       *)
(* dictionary finds each term's list and no other, and the cursor that      *)
(* decodes the list stops where the one over the memory index stops, with   *)
(* the same positions.  Nothing that is accumulated, over any shards, is a  *)
(* list the encoder refuses ("a bug upstream that must never reach disk",   *)
(* idx.rs; doc.rs, del.rs, overlay.rs, varint.rs, memory.rs).  And the      *)
(* counts are those of what is there (reader.rs).                           *)
FilesReadBack ==
    /\ \A t \in DOMAIN acc.store : Encodable(acc.store[t])
    /\ DocsReadBack
    /\ PatchesReadBack
    /\ CountsAgree
    /\ \A i \in DOMAIN segs :
          /\ Verifies(segs[i].idx) /\ DocsVerify(segs[i].doc) /\ DelVerifies(segs[i].del)
          /\ \A t \in Terms : ListReadsBack(PostingsOf(segs[i], t), lookup(segs[i].idx, t))

Burden == Len(segs) + NumDeleted
IsMerge == UNCHANGED <<acc, text_of, removed>>    \* the other steps change one of these

(* Every merge is worth its while: it leaves fewer segments, or fewer       *)
(* deleted docs in them.  So planning and merging again comes to an end,    *)
(* with nothing left to merge (merge.rs, plan_merges).                      *)
MergesShrink == [][IsMerge => Burden' < Burden]_index
=============================================================================
