---------------------------- MODULE SegmentFile ----------------------------
(***************************************************************************)
(* The files of an index (src/format/idx.rs, doc.rs, del.rs, overlay.rs,   *)
(* varint.rs): how posting lists, the term dictionary, the records of      *)
(* documents, the deletions and the patches are encoded, and how they are  *)
(* read back without decoding the whole file.                              *)
(*                                                                         *)
(* A file region is a sequence of bytes: numbers, most of them varints, or *)
(* characters.  Envelopes and checksums are left out, and so are the       *)
(* limits of u32 and u64.  Offsets start at 0 as in the code, sequences    *)
(* at 1.                                                                   *)
(***************************************************************************)
EXTENDS MemoryIndex

CONSTANTS BLOCK_SIZE,      \* terms in a block of the dictionary
          MAX_TERM_BYTES,  \* longer terms are not written
          VARINT_BASE,     \* what a byte of a varint is worth to the next (128)
          BYTE_BITS        \* bits of a byte of the deletion bitmap (8)

ASSUME FormatAssumption ==
    /\ {BLOCK_SIZE, BYTE_BITS} \subseteq Nat \ {0}
    /\ MAX_TERM_BYTES \in Nat
    /\ VARINT_BASE \in Nat \ {0, 1}

-----------------------------------------------------------------------------
(* Varints: the low digit first, a byte of VARINT_BASE or more if another   *)
(* follows.                                                                 *)

RECURSIVE put(_)
put(v) == IF v < VARINT_BASE THEN <<v>>
          ELSE <<VARINT_BASE + (v % VARINT_BASE)>> \o put(v \div VARINT_BASE)

Truncated == -1

\* The number at an offset and the offset behind it.
RECURSIVE read(_, _)
read(buf, pos) ==
    LET byte == buf[pos + 1]
        rest == read(buf, pos + 1)
    IN  IF pos >= Len(buf) THEN [v |-> Truncated, pos |-> pos]
        ELSE IF byte < VARINT_BASE THEN [v |-> byte, pos |-> pos + 1]
        ELSE IF rest.v = Truncated THEN rest
        ELSE [v |-> byte - VARINT_BASE + VARINT_BASE * rest.v, pos |-> rest.pos]

\* n numbers, one after the other.
RECURSIVE read_all(_, _, _)
read_all(buf, pos, n) ==
    LET first == read(buf, pos)
        rest == read_all(buf, first.pos, n - 1)
    IN  IF n = 0 THEN [vs |-> <<>>, pos |-> pos]
        ELSE [vs |-> <<first.v>> \o rest.vs, pos |-> rest.pos]

-----------------------------------------------------------------------------
(* Posting lists: doc_count, then for each doc its delta, tf, pos_bytes and *)
(* the deltas of the positions.                                             *)

Deltas(s) == [i \in DOMAIN s |-> IF i = 1 THEN s[1] ELSE s[i] - s[i - 1]]

Ascends(s) == \A i \in 1 .. Len(s) - 1 : s[i] < s[i + 1]

\* What encode_postings refuses to write.
Encodable(list) ==
    /\ Ascends([i \in DOMAIN list |-> list[i].doc])
    /\ \A i \in DOMAIN list : list[i].positions # <<>> /\ Ascends(list[i].positions)

\* base: the id of local doc 0 (Rebased).
encode_postings(list, base) ==
    LET delta == Deltas([i \in DOMAIN list |-> list[i].doc - base])
        scratch == [i \in DOMAIN list |->
                       LET ps == Deltas(list[i].positions)
                       IN  FlattenSeq([k \in DOMAIN ps |-> put(ps[k])])]
        Header(i) == put(delta[i]) \o put(Len(list[i].positions)) \o put(Len(scratch[i]))
    IN  put(Len(list)) \o FlattenSeq([i \in DOMAIN list |-> Header(i) \o scratch[i]])

-----------------------------------------------------------------------------
(* DiskCursor: the decoder of one encoded list, data.                       *)

Exhausted == [doc |-> -1, tf |-> 0, pos_start |-> 0, pos_end |-> 0]

fail(c) == [c EXCEPT !.cur = Exhausted, !.remaining = 0, !.error = TRUE]

\* The header at the cursor, numbers of which are read; corrupt if one or the
\* positions are missing, or the ids do not ascend.
HeaderOf(data, c, numbers) ==
    LET delta == numbers.vs[1]
        tf == numbers.vs[2]
        pos_bytes == numbers.vs[3]
    IN  [cur |-> [doc |-> IF c.cur = Exhausted THEN delta ELSE c.cur.doc + delta,
                  tf |-> tf,
                  pos_start |-> numbers.pos,
                  pos_end |-> numbers.pos + pos_bytes],
         corrupt |-> \/ Truncated \in {delta, tf, pos_bytes}
                     \/ c.cur # Exhausted /\ delta = 0
                     \/ tf = 0
                     \/ numbers.pos + pos_bytes > Len(data)]

decode_header(data, c) == HeaderOf(data, c, read_all(data, c.pos, 3))

Loaded(c, header) ==
    IF header.corrupt THEN fail(c)
    ELSE [c EXCEPT !.cur = header.cur, !.pos = header.cur.pos_end, !.remaining = @ - 1]

load_next(data, c) ==
    IF c.remaining = 0 THEN [c EXCEPT !.cur = Exhausted] ELSE Loaded(c, decode_header(data, c))

NewCursor(data) ==
    LET count == read(data, 0)
    IN  load_next(data, [pos |-> count.pos, remaining |-> count.v, cur |-> Exhausted,
                         error |-> FALSE])

Done(c) == c.cur = Exhausted

Advance(data, c) == IF Done(c) THEN c ELSE load_next(data, c)

RECURSIVE Seek(_, _, _)
Seek(data, c, target) ==
    IF Done(c) \/ c.cur.doc >= target THEN c ELSE Seek(data, load_next(data, c), target)

\* decode_positions: running sums of the deltas; corrupt unless they end where
\* the header says.
decode_positions(data, c) ==
    LET deltas == read_all(SubSeq(data, 1, c.cur.pos_end), c.cur.pos_start, c.cur.tf)
    IN  [positions |-> [i \in DOMAIN deltas.vs |-> Reduce(+, 0, SubSeq(deltas.vs, 1, i))],
         corrupt |-> \/ Truncated \in ToSet(deltas.vs)
                     \/ \E i \in DOMAIN deltas.vs : i > 1 /\ deltas.vs[i] = 0
                     \/ deltas.pos # c.cur.pos_end]

Positions(data, c) == decode_positions(data, c).positions

\* DiskPostingList::verify, from the cursor c on.
RECURSIVE RestVerifies(_, _)
RestVerifies(data, c) ==
    IF Done(c) THEN ~c.error /\ c.pos = Len(data)
    ELSE ~decode_positions(data, c).corrupt /\ RestVerifies(data, Advance(data, c))

ListVerifies(data, doc_freq) == read(data, 0).v = doc_freq /\ RestVerifies(data, NewCursor(data))

-----------------------------------------------------------------------------
(* The term dictionary: blocks of entries, each written as the length of    *)
(* the prefix it shares with the term before it, the rest of the term, its  *)
(* doc_freq and the length of its list; and the sparse index of the first   *)
(* term of each block.                                                      *)

common_prefix(s, t) ==
    Max({n \in 0 .. Len(s) : n <= Len(t) /\ SubSeq(s, 1, n) = SubSeq(t, 1, n)})

\* The order of the characters that terms are made of.
Order == <<"1", "_", "a", "d", "n", "o", "r", "mark">>
Code(c) == CHOOSE i \in DOMAIN Order : Order[i] = c

TermLess(s, t) ==
    LET n == common_prefix(s, t)
    IN  n < Len(t) /\ (n = Len(s) \/ Code(s[n + 1]) < Code(t[n + 1]))

EmptyIdx == [postings |-> <<>>, dict |-> <<>>, sparse |-> <<>>,
             num_terms |-> 0, num_postings |-> 0, num_tokens |-> 0]

Tokens(list) == Reduce(LAMBDA n, p : n + Len(p.positions), 0, list)

\* One turn of write's loop.  file.prev is the term written before.
write_term(file, t, list, base) ==
    LET opens_block == file.num_terms % BLOCK_SIZE = 0
        prefix == IF opens_block THEN 0 ELSE common_prefix(file.prev, t)
        data == encode_postings(list, base)
        entry == put(prefix) \o put(Len(t) - prefix) \o SubSeq(t, prefix + 1, Len(t))
                    \o put(Len(list)) \o put(Len(data))
        first == [term |-> t, block_off |-> Len(file.dict),
                  postings_off |-> Len(file.postings)]
    IN  [postings |-> file.postings \o data,
         dict |-> file.dict \o entry,
         sparse |-> IF opens_block THEN Append(file.sparse, first) ELSE file.sparse,
         num_terms |-> file.num_terms + 1,
         num_postings |-> file.num_postings + Len(list),
         num_tokens |-> file.num_tokens + Tokens(list),
         prev |-> t]

\* write: the terms of the store in order, those too long left out.
write_idx(store, base) ==
    LET written == {t \in DOMAIN store : Len(t) <= MAX_TERM_BYTES}
        file == Reduce(LAMBDA f, t : write_term(f, t, store[t], base),
                           EmptyIdx @@ [prev |-> <<>>],
                           [n \in 1 .. Cardinality(written) |->
                             CHOOSE t \in written :
                                 Cardinality({u \in written : TermLess(u, t)}) = n - 1])
    IN  [field \in DOMAIN EmptyIdx |-> file[field]]

num_blocks(file) == Len(file.sparse)

\* BlockScan: where a scan of block b (from 0) starts.
block(file, b) ==
    [pos |-> file.sparse[b + 1].block_off,
     remaining |-> IF file.num_terms - b * BLOCK_SIZE < BLOCK_SIZE
                   THEN file.num_terms - b * BLOCK_SIZE ELSE BLOCK_SIZE,
     term |-> <<>>,
     postings_pos |-> file.sparse[b + 1].postings_off]

\* next_entry: the entry at the scan's position, and the scan behind it.
EntryOf(scan, prefix, suffix, counts) ==
    LET t == SubSeq(scan.term, 1, prefix) \o suffix
    IN  [term |-> t, doc_freq |-> counts.vs[1],
         postings_off |-> scan.postings_pos, postings_len |-> counts.vs[2],
         scan |-> [pos |-> counts.pos, remaining |-> scan.remaining - 1, term |-> t,
                   postings_pos |-> scan.postings_pos + counts.vs[2]]]

EntryAt(file, scan, lens) ==
    LET behind == lens.pos + lens.vs[2]
    IN  EntryOf(scan, lens.vs[1], SubSeq(file.dict, lens.pos + 1, behind),
                read_all(file.dict, behind, 2))

next_entry(file, scan) == EntryAt(file, scan, read_all(file.dict, scan.pos, 2))

\* The entries of the rest of a block, in order: e and those behind it.
RECURSIVE Entries(_, _)
From(file, e) == <<e>> \o Entries(file, e.scan)
Entries(file, scan) ==
    IF scan.remaining = 0 THEN <<>> ELSE From(file, next_entry(file, scan))

Blocks(file) == [b \in 1 .. num_blocks(file) |-> Entries(file, block(file, b - 1))]

\* TermIter: the entries of every block.
terms(file) == FlattenSeq(Blocks(file))

postings_at(file, e) == SubSeq(file.postings, e.postings_off + 1, e.postings_off + e.postings_len)

-----------------------------------------------------------------------------
(* Lookup: a binary search of the sparse index for the first block whose    *)
(* first term is greater, then a scan of the block before it.               *)

\* Mutant: the search is for the first block whose first term is not less.
RECURSIVE FirstNotLess(_, _, _, _)
FirstNotLess(file, target, lo, hi) ==
    LET mid == lo + ((hi - lo) \div 2)
    IN  IF lo >= hi THEN lo
        ELSE IF ~TermLess(file.sparse[mid + 1].term, target)
        THEN FirstNotLess(file, target, lo, mid)
        ELSE FirstNotLess(file, target, mid + 1, hi)

RECURSIVE FirstGreater(_, _, _, _)
FirstGreater(file, target, lo, hi) ==
    LET mid == lo + ((hi - lo) \div 2)
    IN  IF lo >= hi THEN lo
        ELSE IF TermLess(target, file.sparse[mid + 1].term)
        THEN FirstGreater(file, target, lo, mid)
        ELSE FirstGreater(file, target, mid + 1, hi)

Absent == <<>>

\* The encoded list of a term, or Absent (a list is never empty: it has its count).
FirstList(file, found) == IF found = <<>> THEN Absent ELSE postings_at(file, found[1])

lookup(file, target) ==
    LET b == FirstGreater(file, target, 0, num_blocks(file))
    IN  IF b = 0 THEN Absent
        ELSE FirstList(file, SelectSeq(Entries(file, block(file, b - 1)),
                                       LAMBDA e : e.term = target))

\* IdxView::parse and verify: blocks and lists tile their regions, terms ascend.
\* blocks: the entries of each.
Tiled(file, blocks) ==
    LET Behind(b) == blocks[b][Len(blocks[b])].scan
        all == FlattenSeq(blocks)
    IN  /\ num_blocks(file) = (file.num_terms + BLOCK_SIZE - 1) \div BLOCK_SIZE
        /\ Len(all) = file.num_terms
        /\ \A b \in DOMAIN blocks :
              /\ blocks[b][1].term = file.sparse[b].term
              /\ b > 1 => /\ file.sparse[b].block_off = Behind(b - 1).pos
                          /\ file.sparse[b].postings_off = Behind(b - 1).postings_pos
        /\ \A i \in 1 .. Len(all) - 1 : TermLess(all[i].term, all[i + 1].term)
        /\ \A i \in DOMAIN all : ListVerifies(postings_at(file, all[i]), all[i].doc_freq)
        /\ Len(file.postings) = IF all = <<>> THEN 0 ELSE all[Len(all)].scan.postings_pos

Verifies(file) == Tiled(file, Blocks(file))

-----------------------------------------------------------------------------
(* `.doc`: fixed records, the heap of the paths they point into, and two    *)
(* counters.  A document is a record of its path, whether it is indexed,    *)
(* and its length.                                                          *)

encode_doc(file, d) ==
    [records |-> Append(file.records, [indexed |-> d.indexed, len |-> d.len,
                                       path_off |-> Len(file.paths), path_len |-> Len(d.path)]),
     paths |-> file.paths \o d.path,
     num_indexed |-> file.num_indexed + IF d.indexed THEN 1 ELSE 0,
     total_len |-> file.total_len + IF d.indexed THEN d.len ELSE 0]

encode_docs(docs) ==
    Reduce(encode_doc, [records |-> <<>>, paths |-> <<>>, num_indexed |-> 0, total_len |-> 0],
           docs)

path(file, local) ==
    LET r == file.records[local + 1]
    IN  SubSeq(file.paths, r.path_off + 1, r.path_off + r.path_len)

\* A document as it is read back.
DocOf(file, local) ==
    [path |-> path(file, local), indexed |-> file.records[local + 1].indexed,
     len |-> file.records[local + 1].len]

\* DocTableView::verify
DocsVerify(file) ==
    LET indexed == SelectSeq(file.records, LAMBDA r : r.indexed)
    IN  /\ \A i \in DOMAIN file.records :
              LET r == file.records[i]
              IN  /\ r.indexed \/ r.len = 0
                  /\ r.path_off + r.path_len <= Len(file.paths)
        /\ Len(indexed) = file.num_indexed
        /\ Reduce(LAMBDA n, r : n + r.len, 0, indexed) = file.total_len

-----------------------------------------------------------------------------
(* `.del`: a bitmap of the deleted local ids.                               *)

NoDeletions == [num_docs |-> 0, bits |-> <<>>]    \* there is no such file

NewBitmap(num_docs) ==
    [num_docs |-> num_docs,
     bits |-> [i \in 1 .. (num_docs + BYTE_BITS - 1) \div BYTE_BITS |-> 0]]

is_deleted(del, i) ==
    i < del.num_docs /\ (del.bits[i \div BYTE_BITS + 1] \div 2 ^ (i % BYTE_BITS)) % 2 = 1

set_bit(del, i) ==
    IF i >= del.num_docs \/ is_deleted(del, i) THEN del
    ELSE [del EXCEPT !.bits[i \div BYTE_BITS + 1] = @ + 2 ^ (i % BYTE_BITS)]

ones(byte) == Cardinality({i \in 0 .. BYTE_BITS - 1 : (byte \div 2 ^ i) % 2 = 1})

count(del) == Reduce(LAMBDA n, byte : n + ones(byte), 0, del.bits)

\* DelView::parse_verified, but for the count that is compared.
DelVerifies(del) ==
    /\ Len(del.bits) = (del.num_docs + BYTE_BITS - 1) \div BYTE_BITS
    /\ \/ del.num_docs % BYTE_BITS = 0
       \/ Last(del.bits) \div 2 ^ (del.num_docs % BYTE_BITS) = 0

-----------------------------------------------------------------------------
(* `.ovl`: patches of documents by id, fixed records and the heap of their  *)
(* paths.  The inode, mtime and size of a patch are left out here.          *)

encode_patch(file, p) ==
    [records |-> Append(file.records, [doc_id |-> p.doc_id, path_off |-> Len(file.paths),
                                       path_len |-> Len(p.path)]),
     paths |-> file.paths \o p.path]

\* patches: ascending by id.
encode_overlay(patches) == Reduce(encode_patch, [records |-> <<>>, paths |-> <<>>], patches)

PatchVerifies(file, i) ==
    LET r == file.records[i]
    IN  /\ i > 1 => file.records[i - 1].doc_id < r.doc_id
        /\ r.path_off + r.path_len <= Len(file.paths)

\* OverlayView::parse_verified
OverlayVerifies(file) == \A i \in DOMAIN file.records : PatchVerifies(file, i)

path_of(file, r) == SubSeq(file.paths, r.path_off + 1, r.path_off + r.path_len)

\* The patches as they are read back.
PatchesOf(file) ==
    [i \in DOMAIN file.records |->
        [doc_id |-> file.records[i].doc_id, path |-> path_of(file, file.records[i])]]
=============================================================================
