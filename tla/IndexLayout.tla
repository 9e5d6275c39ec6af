----------------------------- MODULE IndexLayout -----------------------------
(***************************************************************************)
(* The directory <root>/.ripindex: which files it may hold, what a         *)
(* manifest says, which files a manifest references, and what a new        *)
(* transaction would write (src/store/mod.rs, src/format/manifest.rs).     *)
(*                                                                         *)
(* A file name is a triple <<kind, segment id, generation>>.  The bytes    *)
(* of a file are abstracted to the number of the transaction that wrote    *)
(* them (its stamp): the length and the checksum that a manifest records   *)
(* for a file are the stamp it expects to find there.                      *)
(***************************************************************************)
EXTENDS Integers, Sequences

CONSTANTS MaxSeg,   \* bound: segment ids are 0 .. MaxSeg - 1
          MaxGen,   \* bound: deletion and overlay generations are 1 .. MaxGen
          MaxTxn,   \* bound: number of transactions ever started
          MaxNew    \* bound: segments that one transaction flushes

ASSUME BoundsAssumption ==
    /\ MaxSeg \in Nat
    /\ MaxGen \in Nat
    /\ MaxTxn \in Nat
    /\ MaxNew \in Nat

SegId == 0 .. (MaxSeg - 1)
Generation == 1 .. MaxGen
Stamp == 1 .. MaxTxn

idx_name(s) == <<"idx", s, 0>>
doc_name(s) == <<"doc", s, 0>>
del_name(s, g) == <<"del", s, g>>
overlay_name(g) == <<"ovl", 0, g>>
MANIFEST == <<"manifest", 0, 0>>

\* Temporary files are only told apart by "is there one": every name that
\* ends in .tmp is swept alike and truncated by the next create.
TMP == <<"tmp", 0, 0>>

DataName == {idx_name(s) : s \in SegId} \cup {doc_name(s) : s \in SegId}
            \cup {del_name(s, g) : s \in SegId, g \in Generation}
            \cup {overlay_name(g) : g \in Generation}
Name == DataName \cup {MANIFEST, TMP}

-----------------------------------------------------------------------------
(* The manifest.  crc[n] is the stamp of the bytes this manifest expects   *)
(* in n, and 0 for a name it does not reference.                           *)
Manifest == [generation : Nat,
             next_segment_id : 0 .. MaxSeg,
             segments : SUBSET SegId,
             del_gen : [SegId -> 0 .. MaxGen],
             state_gen : 0 .. MaxGen,
             crc : [DataName -> 0 .. MaxTxn]]

\* Ids at or above next_segment_id have never been given out, so no file of
\* theirs is referenced.
WellFormed(m) ==
    /\ m \in Manifest
    /\ \A s \in m.segments : s < m.next_segment_id
    /\ \A s \in SegId : s >= m.next_segment_id => m.del_gen[s] = 0

\* What build_index starts from when there is no usable manifest.
NoManifest == [generation |-> 0,
               next_segment_id |-> 0,
               segments |-> {},
               del_gen |-> [s \in SegId |-> 0],
               state_gen |-> 0,
               crc |-> [n \in DataName |-> 0]]

segment_files(m, s) ==
    {idx_name(s), doc_name(s)}
        \cup (IF m.del_gen[s] > 0 THEN {del_name(s, m.del_gen[s])} ELSE {})

referenced_files(m) ==
    (UNION {segment_files(m, s) : s \in m.segments})
        \cup (IF m.state_gen > 0 THEN {overlay_name(m.state_gen)} ELSE {})

\* Everything that starts with seg- or state-, or ends in .tmp.
is_cleanable(n) == n \in DataName \cup {TMP}

-----------------------------------------------------------------------------
(* Transactions.  A transaction t on top of the manifest prev commits a new *)
(* manifest, writes the files in its writes and afterwards unlinks those in *)
(* its retires.                                                            *)
\* Mutant: ids start over with every build.
NewIdsFromZero(prev, k) == 0 .. (k - 1)

NewIds(prev, k) == prev.next_segment_id .. (prev.next_segment_id + k - 1)

\* The names flush_segment writes for the segments ids.
segment_writes(ids) == {idx_name(s) : s \in ids} \cup {doc_name(s) : s \in ids}

\* An entry describes the file it was last written for.
Checksums(prev, writes, t) ==
    [n \in DataName |-> IF n \in writes THEN t ELSE prev.crc[n]]

Transaction(m, writes, retires) == [manifest |-> m, writes |-> writes, retires |-> retires]

\* build_index: k fresh segments replace everything that was there.
Build(prev, k, t) ==
    LET writes == segment_writes(NewIds(prev, k))
    IN Transaction([generation |-> prev.generation + 1,
                    next_segment_id |-> prev.next_segment_id + k,
                    segments |-> NewIds(prev, k),
                    del_gen |-> [s \in SegId |-> 0],
                    state_gen |-> 0,
                    crc |-> Checksums(prev, writes, t)],
                   writes,
                   referenced_files(prev))

\* A new tombstone generation for every segment in dead; the generation it
\* replaces is retired.
tombstone_writes(prev, dead) == {del_name(s, prev.del_gen[s] + 1) : s \in dead}
\* Mutant: the generation that was just written is retired.
tombstone_retires_new(prev, dead) == {del_name(s, prev.del_gen[s] + 1) : s \in dead}

tombstone_retires(prev, dead) ==
    {del_name(s, prev.del_gen[s]) : s \in {d \in dead : prev.del_gen[d] > 0}}
Tombstoned(prev, dead) ==
    [s \in SegId |-> IF s \in dead THEN prev.del_gen[s] + 1 ELSE prev.del_gen[s]]

\* update_index: k fresh segments, tombstones, and an overlay that is written
\* anew (gen > 0) or dropped (gen = 0).
Update(prev, k, dead, gen, t) ==
    LET writes == segment_writes(NewIds(prev, k))
                    \cup tombstone_writes(prev, dead)
                    \cup (IF gen > 0 THEN {overlay_name(gen)} ELSE {})
    IN Transaction([generation |-> prev.generation + 1,
                    next_segment_id |-> prev.next_segment_id + k,
                    segments |-> prev.segments \cup NewIds(prev, k),
                    del_gen |-> Tombstoned(prev, dead),
                    state_gen |-> gen,
                    crc |-> Checksums(prev, writes, t)],
                   writes,
                   tombstone_retires(prev, dead)
                    \cup (IF prev.state_gen > 0 /\ prev.state_gen # gen
                          THEN {overlay_name(prev.state_gen)} ELSE {}))

\* The overlay generations an update may commit: the merged patch set is
\* empty only if there was none and none is new, or if deletions emptied it.
OverlayGens(prev, patched, dead) ==
    IF prev.state_gen = 0 /\ ~patched THEN {0}
    ELSE {prev.state_gen + 1} \cup (IF dead # {} THEN {0} ELSE {})

\* delete_docs: only tombstones; the overlay stays as it is.
Delete(prev, dead, t) ==
    Transaction([prev EXCEPT !.generation = @ + 1,
                             !.del_gen = Tombstoned(prev, dead),
                             !.crc = Checksums(prev, tombstone_writes(prev, dead), t)],
                tombstone_writes(prev, dead),
                tombstone_retires(prev, dead))

\* commit_merges, one group: a fresh segment replaces its sources; it starts
\* with tombstones when a source got new ones while the merge was prepared.
Merge(prev, sources, carry, t) ==
    LET id == prev.next_segment_id
        writes == segment_writes({id}) \cup (IF carry THEN {del_name(id, 1)} ELSE {})
    IN Transaction([prev EXCEPT !.generation = @ + 1,
                                !.next_segment_id = @ + 1,
                                !.segments = (@ \ sources) \cup {id},
                                !.del_gen = [@ EXCEPT ![id] = IF carry THEN 1 ELSE 0],
                                !.crc = Checksums(prev, writes, t)],
                   writes,
                   UNION {segment_files(prev, s) : s \in sources})

\* The order files are written in: each segment's .idx then its .doc, then the
\* tombstones segment by segment, then the overlay.
Rank(n) == CASE n[1] = "idx" -> 2 * n[2]
             [] n[1] = "doc" -> 2 * n[2] + 1
             [] n[1] = "del" -> 2 * MaxSeg + n[2]
             [] OTHER -> 3 * MaxSeg

=============================================================================
