-------------------------- MODULE IndexLayoutProofs --------------------------
(***************************************************************************)
(* What the operators of IndexLayout return, for every number of segments, *)
(* generations and transactions: the names a manifest references, and that *)
(* each operation on an index is a safe transaction.                       *)
(***************************************************************************)
EXTENDS IndexLayout, TLAPS

-----------------------------------------------------------------------------
(* The names of the layout: data files are neither MANIFEST nor TMP.       *)
LEMMA DataNames ==
    /\ DataName \subseteq Name
    /\ MANIFEST \in Name /\ TMP \in Name /\ MANIFEST # TMP
    /\ MANIFEST \notin DataName /\ TMP \notin DataName
BY DEF DataName, Name, MANIFEST, TMP, idx_name, doc_name, del_name, overlay_name

\* What it is to be referenced, file by file.
LEMMA Referenced ==
    ASSUME NEW m, NEW n
    PROVE  n \in referenced_files(m) <=>
             \/ \E s \in m.segments : \/ n = idx_name(s) \/ n = doc_name(s)
                                      \/ m.del_gen[s] > 0 /\ n = del_name(s, m.del_gen[s])
             \/ m.state_gen > 0 /\ n = overlay_name(m.state_gen)
BY DEF referenced_files, segment_files

\* A manifest references data files only.
LEMMA ReferencedTyping ==
    ASSUME NEW m \in Manifest
    PROVE  referenced_files(m) \subseteq DataName
<1> SUFFICES ASSUME NEW n \in referenced_files(m)
             PROVE  n \in DataName
  OBVIOUS
<1>1. /\ m.segments \subseteq SegId
      /\ \A s \in SegId : m.del_gen[s] \in 0 .. MaxGen
      /\ m.state_gen \in 0 .. MaxGen
  BY DEF Manifest
<1>2. \A g \in 0 .. MaxGen : g > 0 => g \in Generation
  BY BoundsAssumption DEF Generation
<1> QED
  BY <1>1, <1>2, Referenced DEF DataName

\* Having no manifest is a well-formed manifest that references nothing.
LEMMA NoManifestFacts ==
    /\ WellFormed(NoManifest)
    /\ referenced_files(NoManifest) = {}
BY BoundsAssumption DEF WellFormed, NoManifest, Manifest, referenced_files, SegId

\* What a transaction tr on top of prev must do for the commit protocol to be
\* safe: it writes only names prev does not reference, unlinks only names the
\* new manifest does not reference, and every file of the new manifest is
\* either one it writes or one it inherits unchanged.
SafeTransaction(prev, tr, t) ==
    /\ WellFormed(tr.manifest)
    /\ tr.writes \subseteq DataName
    /\ tr.retires \subseteq DataName
    /\ tr.writes \cap referenced_files(prev) = {}
    /\ tr.retires \cap referenced_files(tr.manifest) = {}
    /\ \A n \in tr.writes : tr.manifest.crc[n] = t
    /\ \A n \in referenced_files(tr.manifest) \ tr.writes :
          n \in referenced_files(prev) /\ tr.manifest.crc[n] = prev.crc[n]

\* build_index never reuses an id of the index it replaces.
LEMMA BuildIsSafe ==
    ASSUME NEW prev, WellFormed(prev), NEW t \in Stamp, NEW k \in Nat,
           prev.next_segment_id + k <= MaxSeg
    PROVE  SafeTransaction(prev, Build(prev, k, t), t)
<1> DEFINE tr == Build(prev, k, t)
           ids == NewIds(prev, k)
<1>1. /\ ids \subseteq SegId
      /\ \A s \in ids : s >= prev.next_segment_id /\ s < prev.next_segment_id + k
      /\ prev.segments \cap ids = {}
  BY BoundsAssumption DEF NewIds, SegId, WellFormed, Manifest
<1>2. /\ tr.writes = segment_writes(ids)
      /\ tr.retires = referenced_files(prev)
      /\ tr.manifest.segments = ids
      /\ tr.manifest.state_gen = 0
      /\ tr.manifest.del_gen = [s \in SegId |-> 0]
      /\ tr.manifest.crc = Checksums(prev, segment_writes(ids), t)
      /\ tr.manifest.next_segment_id = prev.next_segment_id + k
  BY DEF Build, Transaction
<1>3. segment_writes(ids) \subseteq DataName
  BY <1>1 DEF segment_writes, DataName
<1>4. segment_writes(ids) \cap referenced_files(prev) = {}
  BY <1>1, Referenced DEF segment_writes, idx_name, doc_name, del_name, overlay_name
<1>5. referenced_files(tr.manifest) = segment_writes(ids)
  BY <1>1, <1>2 DEF referenced_files, segment_files, segment_writes
<1>6. WellFormed(tr.manifest)
  <2>1. Checksums(prev, segment_writes(ids), t) \in [DataName -> 0 .. MaxTxn]
    BY BoundsAssumption DEF Checksums, WellFormed, Manifest, Stamp
  <2>2. tr.manifest \in Manifest
    BY <1>1, <1>2, <2>1, BoundsAssumption DEF Build, Transaction, Manifest, WellFormed
  <2> QED
    BY <1>1, <1>2, <2>2, BoundsAssumption DEF WellFormed, Manifest
<1>7. \A n \in segment_writes(ids) : tr.manifest.crc[n] = t
  BY <1>2, <1>3 DEF Checksums
<1> HIDE DEF tr, ids
<1> QED
  BY <1>2, <1>3, <1>4, <1>5, <1>6, <1>7, ReferencedTyping DEF SafeTransaction, tr, WellFormed

\* update_index: fresh ids, a tombstone generation one above the one in force,
\* an overlay generation other than the one in force.
LEMMA UpdateIsSafe ==
    ASSUME NEW prev, WellFormed(prev), NEW t \in Stamp, NEW k \in Nat,
           prev.next_segment_id + k <= MaxSeg,
           NEW dead \in SUBSET prev.segments,
           \A s \in dead : prev.del_gen[s] < MaxGen,
           NEW gen \in 0 .. MaxGen, gen = 0 \/ gen # prev.state_gen
    PROVE  SafeTransaction(prev, Update(prev, k, dead, gen, t), t)
<1> DEFINE tr == Update(prev, k, dead, gen, t)
           m == tr.manifest
           ids == NewIds(prev, k)
           overlay == IF gen > 0 THEN {overlay_name(gen)} ELSE {}
<1>1. /\ ids \subseteq SegId
      /\ \A s \in ids : s >= prev.next_segment_id /\ s < prev.next_segment_id + k
      /\ prev.segments \cap ids = {}
      /\ prev.segments \subseteq SegId
      /\ \A s \in ids : prev.del_gen[s] = 0 /\ s \notin dead
  BY BoundsAssumption DEF NewIds, SegId, WellFormed, Manifest
<1>2. /\ tr.writes = segment_writes(ids) \cup tombstone_writes(prev, dead) \cup overlay
      /\ tr.retires = tombstone_retires(prev, dead)
                        \cup (IF prev.state_gen > 0 /\ prev.state_gen # gen
                              THEN {overlay_name(prev.state_gen)} ELSE {})
      /\ m.segments = prev.segments \cup ids
      /\ m.state_gen = gen
      /\ m.del_gen = Tombstoned(prev, dead)
      /\ m.crc = Checksums(prev, tr.writes, t)
      /\ m.next_segment_id = prev.next_segment_id + k
      /\ m.generation = prev.generation + 1
  BY DEF Update, Transaction
<1>3. /\ \A s \in SegId : prev.del_gen[s] \in 0 .. MaxGen
      /\ \A s \in dead : prev.del_gen[s] + 1 \in Generation
      /\ \A s \in SegId : m.del_gen[s] = IF s \in dead THEN prev.del_gen[s] + 1
                                         ELSE prev.del_gen[s]
      /\ m.del_gen \in [SegId -> 0 .. MaxGen]
      /\ \A g \in 0 .. MaxGen : g > 0 => g \in Generation
  BY <1>1, <1>2, BoundsAssumption DEF WellFormed, Manifest, Tombstoned, Generation
<1>4. tr.writes \subseteq DataName
  BY <1>1, <1>2, <1>3 DEF segment_writes, tombstone_writes, DataName
<1>5. tr.retires \subseteq DataName
  BY <1>1, <1>2, <1>3 DEF tombstone_retires, DataName, WellFormed, Manifest
<1>6. WellFormed(m)
  <2>1. m.crc \in [DataName -> 0 .. MaxTxn]
    BY <1>2, BoundsAssumption DEF Checksums, WellFormed, Manifest, Stamp
  <2>2. /\ m.generation \in Nat
        /\ m.next_segment_id \in 0 .. MaxSeg
        /\ m.segments \in SUBSET SegId
        /\ m.state_gen \in 0 .. MaxGen
    BY <1>1, <1>2, BoundsAssumption DEF Manifest, WellFormed
  <2>3. m \in Manifest
    BY <1>3, <2>1, <2>2 DEF Update, Transaction, Manifest
  <2> HIDE DEF m, ids
  <2>4. \A s \in m.segments : s < m.next_segment_id
    <3>1. /\ prev.next_segment_id \in Nat
          /\ \A s \in prev.segments : s \in Nat /\ s < prev.next_segment_id
      BY <1>1, BoundsAssumption DEF WellFormed, Manifest, SegId
    <3>2. \A s \in ids : s \in Nat
      BY <1>1, BoundsAssumption DEF SegId
    <3> QED
      BY <1>1, <1>2, <3>1, <3>2
  <2>5. \A s \in SegId : s >= m.next_segment_id => m.del_gen[s] = 0
    <3> SUFFICES ASSUME NEW s \in SegId, s >= m.next_segment_id
                 PROVE  m.del_gen[s] = 0
      OBVIOUS
    <3>1. s >= prev.next_segment_id
      <4>1. prev.next_segment_id \in Nat /\ s \in Nat
        BY BoundsAssumption DEF SegId, Manifest, WellFormed
      <4> QED
        BY <1>2, <4>1
    <3>2. s \notin dead /\ prev.del_gen[s] = 0
      BY <3>1, <1>1, BoundsAssumption DEF WellFormed, Manifest, SegId
    <3> QED
      BY <1>3, <3>2
  <2> QED
    BY <2>3, <2>4, <2>5 DEF WellFormed
<1> HIDE DEF tr, m, ids
<1>7. tr.writes \cap referenced_files(prev) = {}
  BY <1>1, <1>2, <1>3, Referenced
  DEF segment_writes, tombstone_writes, idx_name, doc_name, del_name, overlay_name
<1>8. tr.retires \cap referenced_files(m) = {}
  BY <1>1, <1>2, <1>3, Referenced
  DEF tombstone_retires, idx_name, doc_name, del_name, overlay_name
<1>9. \A n \in tr.writes : m.crc[n] = t
  BY <1>2, <1>4 DEF Checksums
<1>10. \A n \in referenced_files(m) \ tr.writes :
          n \in referenced_files(prev) /\ m.crc[n] = prev.crc[n]
  <2> SUFFICES ASSUME NEW n \in referenced_files(m) \ tr.writes
               PROVE  n \in referenced_files(prev) /\ m.crc[n] = prev.crc[n]
    OBVIOUS
  <2>1. n \in DataName
    BY <1>6, ReferencedTyping DEF WellFormed
  <2>2. m.crc[n] = prev.crc[n]
    BY <1>2, <2>1 DEF Checksums
  <2>3. n \in referenced_files(prev)
    BY <1>1, <1>2, <1>3, Referenced DEF segment_writes, tombstone_writes
  <2> QED  BY <2>2, <2>3
<1> QED
  BY <1>4, <1>5, <1>6, <1>7, <1>8, <1>9, <1>10 DEF SafeTransaction, tr, m

\* delete_docs: the tombstones of an update and nothing else.
LEMMA DeleteIsSafe ==
    ASSUME NEW prev, WellFormed(prev), NEW t \in Stamp,
           NEW dead \in SUBSET prev.segments,
           \A s \in dead : prev.del_gen[s] < MaxGen
    PROVE  SafeTransaction(prev, Delete(prev, dead, t), t)
<1> DEFINE tr == Delete(prev, dead, t)
           m == tr.manifest
<1>1. /\ prev \in Manifest
      /\ prev.segments \subseteq SegId
      /\ \A s \in SegId : prev.del_gen[s] \in 0 .. MaxGen
  BY DEF WellFormed, Manifest
<1>2. /\ tr.writes = tombstone_writes(prev, dead)
      /\ tr.retires = tombstone_retires(prev, dead)
      /\ m.segments = prev.segments
      /\ m.state_gen = prev.state_gen
      /\ m.del_gen = Tombstoned(prev, dead)
      /\ m.crc = Checksums(prev, tr.writes, t)
      /\ m.next_segment_id = prev.next_segment_id
      /\ m.generation = prev.generation + 1
  BY <1>1 DEF Delete, Transaction, Manifest
<1>3. /\ \A s \in dead : prev.del_gen[s] + 1 \in Generation
      /\ \A s \in dead : prev.del_gen[s] > 0 => prev.del_gen[s] \in Generation
      /\ \A s \in SegId : m.del_gen[s] = IF s \in dead THEN prev.del_gen[s] + 1
                                         ELSE prev.del_gen[s]
      /\ m.del_gen \in [SegId -> 0 .. MaxGen]
  BY <1>1, <1>2, BoundsAssumption DEF Tombstoned, Generation
<1>4. /\ tr.writes \subseteq DataName
      /\ tr.retires \subseteq DataName
  BY <1>1, <1>2, <1>3 DEF tombstone_writes, tombstone_retires, DataName
<1>5. WellFormed(m)
  <2>1. m.crc \in [DataName -> 0 .. MaxTxn]
    BY <1>1, <1>2, BoundsAssumption DEF Checksums, Manifest, Stamp
  <2>2. m \in Manifest
    BY <1>1, <1>2, <1>3, <2>1 DEF Delete, Transaction, Manifest
  <2> HIDE DEF m
  <2>3. \A s \in m.segments : s < m.next_segment_id
    BY <1>2 DEF WellFormed
  <2>4. \A s \in SegId : s >= m.next_segment_id => m.del_gen[s] = 0
    <3>1. prev.next_segment_id \in Nat /\ \A s \in SegId : s \in Nat
      BY <1>1, BoundsAssumption DEF Manifest, SegId
    <3>2. \A s \in dead : s \in SegId /\ s < prev.next_segment_id
      BY <1>1 DEF WellFormed
    <3>3. \A s \in SegId : s >= prev.next_segment_id => s \notin dead /\ prev.del_gen[s] = 0
      BY <3>1, <3>2 DEF WellFormed
    <3> QED
      BY <1>2, <1>3, <3>3
  <2> QED
    BY <2>2, <2>3, <2>4 DEF WellFormed
<1> HIDE DEF tr, m
<1>6. tr.writes \cap referenced_files(prev) = {}
  BY <1>1, <1>2, <1>3, Referenced
  DEF tombstone_writes, idx_name, doc_name, del_name, overlay_name
<1>7. tr.retires \cap referenced_files(m) = {}
  BY <1>1, <1>2, <1>3, Referenced
  DEF tombstone_retires, idx_name, doc_name, del_name, overlay_name
<1>8. \A n \in tr.writes : m.crc[n] = t
  BY <1>2, <1>4 DEF Checksums
<1>9. \A n \in referenced_files(m) \ tr.writes :
          n \in referenced_files(prev) /\ m.crc[n] = prev.crc[n]
  <2> SUFFICES ASSUME NEW n \in referenced_files(m) \ tr.writes
               PROVE  n \in referenced_files(prev) /\ m.crc[n] = prev.crc[n]
    OBVIOUS
  <2>1. n \in DataName
    BY <1>5, ReferencedTyping DEF WellFormed
  <2>2. m.crc[n] = prev.crc[n]
    BY <1>2, <2>1 DEF Checksums
  <2>3. n \in referenced_files(prev)
    BY <1>1, <1>2, <1>3, Referenced DEF tombstone_writes
  <2> QED  BY <2>2, <2>3
<1> QED
  BY <1>4, <1>5, <1>6, <1>7, <1>8, <1>9 DEF SafeTransaction, tr, m

\* commit_merges: a fresh id, and the files of segments it takes out of the
\* manifest.
LEMMA MergeIsSafe ==
    ASSUME NEW prev, WellFormed(prev), NEW t \in Stamp,
           NEW sources \in SUBSET prev.segments, NEW carry \in BOOLEAN,
           prev.next_segment_id < MaxSeg, carry => MaxGen > 0
    PROVE  SafeTransaction(prev, Merge(prev, sources, carry, t), t)
<1> DEFINE tr == Merge(prev, sources, carry, t)
           m == tr.manifest
           id == prev.next_segment_id
           tombstones == IF carry THEN {del_name(id, 1)} ELSE {}
<1>1. /\ prev \in Manifest /\ id \in SegId
      /\ prev.segments \subseteq SegId /\ id \notin prev.segments
      /\ prev.del_gen \in [SegId -> 0 .. MaxGen] /\ prev.del_gen[id] = 0
  <2>1. prev \in Manifest /\ id \in SegId
    BY BoundsAssumption DEF WellFormed, Manifest, SegId
  <2>2. id \in Nat
    BY <2>1, BoundsAssumption DEF SegId
  <2> QED
    BY <2>1, <2>2 DEF WellFormed, Manifest
<1>2. /\ tr.writes = segment_writes({id}) \cup tombstones
      /\ tr.retires = UNION {segment_files(prev, s) : s \in sources}
      /\ m.segments = (prev.segments \ sources) \cup {id}
      /\ m.state_gen = prev.state_gen
      /\ m.del_gen = [prev.del_gen EXCEPT ![id] = IF carry THEN 1 ELSE 0]
      /\ m.crc = Checksums(prev, tr.writes, t)
      /\ m.next_segment_id = id + 1
      /\ m.generation = prev.generation + 1
  BY <1>1 DEF Merge, Transaction, Manifest
<1>3. /\ m.del_gen \in [SegId -> 0 .. MaxGen]
      /\ m.del_gen[id] = IF carry THEN 1 ELSE 0
      /\ \A s \in SegId \ {id} : m.del_gen[s] = prev.del_gen[s]
      /\ carry => 1 \in Generation
  BY <1>1, <1>2, BoundsAssumption DEF Generation
<1>4. tr.writes \subseteq DataName
  BY <1>1, <1>2, <1>3 DEF segment_writes, DataName
<1>5. WellFormed(m)
  <2>1. m.crc \in [DataName -> 0 .. MaxTxn]
    BY <1>1, <1>2, BoundsAssumption DEF Checksums, Manifest, Stamp
  <2>2. /\ m.generation \in Nat /\ m.next_segment_id \in 0 .. MaxSeg
        /\ m.segments \in SUBSET SegId /\ m.state_gen \in 0 .. MaxGen
    BY <1>1, <1>2, BoundsAssumption DEF Manifest
  <2>3. m \in Manifest
    BY <1>1, <1>3, <2>1, <2>2 DEF Merge, Transaction, Manifest
  <2> HIDE DEF m
  <2>4. id \in Nat /\ \A s \in SegId : s \in Nat
    BY <1>1, BoundsAssumption DEF SegId
  <2>5. \A s \in m.segments : s < m.next_segment_id
    BY <1>1, <1>2, <2>4 DEF WellFormed
  <2>6. \A s \in SegId : s >= m.next_segment_id => m.del_gen[s] = 0
    <3> SUFFICES ASSUME NEW s \in SegId, s >= id + 1 PROVE m.del_gen[s] = 0
      BY <1>2
    <3>1. s # id /\ s >= id
      BY <2>4
    <3> QED
      BY <1>3, <3>1 DEF WellFormed
  <2> QED
    BY <2>3, <2>5, <2>6 DEF WellFormed
<1> HIDE DEF tr, m
<1>6. tr.writes \cap referenced_files(prev) = {}
  BY <1>1, <1>2, Referenced DEF segment_writes, idx_name, doc_name, del_name, overlay_name
<1>7. tr.retires \subseteq DataName /\ tr.retires \cap referenced_files(m) = {}
  <2> SUFFICES ASSUME NEW s \in sources, NEW n \in segment_files(prev, s)
               PROVE  n \in DataName /\ n \notin referenced_files(m)
    BY <1>2
  <2>1. n[2] = s /\ n[1] # "ovl" /\ s \in SegId
    BY <1>1 DEF segment_files, idx_name, doc_name, del_name
  <2>2. n \in DataName
    <3>1. n \in referenced_files(prev)
      BY DEF referenced_files
    <3> QED  BY <1>1, <3>1, ReferencedTyping
  <2>3. s \notin m.segments
    BY <1>1, <1>2
  <2> QED
    BY <2>1, <2>2, <2>3, Referenced DEF idx_name, doc_name, del_name, overlay_name
<1>8. \A n \in tr.writes : m.crc[n] = t
  BY <1>2, <1>4 DEF Checksums
<1>9. \A n \in referenced_files(m) \ tr.writes :
          n \in referenced_files(prev) /\ m.crc[n] = prev.crc[n]
  <2> SUFFICES ASSUME NEW n \in referenced_files(m) \ tr.writes
               PROVE  n \in referenced_files(prev) /\ m.crc[n] = prev.crc[n]
    OBVIOUS
  <2>1. n \in DataName
    BY <1>5, ReferencedTyping DEF WellFormed
  <2>2. m.crc[n] = prev.crc[n]
    BY <1>2, <2>1 DEF Checksums
  <2>3. n \in referenced_files(prev)
    BY <1>1, <1>2, <1>3, Referenced DEF segment_writes
  <2> QED  BY <2>2, <2>3
<1> QED
  BY <1>4, <1>5, <1>6, <1>7, <1>8, <1>9 DEF SafeTransaction, tr, m

-----------------------------------------------------------------------------
(* One manifest after another.  Names are not used twice, except those of  *)
(* overlays, whose generation may be dropped to 0 and start over.          *)

\* Manifest cur may come after m, with any number of commits between them.
Descends(m, cur) ==
    /\ m.next_segment_id <= cur.next_segment_id
    /\ \A s \in m.segments \cap cur.segments : m.del_gen[s] <= cur.del_gen[s]

\* No manifest up to m has referenced the segment file n.
Fresh(m, n) ==
    n[1] # "ovl" => \/ n[2] >= m.next_segment_id
                    \/ n[1] = "del" /\ n[2] \in m.segments /\ n[3] > m.del_gen[n[2]]

\* m is what a transaction that writes these files makes of prev.
Succeeds(prev, m, writes) ==
    /\ m.generation = prev.generation + 1
    /\ Descends(prev, m)
    /\ \A s \in m.segments : s \in prev.segments \/ s >= prev.next_segment_id
    /\ \A n \in writes : Fresh(prev, n)
    /\ \A n \in DataName \ writes : m.crc[n] = prev.crc[n]

\* build_index: fresh ids only.
LEMMA BuildSucceeds ==
    ASSUME NEW prev, WellFormed(prev), NEW t \in Stamp, NEW k \in Nat
    PROVE  Succeeds(prev, Build(prev, k, t).manifest, Build(prev, k, t).writes)
<1> DEFINE tr == Build(prev, k, t)
           ids == NewIds(prev, k)
<1>1. /\ prev.next_segment_id \in Nat
      /\ \A s \in prev.segments : s \in Nat /\ s < prev.next_segment_id
      /\ \A s \in ids : s \in Nat /\ s >= prev.next_segment_id
  BY BoundsAssumption DEF NewIds, SegId, WellFormed, Manifest
<1>2. /\ tr.writes = segment_writes(ids)
      /\ tr.manifest.segments = ids
      /\ tr.manifest.crc = Checksums(prev, segment_writes(ids), t)
      /\ tr.manifest.next_segment_id = prev.next_segment_id + k
      /\ tr.manifest.generation = prev.generation + 1
  BY DEF Build, Transaction
<1> HIDE DEF tr, ids
<1>3. Descends(prev, tr.manifest)
  BY <1>1, <1>2 DEF Descends
<1>4. \A n \in tr.writes : Fresh(prev, n)
  BY <1>1, <1>2 DEF segment_writes, idx_name, doc_name, Fresh
<1>5. \A n \in DataName \ tr.writes : tr.manifest.crc[n] = prev.crc[n]
  BY <1>2 DEF Checksums
<1>6. Succeeds(prev, tr.manifest, tr.writes)
  BY <1>1, <1>2, <1>3, <1>4, <1>5 DEF Succeeds
<1> QED
  BY <1>6 DEF tr

\* update_index: fresh ids, and deletion generations that only grow.
LEMMA UpdateSucceeds ==
    ASSUME NEW prev, WellFormed(prev), NEW t \in Stamp, NEW k \in Nat,
           NEW dead \in SUBSET prev.segments, NEW gen \in 0 .. MaxGen
    PROVE  Succeeds(prev, Update(prev, k, dead, gen, t).manifest,
                    Update(prev, k, dead, gen, t).writes)
<1> DEFINE tr == Update(prev, k, dead, gen, t)
           ids == NewIds(prev, k)
           overlay == IF gen > 0 THEN {overlay_name(gen)} ELSE {}
<1>1. /\ prev.next_segment_id \in Nat
      /\ \A s \in prev.segments : s \in Nat /\ s \in SegId /\ s < prev.next_segment_id
      /\ \A s \in ids : s \in Nat /\ s >= prev.next_segment_id
      /\ \A s \in SegId : prev.del_gen[s] \in Nat
  BY BoundsAssumption DEF NewIds, SegId, WellFormed, Manifest
<1>2. /\ tr.writes = segment_writes(ids) \cup tombstone_writes(prev, dead) \cup overlay
      /\ tr.manifest.segments = prev.segments \cup ids
      /\ tr.manifest.del_gen = Tombstoned(prev, dead)
      /\ tr.manifest.crc = Checksums(prev, tr.writes, t)
      /\ tr.manifest.next_segment_id = prev.next_segment_id + k
      /\ tr.manifest.generation = prev.generation + 1
  BY DEF Update, Transaction
<1> HIDE DEF tr, ids
<1>3. Descends(prev, tr.manifest)
  BY <1>1, <1>2 DEF Descends, Tombstoned
<1>4. \A n \in tr.writes : Fresh(prev, n)
  BY <1>1, <1>2
  DEF segment_writes, tombstone_writes, idx_name, doc_name, del_name, overlay_name, Fresh
<1>5. \A n \in DataName \ tr.writes : tr.manifest.crc[n] = prev.crc[n]
  BY <1>2 DEF Checksums
<1>6. Succeeds(prev, tr.manifest, tr.writes)
  BY <1>1, <1>2, <1>3, <1>4, <1>5 DEF Succeeds
<1> QED
  BY <1>6 DEF tr

\* commit_merges: one fresh id in place of some segments.
LEMMA MergeSucceeds ==
    ASSUME NEW prev, WellFormed(prev), NEW t \in Stamp,
           NEW sources \in SUBSET prev.segments, NEW carry \in BOOLEAN,
           prev.next_segment_id < MaxSeg
    PROVE  Succeeds(prev, Merge(prev, sources, carry, t).manifest,
                    Merge(prev, sources, carry, t).writes)
<1> DEFINE tr == Merge(prev, sources, carry, t)
           id == prev.next_segment_id
           tombstones == IF carry THEN {del_name(id, 1)} ELSE {}
<1>1. /\ prev \in Manifest /\ id \in Nat /\ id \in SegId
      /\ \A s \in prev.segments : s \in Nat /\ s \in SegId /\ s < id
      /\ prev.del_gen \in [SegId -> 0 .. MaxGen]
      /\ \A s \in SegId : prev.del_gen[s] \in Nat
  BY BoundsAssumption DEF SegId, WellFormed, Manifest
<1>2. /\ tr.writes = segment_writes({id}) \cup tombstones
      /\ tr.manifest.segments = (prev.segments \ sources) \cup {id}
      /\ tr.manifest.del_gen = [prev.del_gen EXCEPT ![id] = IF carry THEN 1 ELSE 0]
      /\ tr.manifest.crc = Checksums(prev, tr.writes, t)
      /\ tr.manifest.next_segment_id = id + 1
      /\ tr.manifest.generation = prev.generation + 1
  BY <1>1 DEF Merge, Transaction, Manifest
<1> HIDE DEF tr
<1>3. Descends(prev, tr.manifest)
  <2>1. \A s \in prev.segments : tr.manifest.del_gen[s] = prev.del_gen[s]
    BY <1>1, <1>2
  <2> QED
    BY <1>1, <1>2, <2>1 DEF Descends
<1>4. \A n \in tr.writes : Fresh(prev, n)
  BY <1>1, <1>2 DEF segment_writes, idx_name, doc_name, del_name, Fresh
<1>5. \A n \in DataName \ tr.writes : tr.manifest.crc[n] = prev.crc[n]
  BY <1>2 DEF Checksums
<1>6. \A s \in tr.manifest.segments : s \in prev.segments \/ s >= id
  BY <1>1, <1>2
<1> HIDE DEF id
<1>7. Succeeds(prev, tr.manifest, tr.writes)
  BY <1>2, <1>3, <1>4, <1>5, <1>6 DEF Succeeds, id
<1> QED
  BY <1>7 DEF tr

LEMMA WellFormedTypes ==
    ASSUME NEW m, WellFormed(m)
    PROVE  /\ m.next_segment_id \in Nat
           /\ \A s \in m.segments : s \in Nat /\ s \in SegId /\ s < m.next_segment_id
           /\ \A s \in SegId : m.del_gen[s] \in Nat
BY BoundsAssumption DEF SegId, WellFormed, Manifest

\* A manifest stays an ancestor of what is committed on top of its descendants.
LEMMA DescendsFurther ==
    ASSUME NEW m, WellFormed(m), NEW prev, WellFormed(prev), NEW next, WellFormed(next),
           NEW writes, Descends(m, prev), Succeeds(prev, next, writes)
    PROVE  Descends(m, next)
<1>1. /\ m.next_segment_id \in Nat /\ prev.next_segment_id \in Nat
      /\ next.next_segment_id \in Nat
      /\ \A s \in m.segments : s \in Nat /\ s \in SegId /\ s < m.next_segment_id
      /\ \A s \in SegId : /\ m.del_gen[s] \in Nat /\ prev.del_gen[s] \in Nat
                          /\ next.del_gen[s] \in Nat
  BY WellFormedTypes
<1>2. \A s \in m.segments \cap next.segments : s \in prev.segments
  BY <1>1 DEF Succeeds, Descends
<1>3. \A s \in m.segments \cap next.segments : m.del_gen[s] <= next.del_gen[s]
  BY <1>1, <1>2 DEF Succeeds, Descends
<1> QED
  BY <1>1, <1>3 DEF Succeeds, Descends

\* What is fresh to a manifest, none of its ancestors has referenced.
LEMMA FreshMeansUnreferenced ==
    ASSUME NEW m, WellFormed(m), NEW cur, WellFormed(cur), Descends(m, cur),
           NEW n, Fresh(cur, n), n[1] # "ovl"
    PROVE  n \notin referenced_files(m)
<1> SUFFICES ASSUME n \in referenced_files(m) PROVE FALSE
  OBVIOUS
<1>1. PICK s \in m.segments : \/ n = idx_name(s) \/ n = doc_name(s)
                              \/ m.del_gen[s] > 0 /\ n = del_name(s, m.del_gen[s])
  BY Referenced DEF overlay_name
<1>2. /\ s \in Nat /\ s \in SegId /\ s < m.next_segment_id /\ m.next_segment_id \in Nat
      /\ cur.next_segment_id \in Nat /\ m.del_gen[s] \in Nat /\ cur.del_gen[s] \in Nat
  BY BoundsAssumption DEF SegId, WellFormed, Manifest
<1>3. n[2] = s
  BY <1>1 DEF idx_name, doc_name, del_name
<1>4. n[1] = "del" /\ s \in cur.segments /\ n[3] > cur.del_gen[s]
  BY <1>2, <1>3 DEF Fresh, Descends
<1>5. n[3] = m.del_gen[s]
  BY <1>1, <1>4 DEF idx_name, doc_name, del_name
<1> QED
  BY <1>2, <1>4, <1>5 DEF Descends

=============================================================================
