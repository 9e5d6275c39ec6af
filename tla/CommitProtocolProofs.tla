------------------------ MODULE CommitProtocolProofs ------------------------
(***************************************************************************)
(* Proofs about CommitProtocol, for every number of segments, generations  *)
(* and transactions: its inductive invariant and what follows from it, and *)
(* that it implements AtomicIndex.                                         *)
(***************************************************************************)
EXTENDS CommitProtocol, IndexLayoutProofs

-----------------------------------------------------------------------------
(* The invariant.                                                          *)

LEMMA InitIInv == Init => IInv
<1> SUFFICES ASSUME Init PROVE IInv
  OBVIOUS
<1>1. dir \in Directory /\ dir[MANIFEST] = Absent
  BY DataNames, BoundsAssumption DEF Init, Directory, Content, Absent
<1>2. TypeOK
  BY <1>1, NoManifestFacts, BoundsAssumption
  DEF Init, TypeOK, Step, Stamp, WellFormed, Content, Absent
<1>3. Solid(dir)
  BY <1>1, NoManifestFacts DEF Init, Solid, Opens, Complete, ManifestIn, Readable, Absent
<1> QED
  BY <1>2, <1>3, NoManifestFacts DEF Init, IInv, PreCommit, FreshNames

\* The manifest in force is well-formed, and references data files only.
LEMMA CurrentFacts ==
    ASSUME IInv
    PROVE  WellFormed(current) /\ referenced_files(current) \subseteq DataName
<1>1. Readable(dir[MANIFEST]) => dir[MANIFEST].stamp \in Stamp
  BY DataNames, BoundsAssumption DEF IInv, TypeOK, Solid, Readable, Stamp
<1>2. WellFormed(current)
  BY <1>1, NoManifestFacts DEF IInv, current, ManifestIn
<1> QED  BY <1>2, ReferencedTyping DEF WellFormed

\* A directory stays solid while its MANIFEST, the files that manifest names
\* and the manifests of the transactions started so far stay as they are.
LEMMA SolidStable ==
    ASSUME IInv, NEW d, NEW e, Solid(d), d \in Directory,
           \A n \in Name \ {TMP} : e[n].state \in {"absent", "whole"},
           e[MANIFEST] = d[MANIFEST],
           \A n \in referenced_files(ManifestIn(d)) : e[n] = d[n],
           txn' \in Nat, txn' >= txn, acked' = acked,
           \A t \in 1 .. txn : written'[t] = written[t]
    PROVE  /\ \A n \in Name \ {TMP} : e[n].state \in {"absent", "whole"}
           /\ e[MANIFEST].state = "whole" => e[MANIFEST].stamp \in 1 .. txn'
           /\ acked' <= e[MANIFEST].stamp /\ e[MANIFEST].stamp <= txn'
           /\ IF Readable(e[MANIFEST])
              THEN Complete(written'[e[MANIFEST].stamp], e)
              ELSE Complete(NoManifest, e)
<1>1. /\ txn \in Nat /\ d[MANIFEST].stamp \in Nat
      /\ d[MANIFEST].stamp <= txn'
  <2>1. txn \in Nat /\ d[MANIFEST].stamp \in Nat
    BY BoundsAssumption, DataNames DEF IInv, TypeOK, Directory, Content
  <2> QED
    BY <2>1 DEF Solid
<1>2. Readable(d[MANIFEST]) => d[MANIFEST].stamp \in 1 .. txn
  BY DataNames DEF Solid, Readable
<1>3. Complete(ManifestIn(d), e)
  BY DEF Solid, Opens, Complete
<1> QED
  BY <1>1, <1>2, <1>3 DEF Solid, ManifestIn

\* Starting a transaction: its plan is safe, so Preparing holds.
LEMMA BeginIInv ==
    ASSUME IInv, NEW tr, NEW waiting \in SUBSET DataName, Begin(tr, waiting),
           SafeTransaction(current, tr, txn + 1)
    PROVE  IInv'
<1>1. /\ txn \in Nat /\ txn + 1 \in Stamp /\ txn' = txn + 1
      /\ dir' = dir /\ durable' = durable /\ acked' = acked
      /\ todo' = tr.writes /\ retire' = tr.retires /\ made' = {} /\ staged' = waiting
      /\ base' = dir[MANIFEST]
  BY BoundsAssumption DEF Begin, IInv, TypeOK, Stamp
<1>2. /\ written' \in [Stamp -> Manifest]
      /\ written'[txn + 1] = tr.manifest
      /\ \A t \in Stamp \ {txn + 1} : written'[t] = written[t]
      /\ \A t \in 1 .. txn : written'[t] = written[t]
  BY <1>1, BoundsAssumption DEF Begin, IInv, TypeOK, SafeTransaction, WellFormed, Stamp
<1>3. TypeOK'
  <2>1. tr.writes \subseteq DataName /\ tr.retires \subseteq DataName
    BY DEF SafeTransaction
  <2>2. base' \in Content
    BY <1>1, DataNames DEF IInv, TypeOK, Directory
  <2>3. pc' \in Step
    BY DEF Begin, Step
  <2> QED
    BY <1>1, <1>2, <2>1, <2>2, <2>3 DEF IInv, TypeOK, Stamp
<1>4. Solid(dir)' /\ Solid(durable)'
  <2>1. Solid(dir)'
    BY <1>1, <1>2, SolidStable, DataNames DEF IInv, TypeOK, Solid, Opens, ManifestIn
  <2>2. Solid(durable)'
    BY <1>1, <1>2, SolidStable, DataNames DEF IInv, TypeOK, Solid, Opens, ManifestIn
  <2> QED  BY <2>1, <2>2
<1>5. current' = current
  <2>1. Readable(dir[MANIFEST]) => dir[MANIFEST].stamp \in 1 .. txn
    BY DataNames DEF IInv, Solid, Readable
  <2> QED
    BY <1>1, <1>2, <2>1 DEF current, ManifestIn
<1>6. plan' = tr.manifest
  BY <1>1, <1>2 DEF plan
<1>7. Preparing'
  <2>1. \A n \in referenced_files(tr.manifest) \ tr.writes :
           Readable(dir[n]) /\ dir[n].stamp = tr.manifest.crc[n]
    BY DEF SafeTransaction, IInv, Solid, Opens, Complete, current
  <2>2. pc' \in {"write", "sync_dir"} /\ (pc' = "sync_dir" => todo' = {})
    BY DEF Begin
  <2>3. base'.stamp < txn'
    <3>1. dir[MANIFEST].stamp \in Nat /\ dir[MANIFEST].stamp <= txn
      BY BoundsAssumption, DataNames DEF IInv, TypeOK, Directory, Content, Solid
    <3> QED
      BY <1>1, <3>1
  <2> QED
    BY <1>1, <1>5, <1>6, <2>1, <2>2, <2>3 DEF Preparing, SafeTransaction
<1>8. FreshNames'
  BY <1>1, <1>5 DEF FreshNames, SafeTransaction
<1>9. \A t \in Stamp : WellFormed(written'[t])
  BY <1>2 DEF IInv, SafeTransaction
<1>10. pc' \in {"write", "sync_dir"} /\ acked' <= txn'
  BY <1>1, BoundsAssumption DEF Begin, IInv, TypeOK
<1> QED
  BY <1>3, <1>4, <1>7, <1>8, <1>9, <1>10 DEF IInv, WellFormed, Manifest

LEMMA BeginBuildStep == IInv /\ BeginBuild => IInv'
<1> SUFFICES ASSUME IInv, NEW k \in 0 .. MaxNew, current.next_segment_id + k <= MaxSeg,
                    Begin(Build(current, k, txn + 1), {})
             PROVE  IInv'
  BY DEF BeginBuild
<1>1. WellFormed(current) /\ txn + 1 \in Stamp
  BY CurrentFacts, BoundsAssumption DEF Begin, IInv, TypeOK, Stamp
<1>2. SafeTransaction(current, Build(current, k, txn + 1), txn + 1)
  BY <1>1, BuildIsSafe
<1> QED  BY <1>2, BeginIInv

LEMMA BeginUpdateStep == IInv /\ BeginUpdate => IInv'
<1> SUFFICES ASSUME IInv, NEW k \in 0 .. MaxNew, NEW dead \in SUBSET current.segments,
                    NEW patched \in BOOLEAN, NEW gen \in OverlayGens(current, patched, dead),
                    gen <= MaxGen,
                    current.next_segment_id + k <= MaxSeg,
                    \A s \in dead : current.del_gen[s] < MaxGen,
                    Begin(Update(current, k, dead, gen, txn + 1), {})
             PROVE  IInv'
  BY DEF BeginUpdate
<1>1. WellFormed(current) /\ txn + 1 \in Stamp
  BY CurrentFacts, BoundsAssumption DEF Begin, IInv, TypeOK, Stamp
<1>2. gen \in 0 .. MaxGen /\ (gen = 0 \/ gen # current.state_gen)
  <2>1. current.state_gen \in 0 .. MaxGen
    BY <1>1 DEF WellFormed, Manifest
  <2>2. gen \in {0, current.state_gen + 1}
    BY DEF OverlayGens
  <2> QED  BY <2>1, <2>2, BoundsAssumption
<1>3. SafeTransaction(current, Update(current, k, dead, gen, txn + 1), txn + 1)
  BY <1>1, <1>2, UpdateIsSafe
<1> QED  BY <1>3, BeginIInv

LEMMA BeginDeleteStep == IInv /\ BeginDelete => IInv'
<1> SUFFICES ASSUME IInv, NEW dead \in SUBSET current.segments,
                    \A s \in dead : current.del_gen[s] < MaxGen,
                    Begin(Delete(current, dead, txn + 1), {})
             PROVE  IInv'
  BY DEF BeginDelete
<1>1. WellFormed(current) /\ txn + 1 \in Stamp
  BY CurrentFacts, BoundsAssumption DEF Begin, IInv, TypeOK, Stamp
<1>2. SafeTransaction(current, Delete(current, dead, txn + 1), txn + 1)
  BY <1>1, DeleteIsSafe
<1> QED  BY <1>2, BeginIInv

LEMMA BeginMergeStep == IInv /\ BeginMerge => IInv'
<1> DEFINE id == current.next_segment_id
<1> SUFFICES ASSUME IInv, NEW sources \in SUBSET current.segments \ {{}},
                    NEW carry \in BOOLEAN, id < MaxSeg, carry => MaxGen > 0,
                    Begin(Merge(current, sources, carry, txn + 1), segment_writes({id}))
             PROVE  IInv'
  BY DEF BeginMerge
<1>1. WellFormed(current) /\ txn + 1 \in Stamp
  BY CurrentFacts, BoundsAssumption DEF Begin, IInv, TypeOK, Stamp
<1>2. SafeTransaction(current, Merge(current, sources, carry, txn + 1), txn + 1)
  BY <1>1, MergeIsSafe
<1>3. segment_writes({id}) \in SUBSET DataName
  <2>1. id \in SegId
    BY <1>1, BoundsAssumption DEF WellFormed, Manifest, SegId
  <2> QED  BY <2>1 DEF segment_writes, DataName
<1> QED  BY <1>2, <1>3, BeginIInv

\* A step that changes neither MANIFEST nor a file it names keeps the directory
\* solid and the manifest in force the same.
LEMMA QuietStep ==
    ASSUME IInv, UNCHANGED <<written, txn, acked>>,
           dir' \in Directory,
           \A n \in Name \ {TMP} : dir'[n].state \in {"absent", "whole"},
           dir'[MANIFEST] = dir[MANIFEST],
           \A n \in referenced_files(current) : dir'[n] = dir[n]
    PROVE  Solid(dir)' /\ current' = current /\ plan' = plan
<1>1. txn \in Nat /\ dir \in Directory /\ Solid(dir)
  BY BoundsAssumption DEF IInv, TypeOK
<1>2. Solid(dir)'
  BY <1>1, SolidStable DEF Solid, Opens, ManifestIn, current
<1> QED
  BY <1>2 DEF current, plan, ManifestIn

\* The durable directory is only touched by syncs.
LEMMA QuietDurable ==
    ASSUME IInv, UNCHANGED <<durable, written, txn, acked>>
    PROVE  Solid(durable)'
BY DEF IInv, Solid, Opens, ManifestIn, Complete

LEMMA WriteTmpStep == IInv /\ WriteTmp => IInv'
<1> SUFFICES ASSUME IInv, WriteTmp PROVE IInv'
  OBVIOUS
<1>1. /\ dir' = [dir EXCEPT ![TMP] = Dirty(txn)]
      /\ UNCHANGED <<durable, written, txn, todo, retire, staged, base, acked>>
      /\ pc = "write" /\ pc' = "sync"
      /\ made' \subseteq made \cup {TMP}
  BY DEF WriteTmp, Announced
<1>2. dir' \in Directory /\ Dirty(txn) \in Content
  BY <1>1, BoundsAssumption DEF IInv, TypeOK, Directory, Content, Dirty
<1>3. \A n \in Name \ {TMP} : dir'[n] = dir[n]
  BY <1>1 DEF IInv, TypeOK, Directory
<1>4. referenced_files(current) \subseteq Name \ {TMP} /\ MANIFEST \in Name \ {TMP}
  BY CurrentFacts, DataNames
<1>5. Solid(dir)' /\ current' = current /\ plan' = plan
  <2>1. \A n \in Name \ {TMP} : dir'[n].state \in {"absent", "whole"}
    BY <1>3 DEF IInv, Solid
  <2> QED  BY <1>1, <1>2, <1>3, <1>4, <2>1, QuietStep
<1>6. Solid(durable)'
  BY <1>1, QuietDurable
<1>7. TypeOK'
  BY <1>1, <1>2 DEF IInv, TypeOK, Step
<1>8. Preparing'
  <2>1. Preparing
    BY <1>1 DEF IInv, PreCommit
  <2>2. referenced_files(plan) \subseteq Name \ {TMP}
    BY <2>1, ReferencedTyping, DataNames DEF Preparing, IInv, TypeOK, plan, Stamp
  <2>3. dir'[TMP] = Dirty(txn)
    BY <1>1, DataNames DEF IInv, TypeOK, Directory
  <2>4. made' \cap referenced_files(current) = {}
    BY <1>1, <1>4, <2>1 DEF Preparing
  <2> QED
    BY <1>1, <1>3, <1>4, <1>5, <2>1, <2>2, <2>3, <2>4 DEF Preparing
<1> QED
  BY <1>1, <1>5, <1>6, <1>7, <1>8 DEF IInv, PreCommit, FreshNames, WellFormed

LEMMA SyncTmpStep == IInv /\ SyncTmp => IInv'
<1> SUFFICES ASSUME IInv, SyncTmp PROVE IInv'
  OBVIOUS
<1>1. /\ dir' = [dir EXCEPT ![TMP] = Whole(dir[TMP].stamp)]
      /\ UNCHANGED <<durable, written, txn, todo, retire, staged, base, acked>>
      /\ pc = "sync" /\ pc' = IF todo # {} THEN "rename" ELSE "commit"
      /\ made' \subseteq made \cup todo
  BY DEF SyncTmp
<1>2. Preparing
  BY <1>1 DEF IInv, PreCommit
<1>3. dir[TMP].stamp = txn
  BY <1>1, <1>2 DEF Preparing, Dirty
<1>4. dir' \in Directory /\ dir'[TMP] = Whole(txn)
  BY <1>1, <1>3, BoundsAssumption, DataNames DEF IInv, TypeOK, Directory, Content, Whole
<1>5. \A n \in Name \ {TMP} : dir'[n] = dir[n]
  BY <1>1 DEF IInv, TypeOK, Directory
<1>6. referenced_files(current) \subseteq Name \ {TMP} /\ MANIFEST \in Name \ {TMP}
  BY CurrentFacts, DataNames
<1>7. Solid(dir)' /\ current' = current /\ plan' = plan
  <2>1. \A n \in Name \ {TMP} : dir'[n].state \in {"absent", "whole"}
    BY <1>5 DEF IInv, Solid
  <2> QED  BY <1>1, <1>4, <1>5, <1>6, <2>1, QuietStep
<1>8. Solid(durable)'
  BY <1>1, QuietDurable
<1>9. TypeOK'
  BY <1>1, <1>4 DEF IInv, TypeOK, Step
<1>10. Preparing'
  <2>1. referenced_files(plan) \subseteq Name \ {TMP}
    BY <1>2, ReferencedTyping, DataNames DEF Preparing, IInv, TypeOK, plan, Stamp
  <2>2. made' \cap referenced_files(current) = {}
    BY <1>1, <1>2 DEF Preparing, IInv, FreshNames
  <2> QED
    BY <1>1, <1>2, <1>4, <1>5, <1>6, <1>7, <2>1, <2>2 DEF Preparing
<1> QED
  BY <1>1, <1>7, <1>8, <1>9, <1>10 DEF IInv, PreCommit, FreshNames, WellFormed

LEMMA RenameDataStep == IInv /\ RenameData => IInv'
<1> SUFFICES ASSUME IInv, RenameData PROVE IInv'
  OBVIOUS
<1>1. PICK n \in todo : /\ dir' = [dir EXCEPT ![n] = dir[TMP], ![TMP] = Absent]
                        /\ todo' = todo \ {n}
  BY DEF RenameData
<1>2. /\ UNCHANGED <<durable, written, txn, retire, staged, base, acked>>
      /\ pc = "rename" /\ pc' = IF todo' # {} THEN "write" ELSE "sync_dir"
      /\ made' \subseteq made
  BY DEF RenameData
<1>3. Preparing /\ dir[TMP] = Whole(txn)
  BY <1>2 DEF IInv, PreCommit, Preparing
<1>4. /\ n \in DataName /\ n \in Name /\ n # TMP /\ n # MANIFEST
      /\ n \notin referenced_files(current)
  BY DataNames DEF IInv, TypeOK, FreshNames
<1>5. /\ dir' \in Directory
      /\ dir'[n] = Whole(txn)
      /\ \A x \in Name \ {TMP, n} : dir'[x] = dir[x]
  BY <1>1, <1>3, <1>4, DataNames, BoundsAssumption
  DEF IInv, TypeOK, Directory, Content, Absent, Whole
<1>6. referenced_files(current) \subseteq Name \ {TMP} /\ MANIFEST \in Name \ {TMP, n}
  BY <1>4, CurrentFacts, DataNames
<1>7. Solid(dir)' /\ current' = current /\ plan' = plan
  <2>1. \A x \in Name \ {TMP} : dir'[x].state \in {"absent", "whole"}
    BY <1>5 DEF IInv, Solid, Whole
  <2> QED  BY <1>2, <1>4, <1>5, <1>6, <2>1, QuietStep
<1>8. Solid(durable)'
  BY <1>2, QuietDurable
<1>9. TypeOK'
  BY <1>1, <1>2, <1>5 DEF IInv, TypeOK, Step
<1>10. Preparing'
  <2>1. referenced_files(plan) \subseteq Name \ {TMP}
    BY <1>3, ReferencedTyping, DataNames DEF Preparing, IInv, TypeOK, plan, Stamp
  <2>2. \A x \in referenced_files(plan) :
           x \in todo' \/ (Readable(dir'[x]) /\ dir'[x].stamp = plan.crc[x])
    <3> SUFFICES ASSUME NEW x \in referenced_files(plan), x \notin todo'
                 PROVE  Readable(dir'[x]) /\ dir'[x].stamp = plan.crc[x]
      OBVIOUS
    <3>1. CASE x = n
      BY <1>3, <1>5, <3>1 DEF Preparing, Readable, Whole
    <3>2. CASE x # n
      BY <1>1, <1>3, <1>5, <2>1, <3>2 DEF Preparing
    <3> QED  BY <3>1, <3>2
  <2> QED
    BY <1>1, <1>2, <1>3, <1>5, <1>6, <1>7, <2>2 DEF Preparing
<1> QED
  BY <1>1, <1>2, <1>7, <1>8, <1>9, <1>10 DEF IInv, PreCommit, FreshNames, WellFormed

\* A merged file leaves the staging directory whole: as good as a renamed one.
LEMMA RenameStagedStep == IInv /\ RenameStaged => IInv'
<1> SUFFICES ASSUME IInv, RenameStaged PROVE IInv'
  OBVIOUS
<1>1. PICK n \in FromStaging : /\ dir' = [dir EXCEPT ![n] = Whole(txn)]
                               /\ todo' = todo \ {n}
  BY DEF RenameStaged
<1>2. /\ UNCHANGED <<durable, written, txn, retire, staged, base, acked>>
      /\ pc = "write" /\ pc' = IF todo' # {} THEN "write" ELSE "sync_dir"
      /\ made' = made \cup FromStaging
  BY <1>1 DEF RenameStaged, Announced
<1>3. Preparing /\ FromStaging \subseteq todo
  BY <1>2 DEF IInv, PreCommit, FromStaging
<1>4. /\ n \in DataName /\ n \in Name /\ n # TMP /\ n # MANIFEST
      /\ FromStaging \cap referenced_files(current) = {}
  BY <1>3, DataNames DEF IInv, TypeOK, FreshNames
<1>5. /\ dir' \in Directory
      /\ dir'[n] = Whole(txn)
      /\ \A x \in Name \ {n} : dir'[x] = dir[x]
  BY <1>1, <1>4, BoundsAssumption DEF IInv, TypeOK, Directory, Content, Whole
<1>6. /\ referenced_files(current) \subseteq Name \ {TMP, n}
      /\ MANIFEST \in Name \ {TMP, n}
  BY <1>4, CurrentFacts, DataNames
<1>7. Solid(dir)' /\ current' = current /\ plan' = plan
  <2>1. \A x \in Name \ {TMP} : dir'[x].state \in {"absent", "whole"}
    BY <1>5 DEF IInv, Solid, Whole
  <2> QED  BY <1>2, <1>5, <1>6, <2>1, QuietStep
<1>8. Solid(durable)'
  BY <1>2, QuietDurable
<1>9. TypeOK'
  BY <1>1, <1>2, <1>3, <1>5 DEF IInv, TypeOK, Step
<1>10. Preparing'
  <2>1. referenced_files(plan) \subseteq Name \ {TMP}
    BY <1>3, ReferencedTyping, DataNames DEF Preparing, IInv, TypeOK, plan, Stamp
  <2>2. \A x \in referenced_files(plan) :
           x \in todo' \/ (Readable(dir'[x]) /\ dir'[x].stamp = plan.crc[x])
    <3> SUFFICES ASSUME NEW x \in referenced_files(plan), x \notin todo'
                 PROVE  Readable(dir'[x]) /\ dir'[x].stamp = plan.crc[x]
      OBVIOUS
    <3>1. CASE x = n
      BY <1>3, <1>5, <3>1 DEF Preparing, Readable, Whole
    <3>2. CASE x # n
      BY <1>1, <1>3, <1>5, <2>1, <3>2 DEF Preparing
    <3> QED  BY <3>1, <3>2
  <2>3. made' \cap referenced_files(current) = {}
    BY <1>2, <1>3, <1>4 DEF Preparing
  <2> QED
    BY <1>1, <1>2, <1>3, <1>5, <1>6, <1>7, <2>2, <2>3 DEF Preparing
<1> QED
  BY <1>1, <1>2, <1>7, <1>8, <1>9, <1>10 DEF IInv, PreCommit, FreshNames, WellFormed

LEMMA SyncDirStep == IInv /\ SyncDir => IInv'
<1> SUFFICES ASSUME IInv, SyncDir PROVE IInv'
  OBVIOUS
<1>1. /\ durable' = dir
      /\ UNCHANGED <<dir, written, txn, todo, made, retire, staged, base, acked>>
      /\ pc = "sync_dir" /\ pc' = "write"
  BY DEF SyncDir
<1>2. Preparing /\ current' = current /\ plan' = plan
  BY <1>1 DEF IInv, PreCommit, current, plan, ManifestIn
<1>3. Solid(dir)' /\ Solid(durable)'
  BY <1>1 DEF IInv, Solid, Opens, ManifestIn, Complete
<1>4. TypeOK' /\ Preparing'
  BY <1>1, <1>2 DEF IInv, TypeOK, Step, Preparing
<1> QED
  BY <1>1, <1>2, <1>3, <1>4 DEF IInv, PreCommit, FreshNames, WellFormed

\* The commit point: the plan's files are complete, so the new manifest is.
LEMMA RenameManifestStep == IInv /\ RenameManifest => IInv'
<1> SUFFICES ASSUME IInv, RenameManifest PROVE IInv'
  OBVIOUS
<1>1. /\ dir' = [dir EXCEPT ![MANIFEST] = dir[TMP], ![TMP] = Absent]
      /\ UNCHANGED <<durable, written, txn, todo, made, retire, staged, base, acked>>
      /\ pc = "commit" /\ pc' = "harden"
  BY DEF RenameManifest
<1>2. Preparing /\ dir[TMP] = Whole(txn) /\ todo = {}
  BY <1>1 DEF IInv, PreCommit, Preparing
<1>3. /\ dir' \in Directory
      /\ dir'[MANIFEST] = Whole(txn)
      /\ \A x \in Name \ {TMP, MANIFEST} : dir'[x] = dir[x]
  BY <1>1, <1>2, DataNames, BoundsAssumption
  DEF IInv, TypeOK, Directory, Content, Absent, Whole
<1>4. txn \in Stamp /\ plan' = plan /\ plan \in Manifest
  BY <1>1, <1>2 DEF Preparing, IInv, TypeOK, Stamp, plan
<1>5. current' = plan
  BY <1>1, <1>3 DEF current, plan, ManifestIn, Readable, Whole
<1>6. Complete(plan, dir')
  <2>1. \A x \in referenced_files(plan) : dir'[x] = dir[x]
    BY <1>3, <1>4, ReferencedTyping, DataNames
  <2> QED
    BY <1>2, <2>1 DEF Complete, Preparing
<1>7. Solid(dir)'
  <2>1. \A x \in Name \ {TMP} : dir'[x].state \in {"absent", "whole"}
    BY <1>3 DEF IInv, Solid, Whole
  <2>2. /\ dir'[MANIFEST].stamp \in 1 .. txn
        /\ acked <= dir'[MANIFEST].stamp /\ dir'[MANIFEST].stamp <= txn
    BY <1>2, <1>3, BoundsAssumption DEF IInv, TypeOK, Whole, Preparing
  <2>3. Opens(dir)'
    BY <1>5, <1>6 DEF Opens, current, Complete
  <2> QED
    BY <1>1, <2>1, <2>2, <2>3 DEF Solid
<1>8. Solid(durable)'
  BY <1>1, QuietDurable
<1>9. TypeOK'
  BY <1>1, <1>3 DEF IInv, TypeOK, Step
<1>10. /\ txn' >= 1 /\ dir'[MANIFEST] = Whole(txn')
       /\ retire' \cap referenced_files(plan') = {}
  BY <1>1, <1>2, <1>3, <1>4 DEF Preparing
<1> QED
  BY <1>1, <1>2, <1>7, <1>8, <1>9, <1>10 DEF IInv, PreCommit, FreshNames, WellFormed

LEMMA HardenStep == IInv /\ Harden => IInv'
<1> SUFFICES ASSUME IInv, Harden PROVE IInv'
  OBVIOUS
<1>1. /\ UNCHANGED <<dir, written, txn, todo, made, retire, staged, base>>
      /\ pc = "harden" /\ pc' = "retire"
      /\ \/ durable' = dir /\ acked' = txn
         \/ UNCHANGED <<durable, acked>>
  BY DEF Harden
<1>2. /\ txn >= 1 /\ dir[MANIFEST] = Whole(txn)
      /\ retire \cap referenced_files(plan) = {}
  BY <1>1 DEF IInv
<1>3. txn \in Nat /\ acked \in Nat /\ acked <= txn
  BY BoundsAssumption DEF IInv, TypeOK
<1>4. Solid(dir)' /\ Solid(durable)'
  BY <1>1, <1>2, <1>3 DEF IInv, Solid, Opens, ManifestIn, Complete, Whole
<1>5. TypeOK' /\ acked' <= txn'
  BY <1>1, <1>3 DEF IInv, TypeOK, Step
<1>6. current' = current /\ plan' = plan
  BY <1>1 DEF current, plan, ManifestIn
<1> QED
  BY <1>1, <1>2, <1>4, <1>5, <1>6 DEF IInv, PreCommit, FreshNames, WellFormed

\* Removing files that the manifest in force does not reference is quiet.
LEMMA RemoveIsQuiet ==
    ASSUME IInv, NEW gone \in SUBSET (Name \ {MANIFEST}), Remove(gone),
           gone \cap referenced_files(current) = {},
           UNCHANGED <<durable, written, txn, acked>>
    PROVE  /\ dir' \in Directory
           /\ Solid(dir)' /\ Solid(durable)'
           /\ current' = current /\ plan' = plan
           /\ dir'[MANIFEST] = dir[MANIFEST]
<1>1. dir' \in Directory
  BY BoundsAssumption DEF Remove, IInv, TypeOK, Directory, Content, Absent
<1>2. \A n \in Name : dir'[n] = IF n \in gone THEN Absent ELSE dir[n]
  BY DEF Remove
<1>3. \A n \in Name \ {TMP} : dir'[n].state \in {"absent", "whole"}
  BY <1>2 DEF IInv, Solid, Absent
<1>4. \A n \in referenced_files(current) : dir'[n] = dir[n]
  BY <1>2, CurrentFacts, DataNames
<1>5. dir'[MANIFEST] = dir[MANIFEST]
  BY <1>2, DataNames
<1> QED
  BY <1>1, <1>3, <1>4, <1>5, QuietStep, QuietDurable

\* A process that forgets its transaction leaves nothing to prove but the disk.
LEMMA FinishIInv ==
    ASSUME IInv, Finish, UNCHANGED <<written, txn, base, acked>>,
           dir' \in Directory, durable' \in Directory,
           Solid(dir)', Solid(durable)'
    PROVE  IInv'
<1>1. TypeOK'
  BY DEF IInv, TypeOK, Finish, Step
<1> QED
  BY <1>1 DEF IInv, PreCommit, FreshNames, WellFormed, Finish

LEMMA RetireStep == IInv /\ Retire => IInv'
<1> SUFFICES ASSUME IInv, Retire PROVE IInv'
  OBVIOUS
<1>1. PICK gone \in SUBSET retire : Remove(gone)
  BY DEF Retire
<1>2. Finish /\ UNCHANGED <<durable, written, txn, base, acked>> /\ pc = "retire"
  BY DEF Retire
<1>3. current = plan /\ retire \cap referenced_files(plan) = {}
  BY <1>2 DEF IInv, current, plan, ManifestIn, Readable, Whole
<1>4. gone \in SUBSET (Name \ {MANIFEST}) /\ gone \cap referenced_files(current) = {}
  BY <1>3, DataNames DEF IInv, TypeOK
<1> QED
  BY <1>1, <1>2, <1>4, RemoveIsQuiet, FinishIInv DEF IInv, TypeOK

LEMMA CleanupStep == IInv /\ Cleanup => IInv'
<1> SUFFICES ASSUME IInv, Cleanup PROVE IInv'
  OBVIOUS
<1>1. PICK gone \in SUBSET made : Remove(gone)
  BY DEF Cleanup
<1>2. Finish /\ UNCHANGED <<durable, written, txn, base, acked>> /\ pc = "cleanup"
  BY DEF Cleanup
<1>3. gone \in SUBSET (Name \ {MANIFEST}) /\ gone \cap referenced_files(current) = {}
  BY <1>2, DataNames DEF IInv, TypeOK
<1> QED
  BY <1>1, <1>2, <1>3, RemoveIsQuiet, FinishIInv DEF IInv, TypeOK

LEMMA FailStep == IInv /\ Fail => IInv'
<1> SUFFICES ASSUME IInv, Fail PROVE IInv'
  OBVIOUS
<1>1. /\ pc \in PreCommit /\ pc' = "cleanup"
      /\ UNCHANGED <<durable, written, txn, todo, retire, staged, base, acked>>
      /\ dir' = dir \/ dir' = [dir EXCEPT ![TMP] = Torn]
      /\ made' \subseteq made \cup todo \cup {TMP}
  BY DEF Fail, PreCommit, Announced, FromStaging
<1>2. Preparing /\ todo \cap referenced_files(current) = {}
  BY <1>1 DEF IInv, FreshNames
<1>3. dir' \in Directory
  BY <1>1, BoundsAssumption DEF IInv, TypeOK, Directory, Content, Torn
<1>4. \A n \in Name \ {TMP} : dir'[n] = dir[n]
  BY <1>1 DEF IInv, TypeOK, Directory
<1>5. referenced_files(current) \subseteq Name \ {TMP} /\ MANIFEST \in Name \ {TMP}
  BY CurrentFacts, DataNames
<1>6. Solid(dir)' /\ current' = current
  <2>1. \A n \in Name \ {TMP} : dir'[n].state \in {"absent", "whole"}
    BY <1>4 DEF IInv, Solid
  <2> QED  BY <1>1, <1>3, <1>4, <1>5, <2>1, QuietStep
<1>7. Solid(durable)'
  BY <1>1, QuietDurable
<1>8. TypeOK'
  BY <1>1, <1>3 DEF IInv, TypeOK, Step
<1>9. dir'[MANIFEST] = base' /\ made' \cap referenced_files(current') = {}
  BY <1>1, <1>2, <1>4, <1>5, <1>6 DEF Preparing
<1> QED
  BY <1>1, <1>6, <1>7, <1>8, <1>9 DEF IInv, PreCommit, FreshNames, WellFormed

LEMMA KillStep == IInv /\ Kill => IInv'
<1> SUFFICES ASSUME IInv, Kill PROVE IInv'
  OBVIOUS
<1>1. Solid(dir)' /\ Solid(durable)'
  BY DEF IInv, Kill, Solid, Opens, ManifestIn, Complete
<1> QED
  BY <1>1, FinishIInv DEF Kill, IInv, TypeOK

\* What survives a power loss when directory changes persist in order is a
\* directory that was solid before it.
LEMMA SettleSolid ==
    ASSUME IInv, NEW d \in {dir, durable}
    PROVE  /\ Settle(d) \in Directory
           /\ \A n \in Name \ {TMP} : Settle(d)[n] = d[n]
           /\ Opens(Settle(d))
<1>1. d \in Directory /\ Solid(d)
  BY DEF IInv, TypeOK
<1>2. Settle(d) \in Directory
  BY <1>1, BoundsAssumption DEF Settle, Directory, Content, Torn
<1>3. \A n \in Name \ {TMP} : Settle(d)[n] = d[n]
  BY <1>1 DEF Settle, Solid
<1>4. ManifestIn(Settle(d)) = ManifestIn(d)
  BY <1>3, DataNames DEF ManifestIn
<1>5. referenced_files(ManifestIn(d)) \subseteq Name \ {TMP}
  <2>1. Readable(d[MANIFEST]) => d[MANIFEST].stamp \in Stamp
    BY <1>1, DataNames, BoundsAssumption DEF IInv, TypeOK, Solid, Readable, Stamp
  <2>2. WellFormed(ManifestIn(d))
    BY <2>1, NoManifestFacts DEF IInv, ManifestIn
  <2> QED  BY <2>2, ReferencedTyping, DataNames DEF WellFormed
<1>6. Opens(Settle(d))
  BY <1>1, <1>3, <1>4, <1>5 DEF Solid, Opens, Complete
<1> QED  BY <1>2, <1>3, <1>6

LEMMA PowerLossStep ==
    ASSUME OrderedDir, IInv, PowerLoss
    PROVE  IInv'
<1>1. PICK d \in {dir, durable} : dir' = Settle(d)
  BY DEF PowerLoss, Outcomes
<1>2. Finish /\ durable' = dir' /\ UNCHANGED <<written, txn, base, acked>>
  BY DEF PowerLoss
<1>3. /\ dir' \in Directory
      /\ \A n \in Name \ {TMP} : dir'[n] = d[n]
      /\ Opens(dir')
  BY <1>1, SettleSolid
<1>4. Solid(d) /\ MANIFEST \in Name \ {TMP}
  BY DataNames DEF IInv
<1>5. Solid(dir)'
  BY <1>2, <1>3, <1>4 DEF Solid, Opens, ManifestIn
<1>6. Solid(durable)'
  BY <1>2, <1>5 DEF Solid, Opens, ManifestIn, Complete
<1> QED
  BY <1>2, <1>3, <1>5, <1>6, FinishIInv

\* The orphan sweep removes nothing the manifest it was measured against names.
LEMMA OpenAndSweepStep == IInv /\ OpenAndSweep => IInv'
<1> SUFFICES ASSUME IInv, OpenAndSweep PROVE IInv'
  OBVIOUS
<1>1. PICK gone \in SUBSET {n \in Name : /\ is_cleanable(n)
                                         /\ n \notin referenced_files(current)
                                         /\ Present(dir[n])} : Remove(gone)
  BY DEF OpenAndSweep
<1>2. UNCHANGED <<durable, written, txn, pc, todo, made, retire, staged, base, acked>> /\ pc = "idle"
  BY DEF OpenAndSweep
<1>3. gone \in SUBSET (Name \ {MANIFEST}) /\ gone \cap referenced_files(current) = {}
  BY <1>1, DataNames DEF is_cleanable
<1>4. /\ dir' \in Directory /\ Solid(dir)' /\ Solid(durable)'
      /\ current' = current
  BY <1>1, <1>2, <1>3, RemoveIsQuiet
<1>5. TypeOK'
  BY <1>2, <1>4 DEF IInv, TypeOK
<1> QED
  BY <1>2, <1>4, <1>5 DEF IInv, PreCommit, FreshNames, WellFormed

LEMMA StutterStep == IInv /\ UNCHANGED vars => IInv'
BY DEF IInv, TypeOK, vars, Solid, Opens, ManifestIn, Complete, Preparing, FreshNames, plan,
       current, WellFormed, PreCommit

-----------------------------------------------------------------------------
(* The theorems.  They hold on a file system that keeps directory changes  *)
(* in order; the run CommitUnordered shows that the premise is needed.     *)

THEOREM Invariance == OrderedDir => (Spec => []IInv)
<1> SUFFICES ASSUME OrderedDir PROVE Spec => []IInv
  OBVIOUS
<1>1. Init => IInv
  BY InitIInv
<1>2. IInv /\ [Next]_vars => IInv'
  <2> SUFFICES ASSUME IInv, [Next]_vars PROVE IInv'
    OBVIOUS
  <2>1. CASE BeginBuild  BY <2>1, BeginBuildStep
  <2>2. CASE BeginUpdate  BY <2>2, BeginUpdateStep
  <2>3. CASE BeginDelete  BY <2>3, BeginDeleteStep
  <2>4. CASE WriteTmp  BY <2>4, WriteTmpStep
  <2>5. CASE SyncTmp  BY <2>5, SyncTmpStep
  <2>6. CASE RenameData  BY <2>6, RenameDataStep
  <2>7. CASE SyncDir  BY <2>7, SyncDirStep
  <2>8. CASE RenameManifest  BY <2>8, RenameManifestStep
  <2>9. CASE Harden  BY <2>9, HardenStep
  <2>10. CASE Retire  BY <2>10, RetireStep
  <2>11. CASE Fail  BY <2>11, FailStep
  <2>12. CASE Cleanup  BY <2>12, CleanupStep
  <2>13. CASE Kill  BY <2>13, KillStep
  <2>14. CASE PowerLoss  BY <2>14, PowerLossStep
  <2>15. CASE OpenAndSweep  BY <2>15, OpenAndSweepStep
  <2>17. CASE BeginMerge  BY <2>17, BeginMergeStep
  <2>18. CASE RenameStaged  BY <2>18, RenameStagedStep
  <2>16. CASE UNCHANGED vars  BY <2>16, StutterStep
  <2> QED
    BY <2>1, <2>2, <2>3, <2>4, <2>5, <2>6, <2>7, <2>8, <2>9, <2>10, <2>11, <2>12, <2>13,
       <2>14, <2>15, <2>16, <2>17, <2>18 DEF Next
<1> QED
  BY <1>1, <1>2, PTL DEF Spec

\* Every variable keeps its type.
THEOREM TypeCorrect == OrderedDir => (Spec => []TypeOK)
<1>1. IInv => TypeOK
  BY DEF IInv
<1> QED
  BY <1>1, Invariance, PTL

\* All or nothing: after any sequence of commits, failures, kills and power
\* losses the next open finds a complete index.
THEOREM CrashSafety == OrderedDir => (Spec => []CrashSafe)
<1> SUFFICES ASSUME OrderedDir PROVE Spec => []CrashSafe
  OBVIOUS
<1>1. IInv => CrashSafe
  <2> SUFFICES ASSUME IInv PROVE CrashSafe
    OBVIOUS
  <2>1. Opens(dir)
    BY DEF IInv, Solid
  <2>2. \A d \in Outcomes : Opens(Settle(d))
    BY SettleSolid DEF Outcomes
  <2> QED  BY <2>1, <2>2 DEF CrashSafe
<1>2. Spec => []IInv
  BY Invariance
<1> QED
  BY <1>1, <1>2, PTL

\* A commit that was reported with its directory synced is never undone.
THEOREM Durability == OrderedDir => (Spec => []AckedSurvives)
<1> SUFFICES ASSUME OrderedDir PROVE Spec => []AckedSurvives
  OBVIOUS
<1>1. IInv => AckedSurvives
  BY DEF IInv, Solid, AckedSurvives, Outcomes
<1>2. Spec => []IInv
  BY Invariance
<1> QED
  BY <1>1, <1>2, PTL

\* A transaction that reports an error has not changed the index.
THEOREM ErrorAtomicity == OrderedDir => (Spec => []ErrorChangesNothing)
<1>1. IInv => ErrorChangesNothing
  BY DEF IInv, ErrorChangesNothing
<1> QED
  BY <1>1, Invariance, PTL

\* A transaction never writes a name that the manifest in force references.
THEOREM Freshness == OrderedDir => (Spec => []FreshNames)
<1>1. IInv => FreshNames
  BY DEF IInv
<1> QED
  BY <1>1, Invariance, PTL

-----------------------------------------------------------------------------
(* CommitProtocol implements AtomicIndex: under the inductive invariant    *)
(* both directories open, so the refinement mapping reads the number of    *)
(* MANIFEST in each, and only RenameManifest, the two directory syncs and  *)
(* PowerLoss change one of the two numbers.                                *)

\* What an open finds is the number of MANIFEST.
StampsAreSeen ==
    /\ seen = dir[MANIFEST].stamp /\ seen \in Nat
    /\ kept = durable[MANIFEST].stamp /\ kept \in Nat

LEMMA VisibleIsStamp == IInv => StampsAreSeen
<1> SUFFICES ASSUME IInv PROVE StampsAreSeen
  OBVIOUS
<1>1. /\ dir \in Directory /\ durable \in Directory
      /\ Opens(dir) /\ Opens(durable)
  BY DEF IInv, TypeOK, Solid
<1>2. \A c \in Content : c.stamp \in Nat
  BY BoundsAssumption DEF Content
<1> QED
  BY <1>1, <1>2, DataNames DEF StampsAreSeen, seen, kept, VisibleIn, Directory

\* The invariant holds before and after every step, so the mapping is the
\* number of MANIFEST on both sides of it.
LEMMA StampsStaySeen == IInv /\ IInv' => StampsAreSeen /\ StampsAreSeen'
BY VisibleIsStamp, PTL

\* The steps that leave MANIFEST and the durable directory alone.
LEMMA InvisibleStep ==
    ASSUME StampsAreSeen, StampsAreSeen', dir'[MANIFEST] = dir[MANIFEST], durable' = durable
    PROVE  UNCHANGED <<seen, kept>>
BY DEF StampsAreSeen

LEMMA InitMaps == Init => Promise!Init
<1> SUFFICES ASSUME Init PROVE Promise!Init
  OBVIOUS
<1>1. dir[MANIFEST] = Absent /\ durable = dir
  BY DataNames DEF Init
<1>2. IInv
  BY InitIInv
<1>3. StampsAreSeen
  BY <1>2, VisibleIsStamp
<1> QED
  BY <1>1, <1>3 DEF Promise!Init, StampsAreSeen, Absent

\* RenameManifest is the commit: its number is new.
LEMMA CommitMaps ==
    ASSUME IInv, StampsAreSeen, StampsAreSeen', RenameManifest
    PROVE  Promise!Commit
<1>1. pc = "commit" /\ durable' = durable
  BY DEF RenameManifest
<1>2. Preparing /\ dir[TMP] = Whole(txn) /\ dir[MANIFEST] = base
  BY <1>1 DEF IInv, PreCommit, Preparing
<1>3. dir'[MANIFEST].stamp = txn
  BY <1>2, DataNames DEF RenameManifest, IInv, TypeOK, Directory, Whole
<1>4. dir[MANIFEST].stamp < txn
  BY <1>2 DEF Preparing
<1> QED
  BY <1>1, <1>3, <1>4 DEF Promise!Commit, StampsAreSeen

\* A directory sync makes the commit that is seen the one that is kept.
LEMMA SyncMaps ==
    ASSUME StampsAreSeen, StampsAreSeen', UNCHANGED dir, durable' = dir
    PROVE  Promise!Harden
BY DEF Promise!Harden, StampsAreSeen

\* When directory changes persist in order a power loss leaves one of the two
\* directories, and MANIFEST is whole in both.
LEMMA PowerLossMaps ==
    ASSUME OrderedDir, IInv, StampsAreSeen, StampsAreSeen', PowerLoss
    PROVE  Promise!PowerLoss
<1>1. PICK d \in {dir, durable} : dir' = Settle(d)
  BY DEF PowerLoss, Outcomes
<1>2. durable' = dir'
  BY DEF PowerLoss
<1>3. dir'[MANIFEST] = d[MANIFEST]
  BY <1>1, SettleSolid, DataNames
<1> QED
  BY <1>2, <1>3 DEF Promise!PowerLoss, StampsAreSeen

\* Every other step is invisible.
LEMMA OthersKeepManifest ==
    ASSUME IInv,
           \/ BeginBuild \/ BeginUpdate \/ BeginDelete \/ BeginMerge
           \/ WriteTmp \/ SyncTmp \/ RenameData \/ RenameStaged
           \/ Retire \/ Fail \/ Cleanup \/ Kill \/ OpenAndSweep
           \/ UNCHANGED vars
    PROVE  dir'[MANIFEST] = dir[MANIFEST] /\ durable' = durable
<1>1. dir \in Directory /\ \A n \in DataName \cup {TMP} : n \in Name /\ n # MANIFEST
  BY DataNames DEF IInv, TypeOK
<1>2. \A gone : MANIFEST \notin gone /\ Remove(gone) => dir'[MANIFEST] = dir[MANIFEST]
  BY DataNames DEF Remove
<1>3. /\ todo \subseteq DataName /\ retire \subseteq DataName
      /\ made \subseteq DataName \cup {TMP}
  BY DEF IInv, TypeOK
<1>4. CASE BeginBuild \/ BeginUpdate \/ BeginDelete \/ BeginMerge \/ Kill \/ UNCHANGED vars
  BY <1>4 DEF BeginBuild, BeginUpdate, BeginDelete, BeginMerge, Begin, Kill, vars
<1>5. CASE WriteTmp \/ SyncTmp \/ RenameData \/ RenameStaged \/ Fail
  BY <1>1, <1>3, <1>5, DataNames
  DEF WriteTmp, SyncTmp, RenameData, RenameStaged, FromStaging, Fail, Directory
<1>6. CASE Retire \/ Cleanup \/ OpenAndSweep
  BY <1>1, <1>2, <1>3, <1>6 DEF Retire, Cleanup, OpenAndSweep, is_cleanable
<1> QED
  BY <1>4, <1>5, <1>6

\* The two ends of SyncDir and Harden.
LEMMA SyncingSteps ==
    ASSUME SyncDir \/ Harden
    PROVE  UNCHANGED dir /\ (durable' = dir \/ durable' = durable)
BY DEF SyncDir, Harden

LEMMA StepMaps ==
    ASSUME OrderedDir, IInv, IInv', [Next]_vars
    PROVE  [Promise!Next]_<<seen, kept>>
<1>1. StampsAreSeen /\ StampsAreSeen'
  BY StampsStaySeen
<1>2. CASE RenameManifest
  BY <1>1, <1>2, CommitMaps DEF Promise!Next
<1>3. CASE SyncDir \/ Harden
  <2>1. CASE durable' = dir
    BY <1>1, <1>3, <2>1, SyncingSteps, SyncMaps DEF Promise!Next
  <2>2. CASE durable' = durable
    BY <1>1, <1>3, <2>2, SyncingSteps, InvisibleStep
  <2> QED
    BY <1>3, <2>1, <2>2, SyncingSteps
<1>4. CASE PowerLoss
  BY <1>1, <1>4, PowerLossMaps DEF Promise!Next
<1>5. CASE \/ BeginBuild \/ BeginUpdate \/ BeginDelete \/ BeginMerge
           \/ WriteTmp \/ SyncTmp \/ RenameData \/ RenameStaged
           \/ Retire \/ Fail \/ Cleanup \/ Kill \/ OpenAndSweep
           \/ UNCHANGED vars
  BY <1>1, <1>5, OthersKeepManifest, InvisibleStep
<1> QED
  BY <1>2, <1>3, <1>4, <1>5 DEF Next

\* The commit protocol implements the atomic index, for every number of
\* segments, generations and transactions.
THEOREM Refinement == OrderedDir => (Spec => ImplementsAtomicIndex)
<1> SUFFICES ASSUME OrderedDir PROVE Spec => ImplementsAtomicIndex
  OBVIOUS
<1>1. Init => Promise!Init
  BY InitMaps
<1>2. IInv /\ IInv' /\ [Next]_vars => [Promise!Next]_<<seen, kept>>
  BY StepMaps
<1>3. Spec => []IInv
  BY Invariance
<1> QED
  BY <1>1, <1>2, <1>3, PTL DEF Spec, ImplementsAtomicIndex, Promise!Spec

=============================================================================
