--------------------------- MODULE CommitProtocol ---------------------------
(***************************************************************************)
(* One process changing the index at <root>/.ripindex, one system call at  *)
(* a time: build_index, update_index and delete_docs down to the renames   *)
(* and syncs of commit() (src/store/writer.rs, src/store/update.rs), the   *)
(* open that follows (src/store/reader.rs), every system call failing,     *)
(* the process being killed and the machine losing power.                  *)
(*                                                                         *)
(* dir is the directory as running processes see it, durable what a power  *)
(* loss is certain to have kept: the directory at its last successful      *)
(* sync.  A power loss keeps or drops the changes made since (Outcomes).   *)
(* The file system is external to the program; what is assumed of it is    *)
(* stated at Outcomes and Settle and nowhere else.                         *)
(***************************************************************************)
EXTENDS IndexLayout

CONSTANT OrderedDir   \* TRUE: directory changes persist in the order made

ASSUME OrderedDirAssumption == OrderedDir \in BOOLEAN

VARIABLES dir,      \* [Name -> Content]: the directory as processes see it
          durable,  \* [Name -> Content]: the directory at its last sync
          written,  \* [Stamp -> Manifest]: the manifest each transaction commits
          txn,      \* number of transactions started
          pc,       \* the next system call of the running transaction
          todo,     \* data files still to be written
          made,     \* new_files: what the error path removes
          retire,   \* what is unlinked after the commit
          staged,   \* data files whose bytes wait in the staging directory
          base,     \* content of MANIFEST when the transaction started
          acked     \* last transaction that reported success with its
                    \* directory sync done

vars == <<dir, durable, written, txn, pc, todo, made, retire, staged, base, acked>>

-----------------------------------------------------------------------------
(* File contents.  "dirty" bytes were written and not yet fsynced.         *)
Content == [state : {"absent", "torn", "dirty", "whole"}, stamp : 0 .. MaxTxn]
Absent == [state |-> "absent", stamp |-> 0]
Torn == [state |-> "torn", stamp |-> 0]
Dirty(t) == [state |-> "dirty", stamp |-> t]
Whole(t) == [state |-> "whole", stamp |-> t]
Directory == [Name -> Content]

Present(c) == c.state # "absent"
Readable(c) == c.state \in {"dirty", "whole"}

\* What Manifest::decode makes of the MANIFEST in d: a missing or torn one
\* is "no index", never an error.
ManifestIn(d) == IF Readable(d[MANIFEST]) THEN written[d[MANIFEST].stamp] ELSE NoManifest

\* Every file the manifest m references is in d, with the length and the
\* checksum that m records.
Complete(m, d) == \A n \in referenced_files(m) : Readable(d[n]) /\ d[n].stamp = m.crc[n]

\* open() succeeds (with an index or without one): neither Vanished nor Corrupt.
Opens(d) == Complete(ManifestIn(d), d)

-----------------------------------------------------------------------------
(* The file system (external).  When directory changes persist in order, a *)
(* power loss keeps a prefix of those made since the last sync.  The empty *)
(* prefix is durable and the longest is dir; one in between was dir at an  *)
(* earlier moment, so it is the outcome of a power loss at that moment.    *)
(* When they do not, every entry keeps its new value or its durable one.   *)
Changed == {n \in Name : dir[n] # durable[n]}
Outcomes ==
    IF OrderedDir THEN {dir, durable}
    ELSE {[n \in Name |-> IF n \in lost THEN durable[n] ELSE dir[n]] : lost \in SUBSET Changed}

\* Bytes that were never fsynced do not survive.
Settle(d) == [n \in Name |-> IF d[n].state = "dirty" THEN Torn ELSE d[n]]

-----------------------------------------------------------------------------
Init ==
    /\ dir = [n \in Name |-> Absent]
    /\ durable = dir
    /\ written = [t \in Stamp |-> NoManifest]
    /\ txn = 0
    /\ pc = "idle"
    /\ todo = {}
    /\ made = {}
    /\ retire = {}
    /\ staged = {}
    /\ base = Absent
    /\ acked = 0

current == ManifestIn(dir)
plan == written[txn]

\* The lock is taken, the previous index opened (no sweep: the opener's own
\* lock attempt is refused), and tr decided on.  The bytes of the files in
\* waiting were written and synced in the staging directory before that.
Begin(tr, waiting) ==
    /\ pc = "idle"
    /\ txn < MaxTxn
    /\ Opens(dir)
    /\ txn' = txn + 1
    /\ written' = [written EXCEPT ![txn + 1] = tr.manifest]
    /\ todo' = tr.writes
    /\ retire' = tr.retires
    /\ staged' = waiting
    /\ made' = {}
    /\ base' = dir[MANIFEST]
    /\ pc' = IF todo' # {} THEN "write" ELSE "sync_dir"
    /\ UNCHANGED <<dir, durable, acked>>

\* build_index, from nothing or over a previous index.
BeginBuild ==
    \E k \in 0 .. MaxNew :
        /\ current.next_segment_id + k <= MaxSeg
        /\ Begin(Build(current, k, txn + 1), {})

\* update_index with a previous index and a plan that is not empty.
BeginUpdate ==
    \E k \in 0 .. MaxNew, dead \in SUBSET current.segments, patched \in BOOLEAN :
        /\ Readable(dir[MANIFEST])
        /\ k > 0 \/ dead # {} \/ patched
        /\ current.next_segment_id + k <= MaxSeg
        /\ \A s \in dead : current.del_gen[s] < MaxGen
        /\ \E gen \in OverlayGens(current, patched, dead) :
              /\ gen <= MaxGen
              /\ Begin(Update(current, k, dead, gen, txn + 1), {})

\* delete_docs on an index that is current; nothing is committed when no bit
\* changes.
BeginDelete ==
    \E dead \in SUBSET current.segments \ {{}} :
        /\ \A s \in dead : current.del_gen[s] < MaxGen
        /\ Begin(Delete(current, dead, txn + 1), {})

\* commit_merges for a group that was prepared earlier; its sources may have
\* got tombstones since.
BeginMerge ==
    \E sources \in SUBSET current.segments \ {{}}, carry \in BOOLEAN :
        /\ current.next_segment_id < MaxSeg
        /\ carry => MaxGen > 0 /\ \E s \in sources : current.del_gen[s] > 0
        /\ Begin(Merge(current, sources, carry, txn + 1),
                 segment_writes({current.next_segment_id}))

-----------------------------------------------------------------------------
(* flush_segment, write_whole and the steps of commit().                   *)

\* The file being written: the next data file, and MANIFEST after them all.
IsNext(n) == /\ n \in todo
             /\ \A other \in todo : Rank(n) <= Rank(other)

FromStaging == {n \in todo \cap staged : IsNext(n)}

\* Mutant: the error path would remove MANIFEST as well.
AnnouncedWithManifest ==
    IF FromStaging # {} THEN FromStaging
    ELSE IF todo # {} THEN {TMP} ELSE {MANIFEST}

\* What new_files gets before the call at "write".
Announced == IF FromStaging # {} THEN FromStaging
             ELSE IF todo # {} THEN {TMP} ELSE {}

\* create (truncating) and write the temporary file.
WriteTmp ==
    /\ pc = "write"
    /\ FromStaging = {}
    /\ dir' = [dir EXCEPT ![TMP] = Dirty(txn)]
    /\ made' = made \cup Announced
    /\ pc' = "sync"
    /\ UNCHANGED <<durable, written, txn, todo, retire, staged, base, acked>>

\* Mutant: a data file is renamed without having been synced.
SkipSyncTmp ==
    /\ pc = "sync"
    /\ dir' = IF todo # {} THEN dir ELSE [dir EXCEPT ![TMP] = Whole(dir[TMP].stamp)]
    /\ made' = made \cup {n \in todo : IsNext(n)}
    /\ pc' = IF todo # {} THEN "rename" ELSE "commit"
    /\ UNCHANGED <<durable, written, txn, todo, retire, staged, base, acked>>

\* sync_all on the temporary file.
SyncTmp ==
    /\ pc = "sync"
    /\ dir' = [dir EXCEPT ![TMP] = Whole(dir[TMP].stamp)]
    /\ made' = made \cup {n \in todo : IsNext(n)}
    /\ pc' = IF todo # {} THEN "rename" ELSE "commit"
    /\ UNCHANGED <<durable, written, txn, todo, retire, staged, base, acked>>

\* Rename a data file into place.
RenameData ==
    /\ pc = "rename"
    /\ \E n \in todo :
          /\ IsNext(n)
          /\ dir' = [dir EXCEPT ![n] = dir[TMP], ![TMP] = Absent]
          /\ todo' = todo \ {n}
    /\ made' = made \ {TMP}
    /\ pc' = IF todo' # {} THEN "write" ELSE "sync_dir"
    /\ UNCHANGED <<durable, written, txn, retire, staged, base, acked>>

\* finish_one: rename a merged file out of the staging directory.
RenameStaged ==
    /\ pc = "write"
    /\ \E n \in FromStaging :
          /\ dir' = [dir EXCEPT ![n] = Whole(txn)]
          /\ todo' = todo \ {n}
    /\ made' = made \cup Announced
    /\ pc' = IF todo' # {} THEN "write" ELSE "sync_dir"
    /\ UNCHANGED <<durable, written, txn, retire, staged, base, acked>>

\* commit() step 3: the directory is synced before the manifest is written.
SyncDir ==
    /\ pc = "sync_dir"
    /\ durable' = dir
    /\ pc' = "write"
    /\ UNCHANGED <<dir, written, txn, todo, made, retire, staged, base, acked>>

\* The commit point: MANIFEST.tmp becomes MANIFEST.
RenameManifest ==
    /\ pc = "commit"
    /\ dir' = [dir EXCEPT ![MANIFEST] = dir[TMP], ![TMP] = Absent]
    /\ pc' = "harden"
    /\ UNCHANGED <<durable, written, txn, todo, made, retire, staged, base, acked>>

\* Mutant: the failure of the sync is not noticed.
HardenUnchecked ==
    /\ pc = "harden"
    /\ durable' \in {dir, durable}
    /\ acked' = txn
    /\ pc' = "retire"
    /\ UNCHANGED <<dir, written, txn, todo, made, retire, staged, base>>

\* The directory sync after the rename; a failure is logged and ignored.
Harden ==
    /\ pc = "harden"
    /\ \/ durable' = dir /\ acked' = txn
       \/ UNCHANGED <<durable, acked>>
    /\ pc' = "retire"
    /\ UNCHANGED <<dir, written, txn, todo, made, retire, staged, base>>

\* The transaction's memory is gone: it returned, or its process died.
Finish == pc' = "idle" /\ todo' = {} /\ made' = {} /\ retire' = {} /\ staged' = {}

Remove(gone) == dir' = [n \in Name |-> IF n \in gone THEN Absent ELSE dir[n]]

\* Unlink the files the commit replaced, best effort, and report success.
Retire ==
    /\ pc = "retire"
    /\ \E gone \in SUBSET retire : Remove(gone)
    /\ Finish
    /\ UNCHANGED <<durable, written, txn, base, acked>>

-----------------------------------------------------------------------------
(* Failures.                                                               *)

\* Mutant: the sync after the rename fails the commit as well.
FailLate ==
    /\ pc \in {"write", "sync", "rename", "sync_dir", "commit", "harden"}
    /\ pc' = "cleanup"
    /\ UNCHANGED <<dir, durable, written, txn, todo, made, retire, staged, base, acked>>

\* A system call before the commit point reports an error; a failed write or
\* sync leaves the temporary file torn.
Fail ==
    /\ pc \in {"write", "sync", "rename", "sync_dir", "commit"}
    /\ \/ UNCHANGED dir
       \/ /\ pc = "sync" \/ (pc = "write" /\ FromStaging = {})
          /\ dir' = [dir EXCEPT ![TMP] = Torn]
    /\ made' = IF pc = "write" THEN made \cup Announced ELSE made
    /\ pc' = "cleanup"
    /\ UNCHANGED <<durable, written, txn, todo, retire, staged, base, acked>>

\* The error path removes new_files, best effort, and reports the error.
Cleanup ==
    /\ pc = "cleanup"
    /\ \E gone \in SUBSET made : Remove(gone)
    /\ Finish
    /\ UNCHANGED <<durable, written, txn, base, acked>>

\* kill -9 at any point of a transaction; the next action is a new process.
Kill ==
    /\ pc # "idle"
    /\ Finish
    /\ UNCHANGED <<dir, durable, written, txn, base, acked>>

PowerLoss ==
    /\ \E d \in Outcomes : dir' = Settle(d)
    /\ durable' = dir'
    /\ Finish
    /\ UNCHANGED <<written, txn, base, acked>>

\* open() by a process that gets the lock: once the manifest is accepted,
\* every cleanable file it does not reference is removed, best effort.
OpenAndSweep ==
    /\ pc = "idle"
    /\ Readable(dir[MANIFEST])
    /\ \E gone \in SUBSET {n \in Name : /\ is_cleanable(n)
                                        /\ n \notin referenced_files(current)
                                        /\ Present(dir[n])} :
          Remove(gone)
    /\ UNCHANGED <<durable, written, txn, pc, todo, made, retire, staged, base, acked>>

Next ==
    \/ BeginBuild \/ BeginUpdate \/ BeginDelete \/ BeginMerge
    \/ WriteTmp \/ SyncTmp \/ RenameData \/ RenameStaged \/ SyncDir
    \/ RenameManifest \/ Harden \/ Retire
    \/ Fail \/ Cleanup \/ Kill \/ PowerLoss
    \/ OpenAndSweep

Spec == Init /\ [][Next]_vars

-----------------------------------------------------------------------------
Step == {"idle", "write", "sync", "rename", "sync_dir", "commit", "harden",
         "retire", "cleanup"}

\* Every variable has its type.
TypeOK ==
    /\ dir \in Directory
    /\ durable \in Directory
    /\ written \in [Stamp -> Manifest]
    /\ txn \in 0 .. MaxTxn
    /\ pc \in Step
    /\ todo \subseteq DataName
    /\ made \subseteq DataName \cup {TMP}
    /\ retire \subseteq DataName
    /\ staged \subseteq DataName
    /\ base \in Content
    /\ acked \in 0 .. MaxTxn

\* Whatever fails and whenever the process or the machine dies, the next
\* open() finds a complete index: MANIFEST never names a file that is missing
\* or has other bytes than the manifest recorded.
CrashSafe ==
    /\ Opens(dir)
    /\ \A d \in Outcomes : Opens(Settle(d))

\* A commit that reported success with its directory synced is never undone:
\* no power loss brings back an older manifest, or none.
AckedSurvives == \A d \in Outcomes : d[MANIFEST].stamp >= acked

\* An error means that nothing changed: on the error path MANIFEST is still
\* the one the transaction found, and what is about to be removed does not
\* belong to it.
ErrorChangesNothing ==
    pc = "cleanup" => /\ dir[MANIFEST] = base
                      /\ made \cap referenced_files(current) = {}

\* Committed files are never rewritten in place: a transaction only writes
\* names that the manifest in force does not reference.
FreshNames == todo \cap referenced_files(current) = {}

\* The index as the abstract specification sees it: the number of the commit
\* that an open finds in d, and no number at all when the open would fail.
VisibleIn(d) == IF Opens(d) THEN d[MANIFEST].stamp ELSE -1

seen == VisibleIn(dir)
kept == VisibleIn(durable)

Promise == INSTANCE AtomicIndex WITH visible <- seen, stable <- kept

\* The files, renames and syncs implement the atomic register: every step is a
\* commit, a hardening, a power loss or invisible.
ImplementsAtomicIndex == Promise!Spec

-----------------------------------------------------------------------------
(* The inductive invariant behind the properties above.                    *)

PreCommit == {"write", "sync", "rename", "sync_dir", "commit"}

\* Nothing but a temporary file is ever less than whole, and MANIFEST names
\* a transaction that has started.
Solid(d) ==
    /\ \A n \in Name \ {TMP} : d[n].state \in {"absent", "whole"}
    /\ d[MANIFEST].state = "whole" => d[MANIFEST].stamp \in 1 .. txn
    /\ acked <= d[MANIFEST].stamp /\ d[MANIFEST].stamp <= txn
    /\ Opens(d)

\* Before the commit point the plan's files are there or still to be written,
\* and nothing that will be written or unlinked is in use.
Preparing ==
    /\ txn >= 1
    /\ dir[MANIFEST] = base /\ base.stamp < txn
    /\ \A n \in referenced_files(plan) :
          n \in todo \/ (Readable(dir[n]) /\ dir[n].stamp = plan.crc[n])
    /\ \A n \in todo : plan.crc[n] = txn
    /\ made \cap referenced_files(current) = {}
    /\ retire \cap referenced_files(plan) = {}
    /\ pc = "sync" => dir[TMP] = Dirty(txn)
    /\ pc \in {"rename", "commit"} => dir[TMP] = Whole(txn)
    /\ pc = "rename" => todo # {}
    /\ pc \in {"sync_dir", "commit"} => todo = {}

IInv ==
    /\ TypeOK
    /\ acked <= txn
    /\ \A t \in Stamp : WellFormed(written[t])
    /\ Solid(dir)
    /\ Solid(durable)
    /\ pc \in PreCommit => Preparing
    /\ pc = "cleanup" => /\ dir[MANIFEST] = base
                         /\ made \cap referenced_files(current) = {}
    /\ pc \in {"harden", "retire"} => /\ txn >= 1
                                     /\ dir[MANIFEST] = Whole(txn)
                                     /\ retire \cap referenced_files(plan) = {}
    /\ FreshNames

=============================================================================
