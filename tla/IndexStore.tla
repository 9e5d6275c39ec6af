----------------------------- MODULE IndexStore -----------------------------
(***************************************************************************)
(* Several processes on one index: writers that take LOCK, commit and      *)
(* unlink what they replaced, and readers that open the index without it   *)
(* (src/store/reader.rs open and open_once, src/store/writer.rs take_lock  *)
(* and commit, src/store/update.rs, src/store/merge.rs commit_merges).     *)
(*                                                                         *)
(* Only what processes see of each other matters here: the machine does    *)
(* not lose power and every rename is durable (CommitProtocol has both).   *)
(* dir[n] is the number of the transaction that wrote n, 0 when there is   *)
(* no n.  LOCK is an advisory file lock: the kernel drops it when its      *)
(* holder dies.                                                            *)
(***************************************************************************)
EXTENDS IndexLayout, FiniteSets

CONSTANTS Proc,         \* the processes; each may open or change the index
          Nobody,       \* the value of lock when LOCK is free
          MaxAttempts   \* MAX_ATTEMPTS of open (20 in the code)

ASSUME ProcessAssumption ==
    /\ Nobody \notin Proc
    /\ MaxAttempts \in Nat \ {0}

VARIABLES dir,       \* [Name -> 0 .. MaxTxn]
          written,   \* [Stamp -> Manifest]: the manifest each transaction commits
          txn,       \* number of transactions started
          lock,      \* who holds LOCK
          pc,        \* the next step of each process
          op,        \* the operation each process is in
          view,      \* the MANIFEST each process has read (a transaction number)
          unread,    \* files of view that are still to be opened
          attempts,  \* attempts of open that ended in Vanished
          sources,   \* segments a prepared merge is made of
          mine,      \* the transaction each writer is committing
          todo,      \* data files it has still to put in place
          retire     \* files it has still to unlink

store == <<dir, written, txn>>
locals == <<op, view, unread, attempts, sources>>
commits == <<mine, todo, retire>>
vars == <<store, lock, pc, locals, commits>>

ManifestOf(t) == IF t = 0 THEN NoManifest ELSE written[t]
current == ManifestOf(dir[MANIFEST])

\* What transaction t has already put in place.
Made(t) == {n \in DataName : written[t].crc[n] = t}

-----------------------------------------------------------------------------
\* Everyone is idle; the index is what transaction t has committed, or none.
StartsWith(manifests, t, started) ==
    /\ written = manifests
    /\ dir = [n \in Name |-> IF n = MANIFEST THEN t
                             ELSE IF n \in referenced_files(ManifestOf(t)) THEN ManifestOf(t).crc[n]
                             ELSE 0]
    /\ txn = started
    /\ lock = Nobody
    /\ pc = [p \in Proc |-> "idle"]
    /\ op = [p \in Proc |-> "open"]
    /\ view = [p \in Proc |-> 0]
    /\ unread = [p \in Proc |-> {}]
    /\ attempts = [p \in Proc |-> 0]
    /\ sources = [p \in Proc |-> {}]
    /\ mine = [p \in Proc |-> 0]
    /\ todo = [p \in Proc |-> {}]
    /\ retire = [p \in Proc |-> {}]

Init == StartsWith([t \in Stamp |-> NoManifest], 0, 0)

Goto(p, label) == pc' = [pc EXCEPT ![p] = label]

\* The operation of p is over and what it had in memory gone.  result is
\* "idle", or how an open failed.
Return(p, result) ==
    /\ Goto(p, result)
    /\ unread' = [unread EXCEPT ![p] = {}]
    /\ attempts' = [attempts EXCEPT ![p] = 0]
    /\ view' = [view EXCEPT ![p] = 0]
    /\ op' = [op EXCEPT ![p] = "open"]
    /\ sources' = [sources EXCEPT ![p] = {}]

Release(p) == lock' = IF lock = p THEN Nobody ELSE lock
Forget(p) ==
    /\ mine' = [mine EXCEPT ![p] = 0]
    /\ todo' = [todo EXCEPT ![p] = {}]
    /\ retire' = [retire EXCEPT ![p] = {}]

\* A transaction that never reached the commit point: nothing will ever read
\* its manifest.
Abandon(p) ==
    /\ written' = IF mine[p] > 0 /\ dir[MANIFEST] # mine[p]
                  THEN [written EXCEPT ![mine[p]] = NoManifest]
                  ELSE written
    /\ Forget(p)

Remove(gone) == dir' = [n \in Name |-> IF n \in gone THEN 0 ELSE dir[n]]

-----------------------------------------------------------------------------
(* open(): lock probe, manifest, sweep, files.                             *)

Resting == {"idle", "gave_up", "corrupt"}

StartOpen(p) ==
    /\ pc[p] \in Resting
    /\ Goto(p, "probe")
    /\ UNCHANGED <<store, lock, op, view, unread, attempts, sources, commits>>

\* Mutant: the lock is dropped as soon as it is taken (`let _ = lock()`).
ProbeLockDropped(p) ==
    /\ pc[p] = "probe"
    /\ Goto(p, IF lock = Nobody THEN "read_locked" ELSE "read")
    /\ UNCHANGED <<store, lock, locals, commits>>

\* One non-blocking attempt at LOCK, before MANIFEST is read.
ProbeLock(p) ==
    /\ pc[p] = "probe"
    /\ \/ lock = Nobody /\ lock' = p /\ Goto(p, "read_locked")
       \/ lock # Nobody /\ UNCHANGED lock /\ Goto(p, "read")
    /\ UNCHANGED <<store, locals, commits>>

\* No MANIFEST: Ok(None), and the probe's lock is dropped with the call.
NoIndex(p) ==
    /\ pc[p] \in {"read", "read_locked"}
    /\ dir[MANIFEST] = 0
    /\ Release(p)
    /\ Return(p, "idle")
    /\ UNCHANGED <<store, commits>>

\* Mutant: the sweep runs whether or not the lock was free.
ReadManifestAndSweep(p) ==
    /\ pc[p] \in {"read", "read_locked"}
    /\ dir[MANIFEST] # 0
    /\ view' = [view EXCEPT ![p] = dir[MANIFEST]]
    /\ unread' = [unread EXCEPT ![p] = referenced_files(current)]
    /\ Goto(p, "sweep")
    /\ UNCHANGED <<store, lock, op, attempts, sources, commits>>

ReadManifest(p) ==
    /\ pc[p] \in {"read", "read_locked"}
    /\ dir[MANIFEST] # 0
    /\ view' = [view EXCEPT ![p] = dir[MANIFEST]]
    /\ unread' = [unread EXCEPT ![p] = referenced_files(current)]
    /\ Goto(p, IF pc[p] = "read" THEN "files" ELSE "sweep")
    /\ UNCHANGED <<store, lock, op, attempts, sources, commits>>

\* Remove every cleanable file the manifest does not reference, best effort,
\* and drop the lock.  One step: nobody else changes the directory while LOCK
\* is held, and what another open sees in the middle of a sweep it also sees
\* after one in which the later removals failed.
Orphans(m) == {n \in Name : is_cleanable(n) /\ n \notin referenced_files(m) /\ dir[n] # 0}
Sweep(p) ==
    /\ pc[p] = "sweep"
    /\ \E gone \in SUBSET Orphans(ManifestOf(view[p])) : Remove(gone)
    /\ Release(p)
    /\ Goto(p, "files")
    /\ UNCHANGED <<written, txn, locals, commits>>

\* Files are opened segment by segment: .idx, .doc, .del; the overlay last.
OpenRank(n) == IF n[1] = "ovl" THEN 3 * MaxSeg
               ELSE 3 * n[2] + (CASE n[1] = "idx" -> 0 [] n[1] = "doc" -> 1 [] OTHER -> 2)
NextFile(p, n) ==
    /\ pc[p] = "files"
    /\ n \in unread[p]
    /\ \A other \in unread[p] : OpenRank(n) <= OpenRank(other)

\* The file has the length and the checksum of the manifest; once mapped, its
\* removal does not disturb the reader.
OpenFile(p) ==
    /\ \E n \in unread[p] :
          /\ NextFile(p, n)
          /\ dir[n] = ManifestOf(view[p]).crc[n]
          /\ unread' = [unread EXCEPT ![p] = @ \ {n}]
    /\ UNCHANGED <<store, lock, pc, op, view, attempts, sources, commits>>

\* NotFound: start over from the lock probe, or give up.
Vanished(p) ==
    /\ \E n \in unread[p] : NextFile(p, n) /\ dir[n] = 0
    /\ IF attempts[p] + 1 < MaxAttempts
       THEN /\ attempts' = [attempts EXCEPT ![p] = @ + 1]
            /\ unread' = [unread EXCEPT ![p] = {}]
            /\ view' = [view EXCEPT ![p] = 0]
            /\ Goto(p, "probe")
            /\ UNCHANGED <<op, sources>>
       ELSE Return(p, "gave_up")
    /\ UNCHANGED <<store, lock, commits>>

\* The file is there with other bytes: Error::Corrupt at once.
Mismatch(p) ==
    /\ \E n \in unread[p] :
          /\ NextFile(p, n)
          /\ dir[n] \notin {0, ManifestOf(view[p]).crc[n]}
    /\ Return(p, "corrupt")
    /\ UNCHANGED <<store, lock, commits>>

\* Every file is open.  merge_index goes on to prepare_merge with this index.
Opened(p) ==
    /\ pc[p] = "files"
    /\ unread[p] = {}
    /\ op[p] # "merge"
    /\ Return(p, "idle")
    /\ UNCHANGED <<store, lock, commits>>

-----------------------------------------------------------------------------
(* Writers.                                                                *)

Start(p, name, label) ==
    /\ pc[p] \in Resting
    /\ txn < MaxTxn
    /\ op' = [op EXCEPT ![p] = name]
    /\ Goto(p, label)
    /\ UNCHANGED <<store, lock, view, unread, attempts, sources, commits>>

StartBuild(p) == Start(p, "build", "take_lock")
StartUpdate(p) == Start(p, "update", "take_lock_to_probe")
StartMerge(p) == Start(p, "merge", "probe")

\* Mutant: a lock that is held is taken for an error to be ignored.
TakeLockAnyway(p) ==
    /\ pc[p] \in {"take_lock", "take_lock_to_probe"}
    /\ lock' = IF lock = Nobody THEN p ELSE lock
    /\ Goto(p, IF pc[p] = "take_lock" THEN "plan" ELSE "baseline")
    /\ UNCHANGED <<store, locals, commits>>

\* take_lock: polled until it is free ...
TakeLock(p) ==
    /\ pc[p] \in {"take_lock", "take_lock_to_probe"}
    /\ lock = Nobody
    /\ lock' = p
    /\ Goto(p, IF pc[p] = "take_lock" THEN "plan" ELSE "baseline")
    /\ UNCHANGED <<store, locals, commits>>

\* ... or until 500 ms are over: Error::Locked.
LockTimeout(p) ==
    /\ pc[p] \in {"take_lock", "take_lock_to_probe"}
    /\ lock # Nobody
    /\ Return(p, "idle")
    /\ UNCHANGED <<store, lock, commits>>

\* update_index asks under the lock whether there is an index, drops the lock
\* and takes it again: without an index it is a build_index.
Baseline(p) ==
    /\ pc[p] = "baseline"
    /\ op' = [op EXCEPT ![p] = IF dir[MANIFEST] = 0 THEN "build" ELSE "update"]
    /\ Release(p)
    /\ Goto(p, "take_lock")
    /\ UNCHANGED <<store, view, unread, attempts, sources, commits>>

\* prepare_merge: some segments of the index as it was opened, read without
\* any lock; the merged files go to the staging directory, which no sweep
\* looks at.
PrepareMerge(p) ==
    /\ pc[p] = "files"
    /\ unread[p] = {}
    /\ op[p] = "merge"
    /\ \/ \E group \in SUBSET ManifestOf(view[p]).segments \ {{}} :
             /\ sources' = [sources EXCEPT ![p] = group]
             /\ attempts' = [attempts EXCEPT ![p] = 0]
             /\ Goto(p, "take_lock")
             /\ UNCHANGED <<op, view, unread>>
       \/ Return(p, "idle")   \* plan_merges has nothing to merge
    /\ UNCHANGED <<store, lock, commits>>

\* The index is opened again under the lock (no sweep: the lock probe of that
\* open is refused) and the transaction decided on; the lock is kept until the
\* operation ends, and an open of the committed index concludes it.
Commit(p, tr) ==
    /\ txn < MaxTxn
    /\ txn' = txn + 1
    /\ written' = [written EXCEPT ![txn + 1] = tr.manifest]
    /\ mine' = [mine EXCEPT ![p] = txn + 1]
    /\ todo' = [todo EXCEPT ![p] = tr.writes]
    /\ retire' = [retire EXCEPT ![p] = tr.retires]
    /\ op' = [op EXCEPT ![p] = "open"]
    /\ view' = [view EXCEPT ![p] = 0]
    /\ sources' = [sources EXCEPT ![p] = {}]
    /\ Goto(p, "write")
    /\ UNCHANGED <<dir, lock, unread, attempts>>

PlanBuild(p) ==
    /\ pc[p] = "plan"
    /\ op[p] = "build"
    /\ \E k \in 0 .. MaxNew :
          /\ current.next_segment_id + k <= MaxSeg
          /\ Commit(p, Build(current, k, txn + 1))

PlanUpdate(p) ==
    /\ pc[p] = "plan"
    /\ op[p] = "update"
    /\ \E k \in 0 .. MaxNew, dead \in SUBSET current.segments, patched \in BOOLEAN :
          /\ k > 0 \/ dead # {} \/ patched
          /\ current.next_segment_id + k <= MaxSeg
          /\ \A s \in dead : current.del_gen[s] < MaxGen
          /\ \E gen \in OverlayGens(current, patched, dead) :
                /\ gen <= MaxGen
                /\ Commit(p, Update(current, k, dead, gen, txn + 1))

PlanMerge(p) ==
    /\ pc[p] = "plan"
    /\ op[p] = "merge"
    /\ sources[p] \subseteq current.segments
    /\ current.next_segment_id < MaxSeg
    /\ \E carry \in BOOLEAN :
          /\ carry => \E s \in sources[p] :
                         current.del_gen[s] # ManifestOf(view[p]).del_gen[s]
          /\ Commit(p, Merge(current, sources[p], carry, txn + 1))

\* update_index finds nothing to do, or commit_merges finds a source gone; an
\* operation the bounds have no room for ends here as well.
NothingToCommit(p) ==
    /\ pc[p] = "plan"
    /\ Release(p)
    /\ Return(p, "idle")
    /\ UNCHANGED <<store, commits>>

\* Mutant: what the transaction replaces is unlinked before the commit point.
WriteFileAndRetire(p) ==
    /\ pc[p] = "write"
    /\ \E n \in todo[p] :
          /\ \A other \in todo[p] : Rank(n) <= Rank(other)
          /\ dir' = [x \in Name |-> IF x = n THEN mine[p]
                                    ELSE IF x \in retire[p] THEN 0 ELSE dir[x]]
          /\ todo' = [todo EXCEPT ![p] = @ \ {n}]
    /\ UNCHANGED <<written, txn, lock, pc, locals, mine, retire>>

\* Put one file in place: written and renamed, or renamed out of staging.
WriteFile(p) ==
    /\ pc[p] = "write"
    /\ \E n \in todo[p] :
          /\ \A other \in todo[p] : Rank(n) <= Rank(other)
          /\ dir' = [dir EXCEPT ![n] = mine[p]]
          /\ todo' = [todo EXCEPT ![p] = @ \ {n}]
    /\ UNCHANGED <<written, txn, lock, pc, locals, mine, retire>>

\* The commit point: MANIFEST.tmp becomes MANIFEST.
RenameManifest(p) ==
    /\ pc[p] = "write"
    /\ todo[p] = {}
    /\ dir' = [dir EXCEPT ![MANIFEST] = mine[p]]
    /\ Goto(p, "retire")
    /\ UNCHANGED <<written, txn, lock, locals, commits>>

\* Unlink the next replaced file, in the order of Index::files; when that fails it is left for a later sweep.
RetireFile(p) ==
    /\ pc[p] = "retire"
    /\ \E n \in retire[p] :
          /\ \A other \in retire[p] : OpenRank(n) <= OpenRank(other)
          /\ retire' = [retire EXCEPT ![p] = @ \ {n}]
          /\ dir' \in {dir, [dir EXCEPT ![n] = 0]}
    /\ UNCHANGED <<written, txn, lock, pc, locals, mine, todo>>

\* The lock is dropped and the committed index opened.
Unlock(p) ==
    /\ pc[p] = "retire"
    /\ retire[p] = {}
    /\ Release(p)
    /\ Goto(p, "probe")
    /\ Forget(p)
    /\ UNCHANGED <<store, locals>>

\* A system call before the commit point fails: what was put in place is
\* removed, best effort, and then the lock dropped.
Fail(p) ==
    /\ pc[p] = "write"
    /\ \E gone \in SUBSET (Made(mine[p]) \ todo[p]) : Remove(gone)
    /\ Release(p)
    /\ Return(p, "idle")
    /\ Abandon(p)
    /\ UNCHANGED txn

\* kill -9 of the process that holds LOCK: the kernel releases it, the
\* directory stays as it is.  (Killed without it, a process leaves nothing
\* behind that others could see.)
Kill(p) ==
    /\ lock = p
    /\ Release(p)
    /\ Return(p, "idle")
    /\ Abandon(p)
    /\ UNCHANGED <<dir, txn>>

Open(p) ==
    \/ StartOpen(p) \/ ProbeLock(p) \/ NoIndex(p) \/ ReadManifest(p) \/ Sweep(p)
    \/ OpenFile(p) \/ Vanished(p) \/ Mismatch(p) \/ Opened(p)
Write(p) ==
    \/ StartBuild(p) \/ StartUpdate(p) \/ StartMerge(p)
    \/ TakeLock(p) \/ LockTimeout(p) \/ Baseline(p) \/ PrepareMerge(p)
    \/ PlanBuild(p) \/ PlanUpdate(p) \/ PlanMerge(p) \/ NothingToCommit(p)
    \/ WriteFile(p) \/ RenameManifest(p) \/ RetireFile(p) \/ Unlock(p)
    \/ Fail(p)

Next == \E p \in Proc : Open(p) \/ Write(p) \/ Kill(p)

Spec == Init /\ [][Next]_vars

-----------------------------------------------------------------------------
Label == Resting \cup
         {"probe", "read", "read_locked", "sweep", "files", "take_lock",
          "take_lock_to_probe", "baseline", "plan", "write", "retire"}
Operation == {"open", "build", "update", "merge"}

\* Every variable has its type; in particular an open makes a bounded number
\* of attempts.
TypeOK ==
    /\ dir \in [Name -> 0 .. MaxTxn]
    /\ written \in [Stamp -> Manifest]
    /\ txn \in 0 .. MaxTxn
    /\ lock \in Proc \cup {Nobody}
    /\ pc \in [Proc -> Label]
    /\ op \in [Proc -> Operation]
    /\ view \in [Proc -> 0 .. MaxTxn]
    /\ unread \in [Proc -> SUBSET DataName]
    /\ attempts \in [Proc -> 0 .. (MaxAttempts - 1)]
    /\ sources \in [Proc -> SUBSET SegId]
    /\ mine \in [Proc -> 0 .. MaxTxn]
    /\ todo \in [Proc -> SUBSET DataName]
    /\ retire \in [Proc -> SUBSET DataName]

\* The index in force is never missing a file: no sweep removes, and no writer
\* overwrites, a file that MANIFEST references, however the opens of other
\* processes interleave with the commit.
IndexComplete ==
    \A n \in referenced_files(current) : dir[n] = current.crc[n]

\* No sweep removes what a writer has put in place and not yet committed.
UncommittedKept ==
    \A p \in Proc : pc[p] = "write" =>
        \A n \in Made(mine[p]) \ todo[p] : dir[n] = mine[p]

\* A commit is made on top of the manifest in force: no commit of another
\* writer is lost.
NoLostCommit ==
    [][dir'[MANIFEST] # dir[MANIFEST] =>
          ManifestOf(dir[MANIFEST]).generation + 1 = written'[dir'[MANIFEST]].generation]_vars

\* An open only has to start over, or to give up, because a commit overtook it:
\* the manifest in force, which a retry reads, is a later one than it had.
RetrySeesProgress ==
    [][\A p \in Proc : Vanished(p) \/ Mismatch(p) => dir[MANIFEST] > view[p]]_vars

\* A segment's files are immutable: an open that works from an old manifest
\* finds either the very file that manifest committed or none.
SegmentsImmutable ==
    \A p \in Proc : \A n \in unread[p] :
        n[1] # "ovl" => dir[n] \in {0, ManifestOf(view[p]).crc[n]}

-----------------------------------------------------------------------------
(* What all of this amounts to.  The index others see is made of the files *)
(* that the manifest in force references, as they are in the directory.    *)
Inside == {"read_locked", "sweep", "baseline", "plan", "write", "retire"}
Opening == {"sweep", "files"}

files == [n \in DataName |-> IF n \in referenced_files(current) THEN dir[n] ELSE 0]
inside == {p \in Proc : pc[p] \in Inside}
seen == [p \in Proc |-> IF pc[p] \in Opening THEN view[p] ELSE 0]
failed == [p \in Proc |-> pc[p] \in {"gave_up", "corrupt"}]

Shared == INSTANCE SharedIndex WITH
    File <- DataName,
    number <- dir[MANIFEST],
    generation <- current.generation,
    rest <- unread,
    tries <- attempts

\* Every system call of an open, a sweep or a commit, whatever other processes
\* do in between, is a step of an index that changes all at once, or of an
\* open of it, or cannot be seen by anybody.
ImplementsSharedIndex == Shared!Spec

\* What a manifest references and is no longer there surfaces as Vanished,
\* never as Corrupt.
StaleIsVanished == \A p \in Proc : pc[p] # "corrupt"

=============================================================================
