-------------------------- MODULE IndexStoreProofs --------------------------
(***************************************************************************)
(* Proofs about IndexStore, for any number of processes, segments,         *)
(* generations and transactions: the index in force is never missing a     *)
(* file, no sweep takes what is not yet committed, no commit is lost, and  *)
(* a reader that works from an old manifest finds its segments or nothing. *)
(***************************************************************************)
EXTENDS IndexStore, IndexLayoutProofs

-----------------------------------------------------------------------------
(* The inductive invariant.                                                *)

\* LOCK is held from the step that takes it to the step that drops it, and by
\* nobody else; the commit of a writer is all it keeps in memory.
Committing == {"write", "retire"}
LockHeld ==
    \A p \in Proc : /\ pc[p] \in Inside <=> lock = p
                    /\ mine[p] > 0 => pc[p] \in Committing

\* The manifest of the transaction under way.
plan == written[txn]

\* A manifest is well formed and expects of its files what was written up to
\* its own transaction; one that was abandoned is forgotten.
Manifests ==
    /\ \A t \in Stamp :
          /\ WellFormed(written[t])
          /\ \A n \in DataName : written[t].crc[n] <= t
          /\ \A n \in referenced_files(written[t]) : written[t].crc[n] > 0
          /\ t <= dir[MANIFEST] \/ written[t] = NoManifest \/ \E p \in Proc : mine[p] = t
    /\ dir[MANIFEST] <= txn

\* Every manifest that was ever in force is an ancestor of the one that is,
\* and its segment files have not been written again.
Lineage ==
    \A t \in Stamp : t <= dir[MANIFEST] =>
        /\ Descends(written[t], current)
        /\ \A n \in referenced_files(written[t]) :
              n[1] # "ovl" => dir[n] \in {0, written[t].crc[n]}

\* A reader works from a manifest that was in force, a sweep from the one that
\* still is.
Readers ==
    \A p \in Proc :
        /\ view[p] <= dir[MANIFEST]
        /\ unread[p] \subseteq referenced_files(ManifestOf(view[p]))
        /\ pc[p] \notin {"sweep", "files"} => unread[p] = {}
        /\ pc[p] = "sweep" => view[p] = dir[MANIFEST]

\* Before the commit point: the plan is a safe transaction on top of what is
\* in force, and the files still to be written are its own.
Writing ==
    \A p \in Proc : pc[p] = "write" =>
        /\ mine[p] = txn /\ dir[MANIFEST] < txn
        /\ SafeTransaction(current, Transaction(plan, Made(txn), retire[p]), txn)
        /\ Succeeds(current, plan, Made(txn))
        /\ todo[p] \subseteq Made(txn)

\* After it: what is still to be unlinked is not in use.
Retiring ==
    \A p \in Proc : pc[p] = "retire" =>
        /\ mine[p] = dir[MANIFEST]
        /\ retire[p] \cap referenced_files(current) = {}

IInv == /\ TypeOK /\ LockHeld /\ Manifests /\ IndexComplete /\ Lineage
        /\ Readers /\ Writing /\ UncommittedKept /\ Retiring

-----------------------------------------------------------------------------
(* Facts about the state.                                                  *)

\* Whatever a process has read as its manifest, it is a manifest.
LEMMA ManifestFacts ==
    ASSUME TypeOK, Manifests, NEW t \in 0 .. MaxTxn
    PROVE  /\ WellFormed(ManifestOf(t))
           /\ referenced_files(ManifestOf(t)) \subseteq DataName
           /\ \A n \in DataName : ManifestOf(t).crc[n] \in 0 .. t
           /\ \A n \in referenced_files(ManifestOf(t)) : ManifestOf(t).crc[n] > 0
<1>1. CASE t = 0
  <2>1. ManifestOf(t) = NoManifest
    BY <1>1 DEF ManifestOf
  <2>2. \A n \in DataName : NoManifest.crc[n] = 0
    BY DEF NoManifest
  <2> QED
    BY <1>1, <2>1, <2>2, NoManifestFacts
<1>2. CASE t # 0
  <2>1. t \in Stamp /\ ManifestOf(t) = written[t]
    BY <1>2, BoundsAssumption DEF ManifestOf, Stamp
  <2>2. WellFormed(written[t]) /\ written[t] \in Manifest
    BY <2>1 DEF Manifests, WellFormed
  <2>3. \A n \in DataName : written[t].crc[n] \in 0 .. MaxTxn
    BY <2>2 DEF Manifest
  <2>4. \A n \in DataName : written[t].crc[n] \in 0 .. t
    BY <2>1, <2>3, BoundsAssumption DEF Manifests
  <2> QED
    BY <2>1, <2>2, <2>4, ReferencedTyping DEF Manifests
<1> QED
  BY <1>1, <1>2

\* The manifest in force.
LEMMA CurrentFacts ==
    ASSUME IInv
    PROVE  /\ dir[MANIFEST] \in 0 .. MaxTxn /\ dir[MANIFEST] \in Nat /\ txn \in Nat
           /\ dir[MANIFEST] <= txn
           /\ WellFormed(current)
           /\ referenced_files(current) \subseteq DataName
           /\ MANIFEST \notin referenced_files(current)
           /\ \A n \in DataName : current.crc[n] \in 0 .. dir[MANIFEST]
           /\ \A n \in referenced_files(current) : current.crc[n] > 0
<1>1. dir[MANIFEST] \in 0 .. MaxTxn /\ txn \in 0 .. MaxTxn
  BY DataNames DEF IInv, TypeOK
<1>2. dir[MANIFEST] <= txn
  BY DEF IInv, Manifests
<1> QED
  BY <1>1, <1>2, ManifestFacts, DataNames, BoundsAssumption DEF IInv, current

\* At most one process has LOCK, so at most one is committing.
LEMMA OneHolder ==
    ASSUME LockHeld, NEW p \in Proc, lock = p \/ pc[p] \in Inside
    PROVE  /\ lock = p /\ pc[p] \in Inside
           /\ \A q \in Proc : q # p => pc[q] \notin Inside
BY DEF LockHeld

\* Nothing is a commit point but the rename of MANIFEST: an action that leaves
\* the directory and the commit under way alone, of a process outside its own
\* commit, preserves the invariant if the process keeps its part of it.
LEMMA Local ==
    ASSUME IInv, TypeOK', UNCHANGED <<store, commits>>,
           NEW p \in Proc, NEW label \in Label \ Committing,
           pc[p] \notin Committing, pc' = [pc EXCEPT ![p] = label],
           lock' = p <=> label \in Inside,
           \A q \in Proc \ {p} : /\ lock' = q <=> lock = q
                                 /\ view'[q] = view[q] /\ unread'[q] = unread[q],
           view'[p] <= dir[MANIFEST],
           unread'[p] \subseteq referenced_files(ManifestOf(view'[p])),
           label \notin {"sweep", "files"} => unread'[p] = {},
           label = "sweep" => view'[p] = dir[MANIFEST]
    PROVE  IInv'
<1>1. /\ dir' = dir /\ written' = written /\ txn' = txn
      /\ mine' = mine /\ todo' = todo /\ retire' = retire
      /\ current' = current /\ plan' = plan
  BY DEF store, commits, current, ManifestOf, plan
<1>2. /\ pc'[p] = label
      /\ \A q \in Proc \ {p} : pc'[q] = pc[q]
      /\ \A q \in Proc : pc'[q] \in Committing => pc[q] = pc'[q]
  BY DEF IInv, TypeOK, Committing
<1>3. \A t : ManifestOf(t)' = ManifestOf(t) /\ Made(t)' = Made(t)
  BY <1>1 DEF ManifestOf, Made
<1>4. LockHeld'
  <2> SUFFICES ASSUME NEW q \in Proc
               PROVE  /\ pc'[q] \in Inside <=> lock' = q
                      /\ mine'[q] > 0 => pc'[q] \in Committing
    BY DEF LockHeld
  <2>1. CASE q = p
    BY <1>1, <1>2, <2>1 DEF IInv, LockHeld
  <2>2. CASE q # p
    BY <1>1, <1>2, <2>2 DEF IInv, LockHeld
  <2> QED
    BY <2>1, <2>2
<1>5. Manifests' /\ IndexComplete' /\ Lineage'
  BY <1>1 DEF IInv, Manifests, IndexComplete, Lineage
<1>6. Readers'
  <2> SUFFICES ASSUME NEW q \in Proc
               PROVE  /\ view'[q] <= dir[MANIFEST]
                      /\ unread'[q] \subseteq referenced_files(ManifestOf(view'[q]))
                      /\ pc'[q] \notin {"sweep", "files"} => unread'[q] = {}
                      /\ pc'[q] = "sweep" => view'[q] = dir[MANIFEST]
    BY <1>1 DEF Readers, ManifestOf
  <2>1. CASE q = p
    BY <1>2, <2>1
  <2>2. CASE q # p
    BY <1>2, <2>2 DEF IInv, Readers
  <2> QED
    BY <2>1, <2>2
<1>7. Writing'
  BY <1>1, <1>2, <1>3 DEF IInv, Writing, Committing
<1>8. UncommittedKept'
  BY <1>1, <1>2, <1>3 DEF IInv, UncommittedKept, Committing
<1>9. Retiring'
  BY <1>1, <1>2 DEF IInv, Retiring, Committing
<1> QED
  BY <1>4, <1>5, <1>6, <1>7, <1>8, <1>9 DEF IInv

\* The end of an operation, with or without LOCK.
LEMMA Returned ==
    ASSUME IInv, NEW p \in Proc, NEW result \in Resting, pc[p] \notin Committing,
           Return(p, result), UNCHANGED <<store, commits>>,
           Release(p) \/ (UNCHANGED lock /\ lock # p)
    PROVE  IInv'
<1>1. /\ pc' = [pc EXCEPT ![p] = result]
      /\ unread' = [unread EXCEPT ![p] = {}] /\ attempts' = [attempts EXCEPT ![p] = 0]
      /\ view' = [view EXCEPT ![p] = 0] /\ op' = [op EXCEPT ![p] = "open"]
      /\ sources' = [sources EXCEPT ![p] = {}]
  BY DEF Return, Goto
<1>2. lock' # p /\ lock' \in Proc \cup {Nobody} /\ \A q \in Proc \ {p} : lock' = q <=> lock = q
  BY ProcessAssumption DEF Release, IInv, TypeOK
<1>3. result \in Label \ Committing /\ result \notin Inside /\ result \notin {"sweep", "files"}
  BY DEF Resting, Label, Committing, Inside
<1>4. TypeOK'
  BY <1>1, <1>2, <1>3, ProcessAssumption, BoundsAssumption
  DEF IInv, TypeOK, store, commits, Operation
<1>5. /\ unread'[p] = {} /\ view'[p] = 0
      /\ \A q \in Proc \ {p} : view'[q] = view[q] /\ unread'[q] = unread[q]
  BY <1>1 DEF IInv, TypeOK
<1>6. view'[p] <= dir[MANIFEST]
  BY <1>5, CurrentFacts
<1>7. unread'[p] \subseteq referenced_files(ManifestOf(view'[p]))
  BY <1>5
<1> QED
  BY <1>1, <1>2, <1>3, <1>4, <1>5, <1>6, <1>7, Local

\* A step that only moves a process to another label, with LOCK taken, kept
\* or never had.
LEMMA Moves ==
    ASSUME IInv, NEW p \in Proc, NEW label \in Label \ (Committing \cup {"sweep"}),
           pc[p] \notin Committing \cup {"sweep", "files"}, Goto(p, label), TypeOK',
           UNCHANGED <<store, view, unread, commits>>,
           lock' = p <=> label \in Inside,
           \A q \in Proc \ {p} : lock' = q <=> lock = q
    PROVE  IInv'
<1>1. view' = view /\ unread' = unread /\ unread[p] = {} /\ view[p] <= dir[MANIFEST]
  BY DEF IInv, Readers
<1> QED
  BY <1>1, Local DEF Goto

-----------------------------------------------------------------------------
(* Opens.                                                                  *)

LEMMA StartOpenIInv ==
    ASSUME IInv, NEW p \in Proc, StartOpen(p)
    PROVE  IInv'
<1>1. pc[p] \notin Committing \cup {"sweep", "files"} /\ lock # p
  BY DEF StartOpen, Resting, Committing, Inside, IInv, LockHeld
<1>2. "probe" \in Label \ (Committing \cup {"sweep"}) /\ "probe" \notin Inside
  BY DEF Label, Committing, Inside
<1>3. TypeOK'
  BY <1>2 DEF StartOpen, Goto, IInv, TypeOK, store, commits
<1>4. Goto(p, "probe") /\ UNCHANGED <<store, view, unread, commits>> /\ lock' = lock
  BY DEF StartOpen
<1> QED
  BY <1>1, <1>2, <1>3, <1>4, Moves

LEMMA ProbeLockIInv ==
    ASSUME IInv, NEW p \in Proc, ProbeLock(p)
    PROVE  IInv'
<1>1. pc[p] \notin Committing \cup {"sweep", "files"} /\ lock # p
  BY DEF ProbeLock, Committing, Inside, IInv, LockHeld
<1>2. UNCHANGED <<store, view, unread, commits>> /\ UNCHANGED <<op, attempts, sources>>
  BY DEF ProbeLock, locals
<1>3. CASE lock = Nobody /\ lock' = p /\ Goto(p, "read_locked")
  <2>1. "read_locked" \in Label \ (Committing \cup {"sweep"}) /\ "read_locked" \in Inside
    BY DEF Label, Committing, Inside
  <2>2. TypeOK'
    BY <1>2, <1>3, <2>1 DEF Goto, IInv, TypeOK, store, commits
  <2>3. \A q \in Proc \ {p} : lock' = q <=> lock = q
    BY <1>3, ProcessAssumption
  <2> QED
    BY <1>1, <1>2, <1>3, <2>1, <2>2, <2>3, Moves
<1>4. CASE lock # Nobody /\ UNCHANGED lock /\ Goto(p, "read")
  <2>1. "read" \in Label \ (Committing \cup {"sweep"}) /\ "read" \notin Inside
    BY DEF Label, Committing, Inside
  <2>2. TypeOK'
    BY <1>2, <1>4, <2>1 DEF Goto, IInv, TypeOK, store, commits
  <2> QED
    BY <1>1, <1>2, <1>4, <2>1, <2>2, Moves
<1> QED
  BY <1>3, <1>4 DEF ProbeLock

LEMMA NoIndexIInv ==
    ASSUME IInv, NEW p \in Proc, NoIndex(p)
    PROVE  IInv'
<1>1. pc[p] \notin Committing /\ "idle" \in Resting
  BY DEF NoIndex, Committing, Resting
<1> QED
  BY <1>1, Returned DEF NoIndex

LEMMA ReadManifestIInv ==
    ASSUME IInv, NEW p \in Proc, ReadManifest(p)
    PROVE  IInv'
<1> DEFINE label == IF pc[p] = "read" THEN "files" ELSE "sweep"
<1>1. /\ pc[p] \in {"read", "read_locked"}
      /\ view' = [view EXCEPT ![p] = dir[MANIFEST]]
      /\ unread' = [unread EXCEPT ![p] = referenced_files(current)]
      /\ pc' = [pc EXCEPT ![p] = label]
      /\ UNCHANGED <<store, lock, op, attempts, sources, commits>>
  BY DEF ReadManifest, Goto
<1>2. /\ pc[p] \notin Committing
      /\ label \in Label \ Committing /\ label \in {"files", "sweep"}
      /\ lock' = p <=> label \in Inside
  BY <1>1 DEF Committing, Label, Inside, IInv, LockHeld
<1>3. TypeOK'
  BY <1>1, <1>2, CurrentFacts DEF IInv, TypeOK, store, commits
<1>4. /\ view'[p] = dir[MANIFEST] /\ unread'[p] = referenced_files(ManifestOf(view'[p]))
      /\ \A q \in Proc \ {p} : view'[q] = view[q] /\ unread'[q] = unread[q]
  BY <1>1 DEF IInv, TypeOK, current
<1> HIDE DEF label
<1>5. view'[p] <= dir[MANIFEST]
  BY <1>4, CurrentFacts
<1>6. \A q \in Proc \ {p} : lock' = q <=> lock = q
  BY <1>1
<1> QED
  BY <1>1, <1>2, <1>3, <1>4, <1>5, <1>6, Local

LEMMA OpenFileIInv ==
    ASSUME IInv, NEW p \in Proc, OpenFile(p)
    PROVE  IInv'
<1>1. PICK n \in unread[p] : NextFile(p, n) /\ unread' = [unread EXCEPT ![p] = @ \ {n}]
  BY DEF OpenFile
<1>2. pc[p] = "files" /\ UNCHANGED <<store, lock, pc, op, view, attempts, sources, commits>>
  BY <1>1 DEF NextFile, OpenFile
<1>3. /\ pc[p] \notin Committing /\ "files" \in Label \ Committing
      /\ lock # p /\ "files" \notin Inside
      /\ pc' = [pc EXCEPT ![p] = "files"]
  BY <1>2 DEF Committing, Label, Inside, IInv, LockHeld, TypeOK
<1>4. TypeOK'
  BY <1>1, <1>2 DEF IInv, TypeOK, store, commits
<1>5. /\ unread'[p] \subseteq unread[p]
      /\ \A q \in Proc \ {p} : unread'[q] = unread[q]
  BY <1>1 DEF IInv, TypeOK
<1>6. view' = view /\ view[p] <= dir[MANIFEST] /\ unread[p] \subseteq referenced_files(ManifestOf(view[p]))
  BY <1>2 DEF IInv, Readers
<1> QED
  BY <1>2, <1>3, <1>4, <1>5, <1>6, Local

LEMMA VanishedIInv ==
    ASSUME IInv, NEW p \in Proc, Vanished(p)
    PROVE  IInv'
<1>1. pc[p] = "files" /\ UNCHANGED <<store, lock, commits>>
  BY DEF Vanished, NextFile
<1>2. pc[p] \notin Committing /\ lock # p
  BY <1>1 DEF Committing, IInv, LockHeld, Inside
<1>3. CASE attempts[p] + 1 < MaxAttempts
  <2>1. /\ attempts' = [attempts EXCEPT ![p] = @ + 1]
        /\ unread' = [unread EXCEPT ![p] = {}] /\ view' = [view EXCEPT ![p] = 0]
        /\ pc' = [pc EXCEPT ![p] = "probe"]
        /\ UNCHANGED <<op, sources>>
    BY <1>3 DEF Vanished, Goto
  <2>2. "probe" \in Label \ Committing /\ "probe" \notin Inside
    BY DEF Label, Committing, Inside
  <2>3. attempts[p] + 1 \in 0 .. (MaxAttempts - 1)
    BY <1>3, ProcessAssumption DEF IInv, TypeOK
  <2>4. TypeOK'
    BY <1>1, <2>1, <2>2, <2>3, BoundsAssumption DEF IInv, TypeOK, store, commits
  <2>5. /\ view'[p] = 0 /\ unread'[p] = {}
        /\ \A q \in Proc \ {p} : view'[q] = view[q] /\ unread'[q] = unread[q]
    BY <2>1 DEF IInv, TypeOK
  <2>6. view'[p] <= dir[MANIFEST]
    BY <2>5, CurrentFacts
  <2>7. lock' = lock /\ (lock' = p <=> "probe" \in Inside)
    BY <1>1, <1>2, <2>2
  <2> QED
    BY <1>1, <1>2, <2>1, <2>2, <2>4, <2>5, <2>6, <2>7, Local
<1>4. CASE ~(attempts[p] + 1 < MaxAttempts)
  <2>1. Return(p, "gave_up") /\ "gave_up" \in Resting
    BY <1>4 DEF Vanished, Resting
  <2> QED
    BY <1>1, <1>2, <2>1, Returned
<1> QED
  BY <1>3, <1>4

LEMMA MismatchIInv ==
    ASSUME IInv, NEW p \in Proc, Mismatch(p)
    PROVE  IInv'
<1>1. /\ pc[p] = "files" /\ UNCHANGED <<store, lock, commits>>
      /\ Return(p, "corrupt") /\ "corrupt" \in Resting
  BY DEF Mismatch, NextFile, Resting
<1>2. pc[p] \notin Committing /\ lock # p
  BY <1>1 DEF Committing, IInv, LockHeld, Inside
<1> QED
  BY <1>1, <1>2, Returned

LEMMA OpenedIInv ==
    ASSUME IInv, NEW p \in Proc, Opened(p)
    PROVE  IInv'
<1>1. /\ pc[p] = "files" /\ UNCHANGED <<store, lock, commits>>
      /\ Return(p, "idle") /\ "idle" \in Resting
  BY DEF Opened, Resting
<1>2. pc[p] \notin Committing /\ lock # p
  BY <1>1 DEF Committing, IInv, LockHeld, Inside
<1> QED
  BY <1>1, <1>2, Returned

\* The sweep: nobody is committing, and the manifest it works from is the one
\* in force, so what it removes nobody needs.
LEMMA SweepIInv ==
    ASSUME IInv, NEW p \in Proc, Sweep(p)
    PROVE  IInv'
<1>1. /\ pc[p] = "sweep" /\ pc' = [pc EXCEPT ![p] = "files"]
      /\ UNCHANGED <<written, txn, op, view, unread, attempts, sources, mine, todo, retire>>
      /\ Release(p)
  BY DEF Sweep, Goto, locals, commits
<1>2. /\ lock = p /\ lock' = Nobody /\ view[p] = dir[MANIFEST]
      /\ \A q \in Proc \ {p} : pc[q] \notin Inside /\ lock' # q /\ lock # q
      /\ lock' # p
  BY <1>1, ProcessAssumption DEF IInv, LockHeld, Inside, Readers, Release
<1>3. PICK gone \in SUBSET Orphans(current) : Remove(gone)
  BY <1>2 DEF Sweep, current
<1>4. /\ dir' = [n \in Name |-> IF n \in gone THEN 0 ELSE dir[n]]
      /\ \A n \in gone : n \in DataName \cup {TMP} /\ n \notin referenced_files(current)
  BY <1>3 DEF Remove, Orphans, is_cleanable
<1>5. /\ dir'[MANIFEST] = dir[MANIFEST]
      /\ \A n \in referenced_files(current) : dir'[n] = dir[n]
      /\ \A n \in Name : dir'[n] \in {0, dir[n]}
      /\ dir' \in [Name -> 0 .. MaxTxn]
  BY <1>4, DataNames, CurrentFacts, BoundsAssumption DEF IInv, TypeOK
<1>6. current' = current /\ \A t : ManifestOf(t)' = ManifestOf(t) /\ Made(t)' = Made(t)
  BY <1>1, <1>5 DEF current, ManifestOf, Made
<1>7. /\ pc'[p] = "files" /\ \A q \in Proc : pc'[q] \notin Inside
      /\ \A q \in Proc \ {p} : pc'[q] = pc[q]
  BY <1>1, <1>2 DEF IInv, TypeOK, Inside
<1>8. TypeOK'
  <2>1. "files" \in Label
    BY DEF Label
  <2> QED
    BY <1>1, <1>2, <1>5, <2>1 DEF IInv, TypeOK
<1>9. LockHeld'
  <2>1. \A q \in Proc : mine[q] > 0 => q # p /\ pc[q] \in Committing
    BY <1>1 DEF IInv, LockHeld, Committing
  <2> QED
    BY <1>1, <1>2, <1>7, <2>1 DEF LockHeld
<1>10. Manifests' /\ IndexComplete'
  BY <1>1, <1>5, <1>6 DEF IInv, Manifests, IndexComplete
<1>11. Lineage'
  <2> SUFFICES ASSUME NEW t \in Stamp, t <= dir[MANIFEST]
               PROVE  /\ Descends(written[t], current)
                      /\ \A n \in referenced_files(written[t]) :
                            n[1] # "ovl" => dir'[n] \in {0, written[t].crc[n]}
    BY <1>1, <1>5, <1>6 DEF Lineage
  <2>1. referenced_files(written[t]) \subseteq Name
    BY ReferencedTyping, DataNames DEF IInv, Manifests, WellFormed
  <2> QED
    BY <1>5, <2>1 DEF IInv, Lineage
<1>12. Readers'
  <2> SUFFICES ASSUME NEW q \in Proc
               PROVE  /\ view[q] <= dir[MANIFEST]
                      /\ unread[q] \subseteq referenced_files(ManifestOf(view[q]))
                      /\ pc'[q] \notin {"sweep", "files"} => unread[q] = {}
                      /\ pc'[q] = "sweep" => view[q] = dir[MANIFEST]
    BY <1>1, <1>5, <1>6 DEF Readers, ManifestOf
  <2> QED
    BY <1>7 DEF IInv, Readers, Inside
<1>13. Writing' /\ UncommittedKept' /\ Retiring'
  BY <1>7 DEF Writing, UncommittedKept, Retiring, Inside
<1> QED
  BY <1>8, <1>9, <1>10, <1>11, <1>12, <1>13 DEF IInv

-----------------------------------------------------------------------------
(* Writers, up to their plan.                                              *)

LEMMA StartIInv ==
    ASSUME IInv, NEW p \in Proc, NEW name \in Operation,
           NEW label \in {"take_lock", "take_lock_to_probe", "probe"}, Start(p, name, label)
    PROVE  IInv'
<1>1. pc[p] \notin Committing \cup {"sweep", "files"} /\ lock # p
  BY DEF Start, Resting, Committing, Inside, IInv, LockHeld
<1>2. label \in Label \ (Committing \cup {"sweep"}) /\ label \notin Inside
  BY DEF Label, Committing, Inside
<1>3. TypeOK'
  BY <1>2 DEF Start, Goto, IInv, TypeOK, store, commits
<1>4. Goto(p, label) /\ UNCHANGED <<store, view, unread, commits>> /\ lock' = lock
  BY DEF Start
<1> QED
  BY <1>1, <1>2, <1>3, <1>4, Moves

LEMMA TakeLockIInv ==
    ASSUME IInv, NEW p \in Proc, TakeLock(p)
    PROVE  IInv'
<1> DEFINE label == IF pc[p] = "take_lock" THEN "plan" ELSE "baseline"
<1>1. /\ pc[p] \notin Committing \cup {"sweep", "files"}
      /\ lock = Nobody /\ lock' = p /\ Goto(p, label)
      /\ UNCHANGED <<store, view, unread, commits>> /\ UNCHANGED <<op, attempts, sources>>
  BY DEF TakeLock, Committing, locals
<1>2. label \in Label \ (Committing \cup {"sweep"}) /\ label \in Inside
  BY DEF Label, Committing, Inside
<1>3. TypeOK'
  BY <1>1, <1>2 DEF Goto, IInv, TypeOK, store, commits
<1>4. \A q \in Proc \ {p} : lock' = q <=> lock = q
  BY <1>1, ProcessAssumption
<1> HIDE DEF label
<1> QED
  BY <1>1, <1>2, <1>3, <1>4, Moves

LEMMA LockTimeoutIInv ==
    ASSUME IInv, NEW p \in Proc, LockTimeout(p)
    PROVE  IInv'
<1>1. /\ pc[p] \notin Committing /\ lock # p
      /\ Return(p, "idle") /\ "idle" \in Resting /\ UNCHANGED <<store, lock, commits>>
  BY DEF LockTimeout, Committing, Resting, Inside, IInv, LockHeld
<1> QED
  BY <1>1, Returned

LEMMA BaselineIInv ==
    ASSUME IInv, NEW p \in Proc, Baseline(p)
    PROVE  IInv'
<1>1. /\ pc[p] = "baseline" /\ Goto(p, "take_lock") /\ Release(p)
      /\ op' = [op EXCEPT ![p] = IF dir[MANIFEST] = 0 THEN "build" ELSE "update"]
      /\ UNCHANGED <<store, view, unread, commits>> /\ UNCHANGED <<attempts, sources>>
  BY DEF Baseline
<1>2. /\ pc[p] \notin Committing \cup {"sweep", "files"} /\ lock = p
      /\ "take_lock" \in Label \ (Committing \cup {"sweep"}) /\ "take_lock" \notin Inside
  BY <1>1 DEF Committing, Label, Inside, IInv, LockHeld
<1>3. /\ lock' = Nobody /\ lock' # p
      /\ \A q \in Proc \ {p} : lock' = q <=> lock = q
  BY <1>1, <1>2, ProcessAssumption DEF Release
<1>4. TypeOK'
  <2>1. "build" \in Operation /\ "update" \in Operation
    BY DEF Operation
  <2> QED
    BY <1>1, <1>2, <1>3, <2>1 DEF Goto, IInv, TypeOK, store, commits
<1> QED
  BY <1>1, <1>2, <1>3, <1>4, Moves

LEMMA PrepareMergeIInv ==
    ASSUME IInv, NEW p \in Proc, PrepareMerge(p)
    PROVE  IInv'
<1>1. /\ pc[p] = "files" /\ unread[p] = {}
      /\ UNCHANGED <<store, lock, commits>>
  BY DEF PrepareMerge
<1>2. pc[p] \notin Committing /\ lock # p
  BY <1>1 DEF Committing, IInv, LockHeld, Inside
<1>3. CASE Return(p, "idle")
  <2>1. "idle" \in Resting
    BY DEF Resting
  <2> QED
    BY <1>1, <1>2, <1>3, <2>1, Returned
<1>4. ASSUME NEW group \in SUBSET ManifestOf(view[p]).segments \ {{}},
             sources' = [sources EXCEPT ![p] = group],
             attempts' = [attempts EXCEPT ![p] = 0],
             Goto(p, "take_lock"), UNCHANGED <<op, view, unread>>
      PROVE  IInv'
  <2>1. group \in SUBSET SegId
    <3>1. view[p] \in 0 .. MaxTxn
      BY DEF IInv, TypeOK
    <3> QED
      BY <1>4, <3>1, ManifestFacts DEF WellFormed, Manifest, IInv
  <2>2. "take_lock" \in Label \ Committing /\ "take_lock" \notin Inside
    BY DEF Label, Committing, Inside
  <2>3. TypeOK'
    BY <1>1, <1>4, <2>1, <2>2, ProcessAssumption DEF Goto, IInv, TypeOK, store, commits
  <2>4. view' = view /\ unread' = unread /\ unread'[p] = {} /\ view[p] <= dir[MANIFEST]
    BY <1>1, <1>4 DEF IInv, Readers
  <2> QED
    BY <1>1, <1>2, <1>4, <2>2, <2>3, <2>4, Local DEF Goto
<1> QED
  BY <1>3, <1>4 DEF PrepareMerge

LEMMA NothingToCommitIInv ==
    ASSUME IInv, NEW p \in Proc, NothingToCommit(p)
    PROVE  IInv'
<1>1. /\ pc[p] \notin Committing /\ "idle" \in Resting
      /\ Return(p, "idle") /\ Release(p) /\ UNCHANGED <<store, commits>>
  BY DEF NothingToCommit, Committing, Resting
<1> QED
  BY <1>1, Returned

-----------------------------------------------------------------------------
(* Commits.                                                                *)

\* A transaction that is safe on top of the manifest in force, and succeeds
\* it, may begin.
LEMMA CommitIInv ==
    ASSUME IInv, NEW p \in Proc, pc[p] = "plan", NEW tr, Commit(p, tr),
           tr = Transaction(tr.manifest, tr.writes, tr.retires),
           SafeTransaction(current, tr, txn + 1),
           Succeeds(current, tr.manifest, tr.writes)
    PROVE  IInv'
<1>0. PICK t : t = txn + 1
  OBVIOUS
<1>1. /\ txn < MaxTxn /\ txn' = t /\ dir' = dir /\ lock' = lock
      /\ unread' = unread /\ attempts' = attempts
      /\ written' = [written EXCEPT ![t] = tr.manifest]
      /\ mine' = [mine EXCEPT ![p] = t]
      /\ todo' = [todo EXCEPT ![p] = tr.writes]
      /\ retire' = [retire EXCEPT ![p] = tr.retires]
      /\ op' = [op EXCEPT ![p] = "open"]
      /\ view' = [view EXCEPT ![p] = 0]
      /\ sources' = [sources EXCEPT ![p] = {}]
      /\ pc' = [pc EXCEPT ![p] = "write"]
  BY <1>0 DEF Commit, Goto
<1>2. /\ t \in Stamp /\ t \in Nat /\ t \in 0 .. MaxTxn /\ txn \in Nat
      /\ dir[MANIFEST] \in Nat /\ dir[MANIFEST] <= txn /\ dir[MANIFEST] < t
      /\ \A u \in Stamp : u <= dir[MANIFEST] => u # t
      /\ \A u \in 0 .. MaxTxn : u <= dir[MANIFEST] => u # t
  BY <1>0, <1>1, CurrentFacts, BoundsAssumption DEF Stamp
<1>3. /\ lock = p /\ pc'[p] = "write"
      /\ \A q \in Proc \ {p} : pc'[q] = pc[q] /\ pc'[q] \notin Inside
  <2>1. lock = p /\ \A q \in Proc : q # p => pc[q] \notin Inside
    BY OneHolder DEF IInv, Inside
  <2> QED
    BY <1>1, <2>1 DEF IInv, TypeOK
<1>4. /\ WellFormed(tr.manifest) /\ tr.manifest \in Manifest
      /\ tr.writes \subseteq DataName /\ tr.retires \subseteq DataName
      /\ referenced_files(tr.manifest) \subseteq DataName
  BY ReferencedTyping DEF SafeTransaction, WellFormed
<1>5. TypeOK'
  <2>1. "write" \in Label /\ "open" \in Operation
    BY DEF Label, Operation
  <2> QED
    BY <1>1, <1>2, <1>4, <2>1, BoundsAssumption DEF IInv, TypeOK
<1>6. /\ written'[t] = tr.manifest /\ plan' = tr.manifest
      /\ \A u \in Stamp : u # t => written'[u] = written[u]
  BY <1>1, <1>2 DEF IInv, TypeOK, plan
<1>7. /\ \A u \in 0 .. MaxTxn : u <= dir[MANIFEST] =>
            (IF u = 0 THEN NoManifest ELSE written'[u]) = ManifestOf(u)
      /\ current' = current
  <2>1. \A u \in 0 .. MaxTxn : u <= dir[MANIFEST] =>
            (IF u = 0 THEN NoManifest ELSE written'[u]) = ManifestOf(u)
    BY <1>2, <1>6, BoundsAssumption DEF ManifestOf, Stamp
  <2> QED
    BY <1>1, <2>1, CurrentFacts DEF current, ManifestOf
<1>8. /\ \A n \in tr.writes : tr.manifest.crc[n] = t
      /\ \A n \in DataName \ tr.writes : tr.manifest.crc[n] \in 0 .. dir[MANIFEST]
      /\ \A n \in referenced_files(tr.manifest) : tr.manifest.crc[n] > 0
  <2>1. \A n \in tr.writes : tr.manifest.crc[n] = t
    BY <1>0 DEF SafeTransaction
  <2>2. \A n \in DataName \ tr.writes : tr.manifest.crc[n] \in 0 .. dir[MANIFEST]
    BY CurrentFacts DEF Succeeds
  <2>3. \A n \in referenced_files(tr.manifest) \ tr.writes : tr.manifest.crc[n] > 0
    BY CurrentFacts DEF SafeTransaction
  <2>4. t > 0
    BY <1>0, <1>2
  <2> QED
    BY <2>1, <2>2, <2>3, <2>4
<1>9. Made(t)' = tr.writes
  <2>1. Made(t)' = {n \in DataName : tr.manifest.crc[n] = t}
    BY <1>6 DEF Made
  <2>2. \A n \in DataName \ tr.writes : tr.manifest.crc[n] # t
    BY <1>2, <1>8
  <2> QED
    BY <1>4, <1>8, <2>1, <2>2
<1>10. LockHeld'
  <2> SUFFICES ASSUME NEW q \in Proc
               PROVE  /\ pc'[q] \in Inside <=> lock' = q
                      /\ mine'[q] > 0 => pc'[q] \in Committing
    BY DEF LockHeld
  <2>1. CASE q = p
    BY <1>1, <1>3, <2>1 DEF Inside, Committing
  <2>2. CASE q # p
    BY <1>1, <1>3, <2>2 DEF IInv, LockHeld, TypeOK
  <2> QED
    BY <2>1, <2>2
<1>11. Manifests'
  <2>1. \A n \in DataName : tr.manifest.crc[n] <= t
    BY <1>2, <1>8
  <2>2. dir'[MANIFEST] <= txn'
    BY <1>1, <1>2
  <2>3. ASSUME NEW u \in Stamp
        PROVE  /\ WellFormed(written'[u])
               /\ \A n \in DataName : written'[u].crc[n] <= u
               /\ \A n \in referenced_files(written'[u]) : written'[u].crc[n] > 0
               /\ \/ u <= dir'[MANIFEST] \/ written'[u] = NoManifest
                  \/ \E q \in Proc : mine'[q] = u
    <3>1. CASE u = t
      <4>1. mine'[p] = u
        BY <1>1, <3>1 DEF IInv, TypeOK
      <4> QED
        BY <1>4, <1>6, <1>8, <2>1, <3>1, <4>1
    <3>2. CASE u # t
      <4>1. u > 0 /\ \A q \in Proc : ~(mine[q] > 0)
        BY <1>3 DEF IInv, LockHeld, Committing, Inside, Stamp
      <4>2. \A q \in Proc : mine[q] # u
        BY <4>1
      <4> QED
        BY <1>1, <1>6, <3>2, <4>2 DEF IInv, Manifests
    <3> QED
      BY <3>1, <3>2
  <2> QED
    BY <2>2, <2>3 DEF Manifests
<1>12. IndexComplete'
  BY <1>1, <1>7 DEF IInv, IndexComplete
<1>13. Lineage'
  BY <1>1, <1>2, <1>6, <1>7 DEF IInv, Lineage
<1>14. Readers'
  <2> SUFFICES ASSUME NEW q \in Proc
               PROVE  /\ view'[q] <= dir[MANIFEST]
                      /\ unread[q] \subseteq
                            referenced_files(IF view'[q] = 0 THEN NoManifest ELSE written'[view'[q]])
                      /\ pc'[q] \notin {"sweep", "files"} => unread[q] = {}
                      /\ pc'[q] = "sweep" => view'[q] = dir[MANIFEST]
    BY <1>1 DEF Readers, ManifestOf
  <2>1. CASE q = p
    <3>1. view'[q] = 0 /\ unread[q] = {}
      BY <1>1, <2>1 DEF IInv, TypeOK, Readers
    <3> QED
      BY <1>2, <1>3, <2>1, <3>1
  <2>2. CASE q # p
    <3>1. view'[q] = view[q] /\ pc'[q] = pc[q] /\ view[q] \in 0 .. MaxTxn
      BY <1>1, <1>3, <2>2 DEF IInv, TypeOK
    <3> QED
      BY <1>7, <3>1 DEF IInv, Readers
  <2> QED
    BY <2>1, <2>2
<1>15. mine'[p] = t /\ todo'[p] = tr.writes /\ retire'[p] = tr.retires
  BY <1>1 DEF IInv, TypeOK
<1>16. Writing'
  <2> SUFFICES ASSUME NEW q \in Proc, pc'[q] = "write"
               PROVE  /\ mine'[q] = txn' /\ dir'[MANIFEST] < txn'
                      /\ SafeTransaction(current', Transaction(plan', Made(txn)', retire'[q]), txn')
                      /\ Succeeds(current', plan', Made(txn)')
                      /\ todo'[q] \subseteq Made(txn)'
    BY DEF Writing
  <2>1. q = p
    BY <1>3 DEF Inside
  <2>2. Made(txn)' = tr.writes
    BY <1>1, <1>9 DEF Made
  <2>3. Transaction(plan', Made(txn)', retire'[q]) = tr
    BY <1>6, <1>15, <2>1, <2>2
  <2> QED
    BY <1>0, <1>1, <1>2, <1>6, <1>7, <1>15, <2>1, <2>2, <2>3
<1>17. UncommittedKept' /\ Retiring'
  <2>1. ASSUME NEW q \in Proc, pc'[q] = "write" PROVE Made(mine[q])' \ todo'[q] = {}
    <3>1. q = p
      BY <1>3, <2>1 DEF Inside
    <3>2. Made(mine[q])' = tr.writes
      BY <1>9, <1>15, <3>1 DEF Made
    <3> QED
      BY <1>15, <3>1, <3>2
  <2>2. UncommittedKept'
    BY <2>1 DEF UncommittedKept
  <2>3. Retiring'
    BY <1>3 DEF Retiring, Inside
  <2> QED
    BY <2>2, <2>3
<1> QED
  BY <1>5, <1>10, <1>11, <1>12, <1>13, <1>14, <1>16, <1>17 DEF IInv

LEMMA PlanBuildIInv ==
    ASSUME IInv, NEW p \in Proc, PlanBuild(p)
    PROVE  IInv'
<1>1. PICK k \in 0 .. MaxNew : /\ current.next_segment_id + k <= MaxSeg
                              /\ Commit(p, Build(current, k, txn + 1))
  BY DEF PlanBuild
<1>2. WellFormed(current) /\ txn + 1 \in Stamp /\ k \in Nat
  BY <1>1, CurrentFacts, BoundsAssumption DEF Commit, Stamp
<1> DEFINE tr == Build(current, k, txn + 1)
<1>3. SafeTransaction(current, tr, txn + 1) /\ Succeeds(current, tr.manifest, tr.writes)
  BY <1>1, <1>2, BuildIsSafe, BuildSucceeds
<1>4. tr = Transaction(tr.manifest, tr.writes, tr.retires)
  BY DEF Build, Transaction
<1> HIDE DEF tr
<1>5. pc[p] = "plan" /\ Commit(p, tr)
  BY <1>1 DEF PlanBuild, tr
<1> QED
  BY <1>3, <1>4, <1>5, CommitIInv

LEMMA PlanUpdateIInv ==
    ASSUME IInv, NEW p \in Proc, PlanUpdate(p)
    PROVE  IInv'
<1>1. PICK k \in 0 .. MaxNew, dead \in SUBSET current.segments, patched \in BOOLEAN :
          /\ current.next_segment_id + k <= MaxSeg
          /\ \A s \in dead : current.del_gen[s] < MaxGen
          /\ \E gen \in OverlayGens(current, patched, dead) :
                gen <= MaxGen /\ Commit(p, Update(current, k, dead, gen, txn + 1))
  BY DEF PlanUpdate
<1>2. PICK gen \in OverlayGens(current, patched, dead) :
          gen <= MaxGen /\ Commit(p, Update(current, k, dead, gen, txn + 1))
  BY <1>1
<1>3. WellFormed(current) /\ txn + 1 \in Stamp /\ k \in Nat
  BY <1>2, CurrentFacts, BoundsAssumption DEF Commit, Stamp
<1>4. gen \in 0 .. MaxGen /\ (gen = 0 \/ gen # current.state_gen)
  BY <1>2, <1>3, BoundsAssumption DEF OverlayGens, WellFormed, Manifest
<1> DEFINE tr == Update(current, k, dead, gen, txn + 1)
<1>5. SafeTransaction(current, tr, txn + 1)
  BY <1>1, <1>3, <1>4, UpdateIsSafe
<1>6. Succeeds(current, tr.manifest, tr.writes)
  BY <1>3, <1>4, UpdateSucceeds
<1>7. tr = Transaction(tr.manifest, tr.writes, tr.retires)
  BY DEF Update, Transaction
<1> HIDE DEF tr
<1>8. pc[p] = "plan" /\ Commit(p, tr)
  BY <1>2 DEF PlanUpdate, tr
<1> QED
  BY <1>5, <1>6, <1>7, <1>8, CommitIInv

\* Tombstones are carried over only if a deletion generation has changed since
\* the merge was prepared.
LEMMA PlanMergeIInv ==
    ASSUME IInv, NEW p \in Proc, PlanMerge(p)
    PROVE  IInv'
<1>1. PICK carry \in BOOLEAN :
          /\ carry => \E s \in sources[p] :
                         current.del_gen[s] # ManifestOf(view[p]).del_gen[s]
          /\ Commit(p, Merge(current, sources[p], carry, txn + 1))
  BY DEF PlanMerge
<1>2. /\ WellFormed(current) /\ txn + 1 \in Stamp
      /\ sources[p] \in SUBSET current.segments /\ current.next_segment_id < MaxSeg
  BY <1>1, CurrentFacts, BoundsAssumption DEF Commit, Stamp, PlanMerge
<1>3. carry => MaxGen > 0
  <2> SUFFICES ASSUME carry PROVE MaxGen > 0
    OBVIOUS
  <2>1. PICK s \in sources[p] : current.del_gen[s] # ManifestOf(view[p]).del_gen[s]
    BY <1>1
  <2>2. /\ s \in SegId /\ view[p] \in 0 .. MaxTxn
        /\ current.del_gen \in [SegId -> 0 .. MaxGen]
    BY <1>2 DEF IInv, TypeOK, WellFormed, Manifest
  <2>3. ManifestOf(view[p]).del_gen \in [SegId -> 0 .. MaxGen]
    BY <2>2, ManifestFacts DEF IInv, WellFormed, Manifest
  <2> QED
    BY <2>1, <2>2, <2>3, BoundsAssumption
<1> DEFINE tr == Merge(current, sources[p], carry, txn + 1)
<1>4. SafeTransaction(current, tr, txn + 1)
  BY <1>2, <1>3, MergeIsSafe
<1>5. Succeeds(current, tr.manifest, tr.writes)
  BY <1>2, MergeSucceeds
<1>6. tr = Transaction(tr.manifest, tr.writes, tr.retires)
  BY DEF Merge, Transaction
<1> HIDE DEF tr
<1>7. pc[p] = "plan" /\ Commit(p, tr)
  BY <1>1 DEF PlanMerge, tr
<1> QED
  BY <1>4, <1>5, <1>6, <1>7, CommitIInv

\* What the invariant says of the writer in its commit.
LEMMA WritingFacts ==
    ASSUME IInv, NEW p \in Proc, pc[p] = "write"
    PROVE  /\ mine[p] = txn /\ dir[MANIFEST] < txn /\ txn \in Stamp
           /\ lock = p /\ \A q \in Proc \ {p} : pc[q] \notin Inside
           /\ WellFormed(plan) /\ referenced_files(plan) \subseteq DataName
           /\ Made(txn) \subseteq DataName /\ Made(txn) \cap referenced_files(current) = {}
           /\ \A n \in Made(txn) : plan.crc[n] = txn
           /\ retire[p] \cap referenced_files(plan) = {}
           /\ \A n \in referenced_files(plan) \ Made(txn) :
                 n \in referenced_files(current) /\ plan.crc[n] = current.crc[n]
           /\ Succeeds(current, plan, Made(txn))
           /\ todo[p] \subseteq Made(txn)
           /\ \A n \in Made(txn) \ todo[p] : dir[n] = txn
<1> DEFINE tr == Transaction(plan, Made(txn), retire[p])
<1>1. /\ tr.manifest = plan /\ tr.writes = Made(txn) /\ tr.retires = retire[p]
      /\ SafeTransaction(current, tr, txn)
      /\ mine[p] = txn /\ dir[MANIFEST] < txn
      /\ Succeeds(current, plan, Made(txn)) /\ todo[p] \subseteq Made(txn)
  BY DEF IInv, Writing, Transaction
<1> HIDE DEF tr
<1>2. txn \in Stamp
  BY <1>1, CurrentFacts, BoundsAssumption DEF IInv, TypeOK, Stamp
<1>3. lock = p /\ \A q \in Proc \ {p} : pc[q] \notin Inside
  BY OneHolder DEF IInv, Inside
<1>4. \A n \in Made(txn) \ todo[p] : dir[n] = txn
  BY <1>1 DEF IInv, UncommittedKept
<1>5. WellFormed(plan) /\ referenced_files(plan) \subseteq DataName
  BY <1>1, ReferencedTyping DEF SafeTransaction, WellFormed
<1> QED
  BY <1>1, <1>2, <1>3, <1>4, <1>5 DEF SafeTransaction

\* The lineage stays as it is when only files change that no ancestor of the
\* manifest in force has referenced, or when files are removed.
LEMMA LineageStable ==
    ASSUME IInv, NEW x, written' = written, dir'[MANIFEST] = dir[MANIFEST],
           \A n \in DataName : dir'[n] \in {0, dir[n]} \/ (n = x /\ Fresh(current, x))
    PROVE  Lineage'
<1>1. current' = current
  BY DEF current, ManifestOf
<1> SUFFICES ASSUME NEW t \in Stamp, t <= dir[MANIFEST]
             PROVE  /\ Descends(written[t], current)
                    /\ \A n \in referenced_files(written[t]) :
                          n[1] # "ovl" => dir'[n] \in {0, written[t].crc[n]}
  BY <1>1 DEF Lineage
<1>2. /\ WellFormed(written[t]) /\ Descends(written[t], current)
      /\ referenced_files(written[t]) \subseteq DataName
      /\ \A n \in referenced_files(written[t]) :
            n[1] # "ovl" => dir[n] \in {0, written[t].crc[n]}
  BY ReferencedTyping DEF IInv, Manifests, Lineage, WellFormed
<1>3. x[1] # "ovl" /\ Fresh(current, x) => x \notin referenced_files(written[t])
  BY <1>2, CurrentFacts, FreshMeansUnreferenced
<1> QED
  BY <1>2, <1>3

\* One file put in place: it is fresh, so nobody misses what it may replace.
LEMMA WriteFileIInv ==
    ASSUME IInv, NEW p \in Proc, WriteFile(p)
    PROVE  IInv'
<1>1. /\ pc[p] = "write"
      /\ UNCHANGED <<written, txn, lock, pc, op, view, unread, attempts, sources, mine, retire>>
  BY DEF WriteFile, locals
<1>2. PICK n \in todo[p] : /\ dir' = [dir EXCEPT ![n] = mine[p]]
                          /\ todo' = [todo EXCEPT ![p] = @ \ {n}]
  BY DEF WriteFile
<1>3. /\ n \in Made(txn) /\ n \in DataName /\ n # MANIFEST
      /\ n \notin referenced_files(current) /\ Fresh(current, n)
  BY <1>1, <1>2, WritingFacts, DataNames DEF Succeeds
<1>4. /\ dir'[n] = txn /\ \A x \in Name \ {n} : dir'[x] = dir[x]
      /\ dir' \in [Name -> 0 .. MaxTxn] /\ dir'[MANIFEST] = dir[MANIFEST]
  BY <1>1, <1>2, <1>3, WritingFacts, DataNames DEF IInv, TypeOK
<1>5. /\ current' = current /\ plan' = plan
      /\ \A t : ManifestOf(t)' = ManifestOf(t) /\ Made(t)' = Made(t)
  BY <1>1, <1>4 DEF current, ManifestOf, plan, Made
<1>6. /\ todo'[p] = todo[p] \ {n} /\ \A q \in Proc \ {p} : todo'[q] = todo[q]
      /\ todo' \in [Proc -> SUBSET DataName]
  BY <1>2 DEF IInv, TypeOK
<1>7. TypeOK' /\ LockHeld'
  BY <1>1, <1>4, <1>6 DEF IInv, TypeOK, LockHeld
<1>8. Manifests' /\ IndexComplete'
  <2>1. \A x \in referenced_files(current) : dir'[x] = dir[x]
    BY <1>3, <1>4, CurrentFacts, DataNames
  <2>2. IndexComplete'
    BY <1>5, <2>1 DEF IInv, IndexComplete
  <2>3. Manifests'
    BY <1>1, <1>4 DEF IInv, Manifests
  <2> QED
    BY <2>2, <2>3
<1>9. Lineage'
  <2>1. \A x \in DataName : dir'[x] \in {0, dir[x]} \/ (x = n /\ Fresh(current, n))
    BY <1>3, <1>4, DataNames
  <2> QED
    BY <1>1, <1>4, <2>1, LineageStable
<1>10. Readers' /\ Retiring'
  BY <1>1, <1>4, <1>5 DEF IInv, Readers, Retiring
<1>11. \A q \in Proc : pc[q] = "write" => q = p
  BY <1>1, WritingFacts DEF Inside
<1>12. Writing'
  <2> SUFFICES ASSUME NEW q \in Proc, pc[q] = "write"
               PROVE  /\ mine[q] = txn /\ dir'[MANIFEST] < txn
                      /\ SafeTransaction(current, Transaction(plan, Made(txn), retire[q]), txn)
                      /\ Succeeds(current, plan, Made(txn))
                      /\ todo'[q] \subseteq Made(txn)
    BY <1>1, <1>5 DEF Writing
  <2>1. q = p /\ todo'[q] \subseteq todo[q]
    BY <1>6, <1>11
  <2> QED
    BY <1>4, <2>1 DEF IInv, Writing
<1>13. UncommittedKept'
  <2> SUFFICES ASSUME NEW q \in Proc, pc[q] = "write", NEW x \in Made(mine[q]) \ todo'[q]
               PROVE  dir'[x] = mine[q]
    BY <1>1, <1>5 DEF UncommittedKept
  <2>1. q = p /\ mine[q] = txn /\ x \in Name
    BY <1>1, <1>11, WritingFacts, DataNames
  <2>2. x # n => x \in Made(txn) \ todo[p]
    BY <1>6, <2>1
  <2> QED
    BY <1>1, <1>4, <2>1, <2>2, WritingFacts
<1> QED
  BY <1>7, <1>8, <1>9, <1>10, <1>12, <1>13 DEF IInv

\* The commit point: every file of the plan is in place or inherited.
LEMMA RenameManifestIInv ==
    ASSUME IInv, NEW p \in Proc, RenameManifest(p)
    PROVE  IInv'
<1>1. /\ pc[p] = "write" /\ todo[p] = {}
      /\ dir' = [dir EXCEPT ![MANIFEST] = mine[p]]
      /\ pc' = [pc EXCEPT ![p] = "retire"]
      /\ UNCHANGED <<written, txn, lock, op, view, unread, attempts, sources, mine, todo, retire>>
  BY DEF RenameManifest, Goto, locals, commits
<1>2. /\ mine[p] = txn /\ txn \in Stamp /\ txn \in Nat /\ txn \in 0 .. MaxTxn
      /\ dir[MANIFEST] \in Nat /\ dir[MANIFEST] < txn
  BY <1>1, WritingFacts, CurrentFacts DEF IInv, TypeOK
<1>3. /\ dir'[MANIFEST] = txn /\ \A n \in DataName : dir'[n] = dir[n]
      /\ dir' \in [Name -> 0 .. MaxTxn]
  BY <1>1, <1>2, DataNames DEF IInv, TypeOK
<1>4. /\ pc'[p] = "retire" /\ \A q \in Proc \ {p} : pc'[q] = pc[q] /\ pc'[q] \notin Inside
  BY <1>1, WritingFacts DEF IInv, TypeOK
<1>5. /\ current' = plan /\ txn # 0
      /\ \A t : ManifestOf(t)' = ManifestOf(t)
  BY <1>1, <1>2, <1>3 DEF current, ManifestOf, plan
<1>6. TypeOK'
  <2>1. "retire" \in Label
    BY DEF Label
  <2> QED
    BY <1>1, <1>3, <2>1 DEF IInv, TypeOK
<1>7. LockHeld'
  <2> SUFFICES ASSUME NEW q \in Proc
               PROVE  /\ pc'[q] \in Inside <=> lock = q
                      /\ mine[q] > 0 => pc'[q] \in Committing
    BY <1>1 DEF LockHeld
  <2>1. CASE q = p
    BY <1>1, <1>4, <2>1, WritingFacts DEF Inside, Committing
  <2>2. CASE q # p
    BY <1>4, <2>2 DEF IInv, LockHeld
  <2> QED
    BY <2>1, <2>2
<1>8. Manifests'
  BY <1>1, <1>2, <1>3 DEF IInv, Manifests
<1>9. \A n \in referenced_files(plan) : dir[n] = plan.crc[n]
  <2> SUFFICES ASSUME NEW n \in referenced_files(plan)
               PROVE  dir[n] = plan.crc[n]
    OBVIOUS
  <2>1. CASE n \in Made(txn)
    BY <1>1, <2>1, WritingFacts
  <2>2. CASE n \notin Made(txn)
    BY <1>1, <2>2, WritingFacts DEF IInv, IndexComplete
  <2> QED
    BY <2>1, <2>2
<1>10. IndexComplete'
  BY <1>1, <1>3, <1>5, <1>9, WritingFacts DEF IndexComplete
<1>11. Lineage'
  <2> SUFFICES ASSUME NEW t \in Stamp, t <= txn
               PROVE  /\ Descends(written[t], plan)
                      /\ \A n \in referenced_files(written[t]) :
                            n[1] # "ovl" => dir'[n] \in {0, written[t].crc[n]}
    BY <1>1, <1>3, <1>5 DEF Lineage
  <2>1. WellFormed(written[t]) /\ referenced_files(written[t]) \subseteq DataName
    BY ReferencedTyping DEF IInv, Manifests, WellFormed
  <2>2. CASE t = txn
    <3>1. Descends(plan, plan)
      BY <1>1, WritingFacts, WellFormedTypes DEF Descends, WellFormed, Manifest
    <3> QED
      BY <1>3, <1>9, <2>1, <2>2, <3>1 DEF plan
  <2>3. CASE t <= dir[MANIFEST]
    <3>1. Descends(written[t], current)
      BY <2>3 DEF IInv, Lineage
    <3>2. Descends(written[t], plan)
      BY <1>1, <2>1, <3>1, WritingFacts, CurrentFacts, DescendsFurther
    <3> QED
      BY <1>3, <2>1, <2>3, <3>2 DEF IInv, Lineage
  <2>4. CASE t # txn /\ ~(t <= dir[MANIFEST])
    <3>1. \A q \in Proc : mine[q] # t
      <4>1. t > 0
        BY DEF Stamp
      <4>2. \A q \in Proc : mine[q] > 0 => q = p
        BY <1>1, WritingFacts DEF IInv, LockHeld, Committing, Inside
      <4> QED
        BY <1>2, <2>4, <4>1, <4>2
    <3>2. written[t] = NoManifest
      BY <2>4, <3>1 DEF IInv, Manifests
    <3>3. Descends(NoManifest, plan)
      BY <1>1, WritingFacts, WellFormedTypes DEF Descends, NoManifest
    <3> QED
      BY <3>2, <3>3, NoManifestFacts
  <2> QED
    BY <2>2, <2>3, <2>4
<1>12. Readers'
  <2> SUFFICES ASSUME NEW q \in Proc
               PROVE  /\ view[q] <= txn
                      /\ unread[q] \subseteq referenced_files(ManifestOf(view[q]))
                      /\ pc'[q] \notin {"sweep", "files"} => unread[q] = {}
                      /\ pc'[q] = "sweep" => view[q] = txn
    BY <1>1, <1>3, <1>5 DEF Readers, ManifestOf
  <2>1. view[q] \in Nat /\ view[q] <= dir[MANIFEST]
    BY BoundsAssumption DEF IInv, TypeOK, Readers
  <2>2. pc'[q] # "sweep" /\ (pc'[q] = pc[q] \/ (pc[q] = "write" /\ pc'[q] = "retire"))
    BY <1>1, <1>4 DEF Inside
  <2> QED
    BY <1>2, <2>1, <2>2 DEF IInv, Readers
<1>13. Writing' /\ UncommittedKept'
  BY <1>4 DEF Writing, UncommittedKept, Inside
<1>14. Retiring'
  <2> SUFFICES ASSUME NEW q \in Proc, pc'[q] = "retire"
               PROVE  mine[q] = txn /\ retire[q] \cap referenced_files(plan) = {}
    BY <1>1, <1>3, <1>5 DEF Retiring
  <2>1. q = p
    BY <1>4 DEF Inside
  <2> QED
    BY <1>1, <2>1, WritingFacts
<1> QED
  BY <1>6, <1>7, <1>8, <1>10, <1>11, <1>12, <1>13, <1>14 DEF IInv

\* What is unlinked after the commit point is not in use.
LEMMA RetireFileIInv ==
    ASSUME IInv, NEW p \in Proc, RetireFile(p)
    PROVE  IInv'
<1>1. /\ pc[p] = "retire"
      /\ UNCHANGED <<written, txn, lock, pc, op, view, unread, attempts, sources, mine, todo>>
  BY DEF RetireFile, locals
<1>2. PICK n \in retire[p] : /\ retire' = [retire EXCEPT ![p] = @ \ {n}]
                            /\ dir' \in {dir, [dir EXCEPT ![n] = 0]}
  BY DEF RetireFile
<1>3. n \in DataName /\ n # MANIFEST /\ n \notin referenced_files(current)
  BY <1>1, <1>2, DataNames DEF IInv, TypeOK, Retiring
<1>4. /\ \A x \in Name : dir'[x] \in {0, dir[x]}
      /\ \A x \in Name \ {n} : dir'[x] = dir[x]
      /\ dir' \in [Name -> 0 .. MaxTxn] /\ dir'[MANIFEST] = dir[MANIFEST]
  BY <1>2, <1>3, DataNames, BoundsAssumption DEF IInv, TypeOK
<1>5. /\ current' = current /\ plan' = plan
      /\ \A t : ManifestOf(t)' = ManifestOf(t) /\ Made(t)' = Made(t)
  BY <1>1, <1>4 DEF current, ManifestOf, plan, Made
<1>6. /\ \A q \in Proc : retire'[q] \subseteq retire[q]
      /\ retire' \in [Proc -> SUBSET DataName]
  BY <1>2 DEF IInv, TypeOK
<1>7. TypeOK' /\ LockHeld'
  BY <1>1, <1>4, <1>6 DEF IInv, TypeOK, LockHeld
<1>8. Manifests' /\ IndexComplete'
  <2>1. \A x \in referenced_files(current) : dir'[x] = dir[x]
    BY <1>3, <1>4, CurrentFacts, DataNames
  <2>2. IndexComplete'
    BY <1>5, <2>1 DEF IInv, IndexComplete
  <2>3. Manifests'
    BY <1>1, <1>4 DEF IInv, Manifests
  <2> QED
    BY <2>2, <2>3
<1>9. Lineage'
  <2>1. \A x \in DataName : dir'[x] \in {0, dir[x]}
    BY <1>4, DataNames
  <2> QED
    BY <1>1, <1>4, <2>1, LineageStable
<1>10. Readers'
  BY <1>1, <1>4, <1>5 DEF IInv, Readers
<1>11. Writing' /\ UncommittedKept'
  <2>1. \A q \in Proc : pc'[q] # "write"
    <3>1. lock = p /\ \A q \in Proc : q # p => pc[q] \notin Inside
      BY <1>1, OneHolder DEF IInv, Inside
    <3> QED
      BY <1>1, <3>1 DEF Inside
  <2> QED
    BY <2>1 DEF Writing, UncommittedKept
<1>12. Retiring'
  BY <1>1, <1>4, <1>5, <1>6 DEF IInv, Retiring
<1> QED
  BY <1>7, <1>8, <1>9, <1>10, <1>11, <1>12 DEF IInv

\* The operation of the process that holds LOCK ends, or goes on to an open,
\* without a further change of the manifest in force; what it removes nobody
\* needs, and if it had not committed its manifest is forgotten.
LEMMA LetsGo ==
    ASSUME IInv, TypeOK', NEW p \in Proc, lock = p, Release(p), txn' = txn,
           NEW label \in Resting \cup {"probe"}, pc' = [pc EXCEPT ![p] = label],
           Forget(p),
           \/ written' = written /\ pc[p] # "write"
           \/ written' = IF mine[p] > 0 /\ dir[MANIFEST] # mine[p]
                         THEN [written EXCEPT ![mine[p]] = NoManifest] ELSE written,
           dir'[MANIFEST] = dir[MANIFEST],
           \A n \in Name : dir'[n] \in {0, dir[n]},
           \A n \in referenced_files(current) : dir'[n] = dir[n],
           \A q \in Proc \ {p} : view'[q] = view[q] /\ unread'[q] = unread[q],
           unread'[p] = {}, view'[p] \in {0, view[p]}
    PROVE  IInv'
<1>1. /\ lock' = Nobody /\ pc[p] \in Inside
      /\ \A q \in Proc \ {p} : pc[q] \notin Inside
      /\ pc'[p] = label /\ \A q \in Proc \ {p} : pc'[q] = pc[q]
      /\ label \notin Inside /\ label \notin {"sweep", "files"}
      /\ \A q \in Proc : pc'[q] \notin Inside
  BY OneHolder DEF Release, IInv, TypeOK, Inside, Resting
<1>2. /\ mine'[p] = 0 /\ \A q \in Proc \ {p} : mine'[q] = mine[q]
      /\ \A q \in Proc \ {p} : ~(mine[q] > 0)
  BY <1>1 DEF Forget, IInv, TypeOK, LockHeld, Committing, Inside
<1>3. \A t \in Stamp : /\ written'[t] = written[t] \/ (written'[t] = NoManifest /\ t = mine[p])
                       /\ t <= dir[MANIFEST] => written'[t] = written[t]
                       /\ t = mine[p] /\ ~(t <= dir[MANIFEST]) => written'[t] = NoManifest
  <2>1. CASE pc[p] = "write"
    <3>1. mine[p] = txn /\ txn \in Stamp /\ txn \in Nat /\ dir[MANIFEST] < txn /\ dir[MANIFEST] \in Nat
      BY <2>1, WritingFacts, CurrentFacts
    <3>2. written' = [written EXCEPT ![txn] = NoManifest]
      BY <2>1, <3>1 DEF Stamp
    <3> QED
      BY <3>1, <3>2 DEF IInv, TypeOK
  <2>2. CASE pc[p] # "write"
    <3>1. mine[p] > 0 => mine[p] = dir[MANIFEST]
      BY <2>2 DEF IInv, LockHeld, Committing, Retiring
    <3>2. written' = written
      BY <2>2, <3>1
    <3>3. \A t \in Stamp : t > 0 /\ t \in Nat
      BY BoundsAssumption DEF Stamp
    <3>4. \A t \in Stamp : t = mine[p] => t <= dir[MANIFEST]
      BY <3>1, <3>3, CurrentFacts
    <3> QED
      BY <3>2, <3>4
  <2> QED
    BY <2>1, <2>2
<1>4. current' = current
  <2>1. dir[MANIFEST] # 0 => dir[MANIFEST] \in Stamp /\ dir[MANIFEST] <= dir[MANIFEST]
    BY CurrentFacts, BoundsAssumption DEF Stamp
  <2> QED
    BY <1>3, <2>1 DEF current, ManifestOf
<1>5. LockHeld'
  <2>1. \A q \in Proc : lock' # q
    BY <1>1, ProcessAssumption
  <2>2. \A q \in Proc : ~(mine'[q] > 0)
    BY <1>2
  <2> QED
    BY <1>1, <2>1, <2>2 DEF LockHeld
<1>6. Manifests'
  <2>1. ASSUME NEW t \in Stamp
        PROVE  /\ WellFormed(written'[t])
               /\ \A n \in DataName : written'[t].crc[n] <= t
               /\ \A n \in referenced_files(written'[t]) : written'[t].crc[n] > 0
    <3>1. CASE written'[t] = written[t]
      BY <3>1 DEF IInv, Manifests
    <3>2. CASE written'[t] = NoManifest
      <4>1. \A n \in DataName : NoManifest.crc[n] = 0
        BY DEF NoManifest
      <4>2. 0 <= t
        BY BoundsAssumption DEF Stamp
      <4> QED
        BY <3>2, <4>1, <4>2, NoManifestFacts
    <3> QED
      BY <1>3, <3>1, <3>2
  <2>2. ASSUME NEW t \in Stamp
        PROVE  t <= dir[MANIFEST] \/ written'[t] = NoManifest
    <3>1. CASE t = mine[p]
      BY <1>3, <3>1
    <3>2. CASE t # mine[p]
      <4>1. t > 0
        BY DEF Stamp
      <4>2. \A q \in Proc : mine[q] # t
        BY <1>2, <3>2, <4>1
      <4> QED
        BY <1>3, <3>2, <4>2 DEF IInv, Manifests
    <3> QED
      BY <3>1, <3>2
  <2> QED
    BY <2>1, <2>2, CurrentFacts DEF Manifests
<1>7. IndexComplete'
  BY <1>4 DEF IInv, IndexComplete
<1>8. Lineage'
  <2> SUFFICES ASSUME NEW t \in Stamp, t <= dir[MANIFEST]
               PROVE  /\ Descends(written[t], current)
                      /\ \A n \in referenced_files(written[t]) :
                            n[1] # "ovl" => dir'[n] \in {0, written[t].crc[n]}
    BY <1>3, <1>4 DEF Lineage
  <2>1. referenced_files(written[t]) \subseteq Name
    BY ReferencedTyping, DataNames DEF IInv, Manifests, WellFormed
  <2> QED
    BY <2>1 DEF IInv, Lineage
<1>9. Readers'
  <2>1. \A t \in 0 .. MaxTxn : t <= dir[MANIFEST] =>
            (IF t = 0 THEN NoManifest ELSE written'[t]) = ManifestOf(t)
    BY <1>3, BoundsAssumption DEF ManifestOf, Stamp
  <2> SUFFICES ASSUME NEW q \in Proc
               PROVE  /\ view'[q] <= dir[MANIFEST]
                      /\ unread'[q] \subseteq
                            referenced_files(IF view'[q] = 0 THEN NoManifest ELSE written'[view'[q]])
                      /\ pc'[q] \notin {"sweep", "files"} => unread'[q] = {}
                      /\ pc'[q] = "sweep" => view'[q] = dir[MANIFEST]
    BY DEF Readers, ManifestOf
  <2>2. CASE q = p
    <3>1. view'[p] <= dir[MANIFEST]
      BY CurrentFacts DEF IInv, Readers
    <3> QED
      BY <1>1, <2>2, <3>1 DEF Inside
  <2>3. CASE q # p
    <3>1. /\ view[q] \in 0 .. MaxTxn /\ view'[q] = view[q] /\ unread'[q] = unread[q]
          /\ pc'[q] = pc[q] /\ pc[q] # "sweep"
      BY <1>1, <2>3 DEF IInv, TypeOK, Inside
    <3> QED
      BY <2>1, <3>1 DEF IInv, Readers
  <2> QED
    BY <2>2, <2>3
<1>10. Writing' /\ UncommittedKept' /\ Retiring'
  BY <1>1 DEF Writing, UncommittedKept, Retiring, Inside
<1> QED
  BY <1>5, <1>6, <1>7, <1>8, <1>9, <1>10 DEF IInv

LEMMA UnlockIInv ==
    ASSUME IInv, NEW p \in Proc, Unlock(p)
    PROVE  IInv'
<1>1. /\ pc[p] = "retire" /\ Release(p) /\ Forget(p)
      /\ pc' = [pc EXCEPT ![p] = "probe"]
      /\ UNCHANGED <<dir, written, txn, op, view, unread, attempts, sources>>
  BY DEF Unlock, Goto, store, locals
<1>2. lock = p /\ unread[p] = {}
  BY <1>1 DEF IInv, LockHeld, Inside, Readers
<1>3. TypeOK'
  <2>1. "probe" \in Label
    BY DEF Label
  <2> QED
    BY <1>1, <1>2, <2>1, BoundsAssumption DEF Release, Forget, IInv, TypeOK
<1>4. /\ \A n \in Name : dir'[n] \in {0, dir[n]}
      /\ dir'[MANIFEST] = dir[MANIFEST]
      /\ \A n \in referenced_files(current) : dir'[n] = dir[n]
  BY <1>1
<1>5. unread'[p] = {} /\ view'[p] \in {0, view[p]}
  BY <1>1, <1>2
<1> QED
  BY <1>1, <1>2, <1>3, <1>4, <1>5, LetsGo

\* What Fail and Kill have in common.
LEMMA AbandonIInv ==
    ASSUME IInv, NEW p \in Proc, lock = p, Release(p), Return(p, "idle"), Abandon(p),
           txn' = txn, dir' \in [Name -> 0 .. MaxTxn],
           dir'[MANIFEST] = dir[MANIFEST],
           \A n \in Name : dir'[n] \in {0, dir[n]},
           \A n \in referenced_files(current) : dir'[n] = dir[n]
    PROVE  IInv'
<1>1. /\ pc' = [pc EXCEPT ![p] = "idle"]
      /\ unread' = [unread EXCEPT ![p] = {}] /\ attempts' = [attempts EXCEPT ![p] = 0]
      /\ view' = [view EXCEPT ![p] = 0] /\ op' = [op EXCEPT ![p] = "open"]
      /\ sources' = [sources EXCEPT ![p] = {}]
  BY DEF Return, Goto
<1>2. /\ Forget(p)
      /\ written' = IF mine[p] > 0 /\ dir[MANIFEST] # mine[p]
                    THEN [written EXCEPT ![mine[p]] = NoManifest] ELSE written
  BY DEF Abandon
<1>3. written' \in [Stamp -> Manifest]
  BY <1>2, NoManifestFacts DEF IInv, TypeOK, WellFormed
<1>4. TypeOK'
  <2>1. "idle" \in Label /\ "open" \in Operation
    BY DEF Label, Resting, Operation
  <2>2. lock' \in Proc \cup {Nobody}
    BY DEF Release
  <2> QED
    BY <1>1, <1>2, <1>3, <2>1, <2>2, BoundsAssumption, ProcessAssumption
    DEF Forget, IInv, TypeOK
<1>5. /\ view'[p] \in {0, view[p]} /\ unread'[p] = {}
      /\ \A q \in Proc \ {p} : view'[q] = view[q] /\ unread'[q] = unread[q]
  BY <1>1 DEF IInv, TypeOK
<1>6. "idle" \in Resting \cup {"probe"}
  BY DEF Resting
<1> QED
  BY <1>1, <1>2, <1>4, <1>5, <1>6, LetsGo

LEMMA FailIInv ==
    ASSUME IInv, NEW p \in Proc, Fail(p)
    PROVE  IInv'
<1>1. /\ pc[p] = "write" /\ Release(p) /\ Return(p, "idle") /\ Abandon(p) /\ txn' = txn
  BY DEF Fail
<1>2. PICK gone \in SUBSET (Made(mine[p]) \ todo[p]) : Remove(gone)
  BY DEF Fail
<1>3. /\ lock = p /\ gone \subseteq DataName /\ gone \cap referenced_files(current) = {}
  BY <1>1, <1>2, WritingFacts
<1>4. /\ dir' = [n \in Name |-> IF n \in gone THEN 0 ELSE dir[n]]
      /\ MANIFEST \notin gone
  BY <1>2, <1>3, DataNames DEF Remove
<1>5. /\ dir'[MANIFEST] = dir[MANIFEST]
      /\ dir' \in [Name -> 0 .. MaxTxn]
      /\ \A n \in Name : dir'[n] \in {0, dir[n]}
      /\ \A n \in referenced_files(current) : dir'[n] = dir[n]
  BY <1>3, <1>4, CurrentFacts, DataNames, BoundsAssumption DEF IInv, TypeOK
<1> QED
  BY <1>1, <1>3, <1>5, AbandonIInv

LEMMA KillIInv ==
    ASSUME IInv, NEW p \in Proc, Kill(p)
    PROVE  IInv'
<1>1. /\ lock = p /\ Release(p) /\ Return(p, "idle") /\ Abandon(p)
      /\ txn' = txn /\ dir' = dir
  BY DEF Kill
<1>2. dir' \in [Name -> 0 .. MaxTxn]
  BY <1>1 DEF IInv, TypeOK
<1> QED
  BY <1>1, <1>2, AbandonIInv

-----------------------------------------------------------------------------
(* The theorems.                                                           *)

\* An index may start as what any well-formed manifest m, of a transaction t,
\* says, or as none.
LEMMA StartIsSafe ==
    ASSUME NEW manifests \in [Stamp -> Manifest], NEW t \in 0 .. MaxTxn,
           NEW started \in 0 .. MaxTxn, t <= started,
           StartsWith(manifests, t, started),
           \A u \in Stamp :
              /\ WellFormed(manifests[u])
              /\ \A n \in DataName : manifests[u].crc[n] <= u
              /\ \A n \in referenced_files(manifests[u]) : manifests[u].crc[n] > 0
              /\ u <= t => /\ Descends(manifests[u], ManifestOf(t))
                           /\ \A n \in referenced_files(manifests[u]) :
                                 n[1] # "ovl" => dir[n] \in {0, manifests[u].crc[n]}
              /\ u > t => manifests[u] = NoManifest
    PROVE  IInv
<1>1. /\ written = manifests /\ txn = started /\ lock = Nobody
      /\ dir = [n \in Name |-> IF n = MANIFEST THEN t
                               ELSE IF n \in referenced_files(ManifestOf(t)) THEN ManifestOf(t).crc[n]
                               ELSE 0]
      /\ pc = [p \in Proc |-> "idle"] /\ op = [p \in Proc |-> "open"]
      /\ view = [p \in Proc |-> 0] /\ unread = [p \in Proc |-> {}]
      /\ attempts = [p \in Proc |-> 0] /\ sources = [p \in Proc |-> {}]
      /\ mine = [p \in Proc |-> 0] /\ todo = [p \in Proc |-> {}] /\ retire = [p \in Proc |-> {}]
  BY DEF StartsWith
<1>2. dir[MANIFEST] = t /\ current = ManifestOf(t)
  BY <1>1, DataNames DEF current
<1>3. ManifestOf(t) \in Manifest /\ referenced_files(ManifestOf(t)) \subseteq DataName
  <2>1. t # 0 => t \in Stamp
    BY BoundsAssumption DEF Stamp
  <2>2. ManifestOf(t) \in Manifest
    BY <1>1, <2>1, NoManifestFacts DEF ManifestOf, WellFormed
  <2> QED
    BY <2>2, ReferencedTyping
<1>4. dir \in [Name -> 0 .. MaxTxn]
  <2>1. \A n \in DataName : ManifestOf(t).crc[n] \in 0 .. MaxTxn
    BY <1>3 DEF Manifest
  <2> QED
    BY <1>1, <1>3, <2>1, BoundsAssumption
<1>5. \A n \in referenced_files(ManifestOf(t)) : dir[n] = ManifestOf(t).crc[n]
  BY <1>1, <1>3, DataNames
<1>6. TypeOK
  BY <1>1, <1>4, BoundsAssumption, ProcessAssumption DEF TypeOK, Label, Resting, Operation
<1>7. LockHeld
  BY <1>1, ProcessAssumption DEF LockHeld, Inside
<1>8. Manifests
  <2>1. \A u \in Stamp : u <= t \/ u > t
    BY BoundsAssumption DEF Stamp
  <2> QED
    BY <1>1, <1>2, <2>1 DEF Manifests
<1>9. IndexComplete /\ Lineage
  BY <1>1, <1>2, <1>5 DEF IndexComplete, Lineage
<1>10. Readers
  BY <1>1, <1>2, BoundsAssumption DEF Readers
<1>11. Writing /\ UncommittedKept /\ Retiring
  BY <1>1 DEF Writing, UncommittedKept, Retiring
<1> QED
  BY <1>6, <1>7, <1>8, <1>9, <1>10, <1>11 DEF IInv

LEMMA InitIInv == Init => IInv
<1> DEFINE none == [t \in Stamp |-> NoManifest]
<1>1. NoManifest \in Manifest /\ \A n \in DataName : NoManifest.crc[n] = 0
  BY NoManifestFacts DEF WellFormed, NoManifest
<1>2. none \in [Stamp -> Manifest] /\ 0 \in 0 .. MaxTxn
  BY <1>1, BoundsAssumption
<1>3. ASSUME NEW u \in Stamp
      PROVE  /\ WellFormed(none[u])
             /\ \A n \in DataName : none[u].crc[n] <= u
             /\ \A n \in referenced_files(none[u]) : none[u].crc[n] > 0
             /\ ~(u <= 0) /\ none[u] = NoManifest
  BY <1>1, NoManifestFacts, BoundsAssumption DEF Stamp
<1> HIDE DEF none
<1> SUFFICES ASSUME StartsWith(none, 0, 0) PROVE IInv
  BY DEF Init, none
<1> QED
  BY <1>2, <1>3, StartIsSafe

LEMMA NextIInv ==
    ASSUME IInv, Next
    PROVE  IInv'
<1>1. PICK p \in Proc : Open(p) \/ Write(p) \/ Kill(p)
  BY DEF Next
<1>2. CASE Open(p)
  BY <1>2, StartOpenIInv, ProbeLockIInv, NoIndexIInv, ReadManifestIInv, SweepIInv,
     OpenFileIInv, VanishedIInv, MismatchIInv, OpenedIInv
  DEF Open
<1>3. CASE Write(p)
  <2>1. CASE StartBuild(p) \/ StartUpdate(p) \/ StartMerge(p)
    <3>1. {"build", "update", "merge"} \subseteq Operation
      BY DEF Operation
    <3> QED
      BY <2>1, <3>1, StartIInv DEF StartBuild, StartUpdate, StartMerge
  <2>2. CASE TakeLock(p) \/ LockTimeout(p) \/ Baseline(p) \/ PrepareMerge(p) \/ NothingToCommit(p)
    BY <2>2, TakeLockIInv, LockTimeoutIInv, BaselineIInv, PrepareMergeIInv, NothingToCommitIInv
  <2>3. CASE PlanBuild(p) \/ PlanUpdate(p) \/ PlanMerge(p)
    BY <2>3, PlanBuildIInv, PlanUpdateIInv, PlanMergeIInv
  <2>4. CASE WriteFile(p) \/ RenameManifest(p) \/ RetireFile(p) \/ Unlock(p) \/ Fail(p)
    BY <2>4, WriteFileIInv, RenameManifestIInv, RetireFileIInv, UnlockIInv, FailIInv
  <2> QED
    BY <1>3, <2>1, <2>2, <2>3, <2>4 DEF Write
<1>4. CASE Kill(p)
  BY <1>4, KillIInv
<1> QED
  BY <1>1, <1>2, <1>3, <1>4

LEMMA StutterIInv ==
    ASSUME IInv, UNCHANGED vars
    PROVE  IInv'
<1>1. UNCHANGED <<dir, written, txn, lock, pc, op, view, unread, attempts, sources,
                 mine, todo, retire>>
  BY DEF vars, store, locals, commits
<1>2. /\ current' = current /\ plan' = plan
      /\ \A t : ManifestOf(t)' = ManifestOf(t) /\ Made(t)' = Made(t)
  BY <1>1 DEF current, ManifestOf, plan, Made
<1>3. TypeOK' /\ LockHeld' /\ Manifests'
  BY <1>1 DEF IInv, TypeOK, LockHeld, Manifests
<1>4. IndexComplete' /\ Lineage' /\ Readers'
  BY <1>1, <1>2 DEF IInv, IndexComplete, Lineage, Readers
<1>5. Writing' /\ UncommittedKept' /\ Retiring'
  BY <1>1, <1>2 DEF IInv, Writing, UncommittedKept, Retiring
<1> QED
  BY <1>3, <1>4, <1>5 DEF IInv

\* The inductive invariant holds in every reachable state.
THEOREM Invariance == Spec => []IInv
<1>1. IInv /\ [Next]_vars => IInv'
  BY NextIInv, StutterIInv
<1> QED
  BY <1>1, InitIInv, PTL DEF Spec

\* Every variable of open, take_lock and commit keeps its type; in particular
\* an open makes a bounded number of attempts.
THEOREM TypeCorrect == Spec => []TypeOK
<1>1. IInv => TypeOK
  BY DEF IInv
<1> QED
  BY <1>1, Invariance, PTL

\* However many processes open, sweep, build, update, merge, fail and are
\* killed (Fail, Kill), MANIFEST references files that are there, as they were
\* committed.
THEOREM NeverMissingAFile == Spec => []IndexComplete
<1>1. IInv => IndexComplete
  BY DEF IInv
<1> QED
  BY <1>1, Invariance, PTL

\* The sweep of an open leaves the files of a commit under way alone.
THEOREM SweepsSpareWriters == Spec => []UncommittedKept
<1>1. IInv => UncommittedKept
  BY DEF IInv
<1> QED
  BY <1>1, Invariance, PTL

\* An open that works from any manifest that was ever in force finds of a
\* segment what that manifest committed, or nothing, and never other bytes.
THEOREM ImmutableSegments == Spec => []SegmentsImmutable
<1>1. IInv => SegmentsImmutable
  <2> SUFFICES ASSUME IInv, NEW p \in Proc, NEW n \in unread[p], n[1] # "ovl"
               PROVE  dir[n] \in {0, ManifestOf(view[p]).crc[n]}
    BY DEF SegmentsImmutable
  <2>1. /\ view[p] \in 0 .. MaxTxn /\ view[p] <= dir[MANIFEST]
        /\ n \in referenced_files(ManifestOf(view[p]))
    BY DEF IInv, TypeOK, Readers
  <2>2. view[p] # 0
    BY <2>1, NoManifestFacts DEF ManifestOf
  <2>3. view[p] \in Stamp /\ ManifestOf(view[p]) = written[view[p]]
    BY <2>1, <2>2, BoundsAssumption DEF Stamp, ManifestOf
  <2> QED
    BY <2>1, <2>3 DEF IInv, Lineage
<1> QED
  BY <1>1, Invariance, PTL

\* Every commit is made on top of the manifest in force (the index is opened
\* again under LOCK), so that no other writer's commit is lost.
THEOREM CommitsAreKept == Spec => NoLostCommit
<1> DEFINE Kept == dir'[MANIFEST] # dir[MANIFEST] =>
          ManifestOf(dir[MANIFEST]).generation + 1 = written'[dir'[MANIFEST]].generation
<1>1. IInv /\ [Next]_vars => [Kept]_vars
  <2> SUFFICES ASSUME IInv, Next, dir'[MANIFEST] # dir[MANIFEST]
               PROVE  ManifestOf(dir[MANIFEST]).generation + 1
                        = written'[dir'[MANIFEST]].generation
    OBVIOUS
  <2>1. PICK p \in Proc : Open(p) \/ Write(p) \/ Kill(p)
    BY DEF Next
  <2>2. CASE RenameManifest(p)
    <3>1. /\ dir'[MANIFEST] = txn /\ written' = written
      BY <2>2, WritingFacts, DataNames DEF RenameManifest, IInv, TypeOK
    <3> QED
      BY <2>2, <3>1, WritingFacts DEF RenameManifest, Succeeds, current, plan
  <2>3. CASE Sweep(p)
    BY <2>3, DataNames DEF Sweep, Remove, Orphans, is_cleanable
  <2>4. CASE WriteFile(p)
    BY <2>4, WritingFacts, DataNames DEF WriteFile
  <2>5. CASE RetireFile(p)
    BY <2>5, DataNames DEF RetireFile, IInv, TypeOK
  <2>6. CASE Fail(p)
    <3>1. PICK gone \in SUBSET (Made(mine[p]) \ todo[p]) : Remove(gone)
      BY <2>6 DEF Fail
    <3> QED
      BY <3>1, DataNames DEF Made, Remove
  <2>7. CASE UNCHANGED dir
    BY <2>7
  <2>8. \/ RenameManifest(p) \/ Sweep(p) \/ WriteFile(p) \/ RetireFile(p) \/ Fail(p)
        \/ UNCHANGED dir
    BY <2>1 DEF Open, Write, StartOpen, ProbeLock, NoIndex, ReadManifest, OpenFile, Vanished,
        Mismatch, Opened, StartBuild, StartUpdate, StartMerge, Start, TakeLock, LockTimeout,
        Baseline, PrepareMerge, PlanBuild, PlanUpdate, PlanMerge, Commit, NothingToCommit,
        Unlock, Kill, store
  <2> QED
    BY <2>2, <2>3, <2>4, <2>5, <2>6, <2>7, <2>8
<1> QED
  BY <1>1, Invariance, PTL DEF Spec, NoLostCommit

\* An open that does not find a file, or finds another, has been overtaken: its
\* retry reads a later manifest.
THEOREM RetriesProgress == Spec => RetrySeesProgress
<1> DEFINE Overtaken == \A p \in Proc : Vanished(p) \/ Mismatch(p) => dir[MANIFEST] > view[p]
<1>1. IInv => Overtaken
  <2> SUFFICES ASSUME IInv, NEW p \in Proc, Vanished(p) \/ Mismatch(p)
               PROVE  dir[MANIFEST] > view[p]
    OBVIOUS
  <2>1. PICK n \in unread[p] : dir[n] = 0 \/ dir[n] # ManifestOf(view[p]).crc[n]
    BY DEF Vanished, Mismatch
  <2>2. /\ view[p] \in 0 .. MaxTxn /\ view[p] <= dir[MANIFEST]
        /\ n \in referenced_files(ManifestOf(view[p]))
    BY DEF IInv, TypeOK, Readers
  <2>3. ManifestOf(view[p]).crc[n] > 0
    BY <2>2, ManifestFacts DEF IInv
  <2>4. dir[n] # ManifestOf(view[p]).crc[n]
    BY <2>1, <2>3
  <2>5. view[p] # dir[MANIFEST]
    BY <2>2, <2>4 DEF IInv, IndexComplete, current
  <2> QED
    BY <2>2, <2>5, CurrentFacts
<1>2. IInv /\ [Next]_vars => [Overtaken]_vars
  BY <1>1
<1> QED
  BY <1>2, Invariance, PTL DEF Spec, RetrySeesProgress


-----------------------------------------------------------------------------
(* The refinement.                                                         *)

\* The index others see depends on the manifest in force alone: whatever else
\* a step does to the directory cannot be seen.
LEMMA SameManifestSameIndex ==
    ASSUME IInv, IInv', current' = current, dir'[MANIFEST] = dir[MANIFEST]
    PROVE  UNCHANGED Shared!index
<1>1. \A n \in referenced_files(current) : dir'[n] = dir[n]
  BY DEF IInv, IndexComplete
<1>2. files' = files
  BY <1>1 DEF files
<1> QED
  BY <1>2 DEF Shared!index

\* The manifest in force is not forgotten when an abandoned one is, and a new
\* plan does not replace it.
LEMMA SameDirectorySameIndex ==
    ASSUME IInv, IInv', dir'[MANIFEST] = dir[MANIFEST],
           \A t \in 1 .. dir[MANIFEST] : written'[t] = written[t]
    PROVE  UNCHANGED Shared!index
<1>1. dir[MANIFEST] \in Nat
  BY CurrentFacts
<1>2. current' = current
  BY <1>1 DEF current, ManifestOf
<1> QED
  BY <1>2, SameManifestSameIndex

\* A process that goes to another label is all that changes inside ...
LEMMA InsideMoves ==
    ASSUME TypeOK, NEW p \in Proc, NEW label, Goto(p, label)
    PROVE  inside' = IF label \in Inside THEN inside \cup {p} ELSE inside \ {p}
BY DEF Goto, TypeOK, inside

\* ... and of the opens.
LEMMA SeenMoves ==
    ASSUME TypeOK, NEW p \in Proc, NEW label, Goto(p, label),
           NEW v, view' = [view EXCEPT ![p] = v]
    PROVE  seen' = [seen EXCEPT ![p] = IF label \in Opening THEN v ELSE 0]
BY DEF Goto, TypeOK, seen

LEMMA FailedMoves ==
    ASSUME TypeOK, NEW p \in Proc, NEW label, Goto(p, label)
    PROVE  failed' = [failed EXCEPT ![p] = label \in {"gave_up", "corrupt"}]
BY DEF Goto, TypeOK, failed

\* Nothing happens to what a process has not changed.
LEMMA SeenStays ==
    ASSUME TypeOK, NEW p \in Proc, NEW label, Goto(p, label), label \notin Opening,
           pc[p] \notin Opening, \A q \in Proc \ {p} : view'[q] = view[q]
    PROVE  seen' = seen
BY DEF Goto, TypeOK, seen

LEMMA FailedStays ==
    ASSUME TypeOK, NEW p \in Proc, NEW label, Goto(p, label), label \notin {"gave_up", "corrupt"},
           pc[p] \notin {"gave_up", "corrupt"}
    PROVE  failed' = failed
BY DEF Goto, TypeOK, failed

\* LOCK keeps everyone else outside.
LEMMA InsideIsAlone ==
    ASSUME IInv
    PROVE  /\ lock = Nobody => inside = {}
           /\ \A p \in Proc : pc[p] \in Inside => inside = {p}
           /\ \A p \in Proc : p \in inside <=> pc[p] \in Inside
<1>1. \A p \in Proc : p \in inside <=> lock = p
  BY DEF inside, IInv, LockHeld
<1>2. inside \subseteq Proc
  BY DEF inside
<1> QED
  BY <1>1, <1>2, ProcessAssumption DEF IInv, LockHeld

\* The end of an operation that has not failed, wherever it ends.
LEMMA ReturnIsDone ==
    ASSUME IInv, IInv', NEW p \in Proc, Return(p, "idle"), unread[p] = {},
           pc[p] \notin Resting, UNCHANGED Shared!index
    PROVE  Shared!Done(p)
<1>1. Goto(p, "idle") /\ view' = [view EXCEPT ![p] = 0] /\ TypeOK
  BY DEF Return, IInv
<1>2. inside' = inside \ {p} /\ seen' = [seen EXCEPT ![p] = 0]
  BY <1>1, InsideMoves, SeenMoves DEF Inside, Opening
<1>3. failed' = failed
  BY <1>1, FailedStays DEF Resting
<1>4. /\ unread' = [unread EXCEPT ![p] = {}]
      /\ attempts' = [attempts EXCEPT ![p] = 0]
  BY DEF Return
<1> QED
  BY <1>2, <1>3, <1>4 DEF Shared!Done, Shared!Over

\* LOCK is taken, by a probe or by a writer.
LEMMA TakenIsEnter ==
    ASSUME IInv, IInv', NEW p \in Proc, NEW label \in Inside \ Opening, lock = Nobody,
           Goto(p, label), pc[p] \in {"probe", "take_lock", "take_lock_to_probe"},
           UNCHANGED <<store, view, unread, attempts>>
    PROVE  Shared!Enter(p)
<1>1. UNCHANGED Shared!index
  BY SameDirectorySameIndex DEF store
<1>2. inside = {} /\ inside' = {p}
  BY InsideIsAlone, InsideMoves DEF IInv
<1>3. seen' = seen
  BY SeenStays DEF IInv, Opening
<1>4. failed' = failed
  BY FailedStays DEF IInv, Inside
<1> QED
  BY <1>1, <1>2, <1>3, <1>4 DEF Shared!Enter, Shared!opens

\* LOCK is dropped by a process that goes on.
LEMMA DroppedIsLeave ==
    ASSUME IInv, IInv', NEW p \in Proc, NEW label \in Label \ Inside,
           label \notin Resting, label \in Opening <=> pc[p] \in Opening,
           pc[p] \in Inside, Goto(p, label),
           UNCHANGED <<written, view, unread, attempts>>, dir'[MANIFEST] = dir[MANIFEST]
    PROVE  Shared!Leave(p)
<1>1. UNCHANGED Shared!index
  BY SameDirectorySameIndex
<1>2. p \in inside /\ inside' = inside \ {p}
  BY InsideIsAlone, InsideMoves DEF IInv
<1>3. seen' = seen
  BY DEF Goto, IInv, TypeOK, seen
<1>4. failed' = failed
  BY FailedStays DEF IInv, Inside, Resting
<1> QED
  BY <1>1, <1>2, <1>3, <1>4 DEF Shared!Leave, Shared!opens


\* A process goes on with what it does, and nobody can see it.
LEMMA UnseenStep ==
    ASSUME IInv, IInv', NEW p \in Proc, NEW label \in Label \ (Resting \cup Opening),
           pc[p] \notin Resting \cup Opening, label \in Inside <=> pc[p] \in Inside,
           Goto(p, label), UNCHANGED <<unread, attempts>>,
           \A q \in Proc \ {p} : view'[q] = view[q],
           UNCHANGED Shared!index
    PROVE  UNCHANGED <<Shared!index, inside, Shared!opens>>
<1>1. inside' = inside
  BY DEF Goto, IInv, TypeOK, inside
<1>2. seen' = seen
  BY SeenStays DEF IInv
<1>3. failed' = failed
  BY FailedStays DEF IInv, Resting
<1> QED
  BY <1>1, <1>2, <1>3 DEF Shared!opens

\* An operation begins.
LEMMA BeginMaps ==
    ASSUME IInv, IInv', NEW p \in Proc, NEW label \in Label \ (Resting \cup Opening \cup Inside),
           pc[p] \in Resting, Goto(p, label), UNCHANGED <<store, view, unread, attempts>>
    PROVE  Shared!Ask(p)
<1>1. UNCHANGED Shared!index
  BY SameDirectorySameIndex DEF store
<1>2. inside' = inside
  <2>1. pc[p] \notin Inside
    BY DEF Resting, Inside
  <2> QED
    BY <2>1, InsideMoves, InsideIsAlone DEF IInv
<1>3. seen' = seen
  BY SeenStays DEF IInv, Opening, Resting
<1>4. failed' = [failed EXCEPT ![p] = FALSE]
  <2>1. (label \in {"gave_up", "corrupt"}) = FALSE
    BY DEF Resting
  <2>2. failed' = [failed EXCEPT ![p] = label \in {"gave_up", "corrupt"}]
    BY FailedMoves DEF IInv
  <2> QED
    BY <2>1, <2>2, Zenon
<1> QED
  BY <1>1, <1>2, <1>3, <1>4 DEF Shared!Ask

LEMMA StartOpenMaps ==
    ASSUME IInv, IInv', NEW p \in Proc, StartOpen(p)
    PROVE  Shared!Ask(p)
<1>1. /\ pc[p] \in Resting /\ Goto(p, "probe")
      /\ UNCHANGED <<store, view, unread, attempts>>
  BY DEF StartOpen
<1>2. "probe" \in Label \ (Resting \cup Opening \cup Inside)
  BY DEF Label, Resting, Opening, Inside
<1> QED
  BY <1>1, <1>2, BeginMaps

LEMMA StartMaps ==
    ASSUME IInv, IInv', NEW p \in Proc, StartBuild(p) \/ StartUpdate(p) \/ StartMerge(p)
    PROVE  Shared!Ask(p)
<1>1. PICK label \in {"take_lock", "take_lock_to_probe", "probe"} :
         /\ pc[p] \in Resting /\ Goto(p, label)
         /\ UNCHANGED <<store, view, unread, attempts>>
  BY DEF StartBuild, StartUpdate, StartMerge, Start
<1>2. label \in Label \ (Resting \cup Opening \cup Inside)
  BY DEF Label, Resting, Opening, Inside
<1> QED
  BY <1>1, <1>2, BeginMaps

\* The probe of an open takes LOCK and is inside, or goes on without it.
LEMMA ProbeLockMaps ==
    ASSUME IInv, IInv', NEW p \in Proc, ProbeLock(p)
    PROVE  Shared!Enter(p) \/ UNCHANGED <<Shared!index, inside, Shared!opens>>
<1>1. pc[p] = "probe" /\ UNCHANGED <<store, view, unread, attempts>>
  BY DEF ProbeLock, locals
<1>2. CASE lock = Nobody /\ Goto(p, "read_locked")
  <2>1. "read_locked" \in Inside \ Opening
    BY DEF Inside, Opening
  <2> QED
    BY <1>1, <1>2, <2>1, TakenIsEnter
<1>3. CASE Goto(p, "read")
  <2>1. /\ "read" \in Label \ (Resting \cup Opening) /\ "read" \notin Inside
        /\ pc[p] \notin Resting \cup Opening /\ pc[p] \notin Inside
    BY <1>1 DEF Label, Resting, Opening, Inside
  <2>2. UNCHANGED Shared!index
    BY <1>1, SameDirectorySameIndex DEF store
  <2> QED
    BY <1>1, <1>3, <2>1, <2>2, UnseenStep
<1> QED
  BY <1>2, <1>3 DEF ProbeLock

LEMMA TakeLockMaps ==
    ASSUME IInv, IInv', NEW p \in Proc, TakeLock(p)
    PROVE  Shared!Enter(p)
<1>1. PICK label \in {"plan", "baseline"} :
         /\ pc[p] \in {"take_lock", "take_lock_to_probe"} /\ lock = Nobody
         /\ Goto(p, label) /\ UNCHANGED <<store, view, unread, attempts>>
  BY DEF TakeLock, locals
<1>2. label \in Inside \ Opening
  BY DEF Inside, Opening
<1> QED
  BY <1>1, <1>2, TakenIsEnter

\* Operations that end without a commit.
LEMMA EndMaps ==
    ASSUME IInv, IInv', NEW p \in Proc,
           NoIndex(p) \/ Opened(p) \/ LockTimeout(p) \/ NothingToCommit(p)
    PROVE  Shared!Done(p)
<1>1. /\ pc[p] \in {"read", "read_locked", "files", "take_lock", "take_lock_to_probe", "plan"}
      /\ pc[p] = "files" => unread[p] = {}
      /\ Return(p, "idle") /\ UNCHANGED store
  BY DEF NoIndex, Opened, LockTimeout, NothingToCommit
<1>2. unread[p] = {} /\ pc[p] \notin Resting
  BY <1>1 DEF IInv, Readers, Resting
<1>3. UNCHANGED Shared!index
  BY <1>1, SameDirectorySameIndex DEF store
<1> QED
  BY <1>1, <1>2, <1>3, ReturnIsDone

\* The open of a merge is over before the merge asks for LOCK.
LEMMA PrepareMergeMaps ==
    ASSUME IInv, IInv', NEW p \in Proc, PrepareMerge(p)
    PROVE  Shared!Done(p)
<1>1. /\ pc[p] = "files" /\ unread[p] = {} /\ UNCHANGED store
  BY DEF PrepareMerge
<1>2. UNCHANGED Shared!index
  BY <1>1, SameDirectorySameIndex DEF store
<1>3. CASE Return(p, "idle")
  BY <1>1, <1>2, <1>3, ReturnIsDone DEF Resting
<1>4. CASE /\ Goto(p, "take_lock") /\ UNCHANGED <<view, unread>>
           /\ attempts' = [attempts EXCEPT ![p] = 0]
  <2>1. inside' = inside \ {p}
    BY <1>4, InsideMoves DEF Inside, IInv
  <2>2. seen' = [seen EXCEPT ![p] = 0]
    BY <1>4 DEF Goto, IInv, TypeOK, seen, Opening
  <2>3. failed' = failed
    BY <1>1, <1>4, FailedStays DEF IInv
  <2>4. unread' = [unread EXCEPT ![p] = {}]
    BY <1>1, <1>4 DEF IInv, TypeOK
  <2> QED
    BY <1>1, <1>2, <1>4, <2>1, <2>2, <2>3, <2>4 DEF Shared!Done, Shared!Over
<1> QED
  BY <1>3, <1>4 DEF PrepareMerge


\* An open settles for the manifest it reads, and has all of its files to find.
LEMMA ReadManifestMaps ==
    ASSUME IInv, IInv', NEW p \in Proc, ReadManifest(p)
    PROVE  Shared!Look(p)
<1>1. /\ pc[p] \in {"read", "read_locked"} /\ dir[MANIFEST] # 0
      /\ view' = [view EXCEPT ![p] = dir[MANIFEST]]
      /\ unread' = [unread EXCEPT ![p] = referenced_files(current)]
      /\ Goto(p, IF pc[p] = "read" THEN "files" ELSE "sweep")
      /\ UNCHANGED <<store, attempts>>
  BY DEF ReadManifest
<1>2. UNCHANGED Shared!index
  BY <1>1, SameDirectorySameIndex DEF store
<1>3. inside' = inside
  BY <1>1 DEF Goto, IInv, TypeOK, inside, Inside
<1>4. seen' = [seen EXCEPT ![p] = dir[MANIFEST]]
  BY <1>1, SeenMoves DEF IInv, Opening
<1>5. failed' = failed
  BY <1>1, FailedStays DEF IInv
<1>6. referenced_files(current) = {n \in DataName : files[n] # 0}
  BY CurrentFacts DEF files, IInv, IndexComplete
<1> QED
  BY <1>1, <1>2, <1>3, <1>4, <1>5, <1>6 DEF Shared!Look

LEMMA OpenFileMaps ==
    ASSUME IInv, IInv', NEW p \in Proc, OpenFile(p)
    PROVE  Shared!Take(p)
<1>1. PICK n \in unread[p] : unread' = [unread EXCEPT ![p] = @ \ {n}]
  BY DEF OpenFile
<1>2. UNCHANGED <<store, pc, view, attempts>>
  BY DEF OpenFile
<1>3. UNCHANGED Shared!index
  BY <1>2, SameDirectorySameIndex DEF store
<1>4. UNCHANGED <<inside, seen, failed>>
  BY <1>2 DEF inside, seen, failed
<1> QED
  BY <1>1, <1>2, <1>3, <1>4 DEF Shared!Take

\* A file that is not there, or is another, is one that a later commit has
\* replaced.
LEMMA FileLostMeansOvertaken ==
    ASSUME IInv, NEW p \in Proc, Vanished(p) \/ Mismatch(p)
    PROVE  /\ pc[p] = "files" /\ UNCHANGED store
           /\ Shared!Overtaken(p)
<1>1. PICK n \in unread[p] : NextFile(p, n) /\ (dir[n] = 0 \/ dir[n] # ManifestOf(view[p]).crc[n])
  BY DEF Vanished, Mismatch
<1>2. /\ view[p] \in 0 .. MaxTxn /\ view[p] <= dir[MANIFEST]
      /\ n \in referenced_files(ManifestOf(view[p]))
  BY DEF IInv, TypeOK, Readers
<1>3. ManifestOf(view[p]).crc[n] > 0
  BY <1>2, ManifestFacts DEF IInv
<1>4. dir[n] # ManifestOf(view[p]).crc[n]
  BY <1>1, <1>3
<1>5. view[p] # dir[MANIFEST]
  BY <1>2, <1>4 DEF IInv, IndexComplete, current
<1>6. view[p] # 0
  BY <1>2, NoManifestFacts DEF ManifestOf
<1>7. view[p] \in Nat /\ 0 < view[p] /\ view[p] < dir[MANIFEST]
  BY <1>2, <1>5, <1>6, CurrentFacts, BoundsAssumption
<1>8. pc[p] = "files"
  BY <1>1 DEF NextFile
<1>9. seen[p] = view[p]
  BY <1>8 DEF seen, Opening
<1> QED
  BY <1>7, <1>8, <1>9 DEF Shared!Overtaken, Vanished, Mismatch

LEMMA OvertakenMaps ==
    ASSUME IInv, IInv', NEW p \in Proc, Vanished(p) \/ Mismatch(p)
    PROVE  Shared!StartOver(p) \/ Shared!GiveUp(p)
<1>1. pc[p] = "files" /\ UNCHANGED store /\ Shared!Overtaken(p)
  BY FileLostMeansOvertaken
<1>2. UNCHANGED Shared!index
  BY <1>1, SameDirectorySameIndex DEF store
<1>3. CASE /\ attempts' = [attempts EXCEPT ![p] = @ + 1]
           /\ unread' = [unread EXCEPT ![p] = {}]
           /\ view' = [view EXCEPT ![p] = 0]
           /\ Goto(p, "probe")
  <2>1. inside' = inside
    BY <1>1, <1>3 DEF Goto, IInv, TypeOK, inside, Inside
  <2>2. seen' = [seen EXCEPT ![p] = 0]
    BY <1>3, SeenMoves DEF IInv, Opening
  <2>3. failed' = failed
    BY <1>1, <1>3, FailedStays DEF IInv
  <2> QED
    BY <1>1, <1>2, <1>3, <2>1, <2>2, <2>3 DEF Shared!StartOver, Shared!Over
<1>4. ASSUME NEW result \in {"gave_up", "corrupt"}, Return(p, result)
      PROVE  Shared!GiveUp(p)
  <2>1. /\ Goto(p, result) /\ view' = [view EXCEPT ![p] = 0]
        /\ unread' = [unread EXCEPT ![p] = {}]
        /\ attempts' = [attempts EXCEPT ![p] = 0]
    BY <1>4 DEF Return
  <2>2. inside' = inside
    BY <1>1, <2>1 DEF Goto, IInv, TypeOK, inside, Inside
  <2>3. seen' = [seen EXCEPT ![p] = 0]
    BY <2>1, SeenMoves DEF IInv, Opening
  <2>4. failed' = [failed EXCEPT ![p] = TRUE]
    BY <2>1, FailedMoves DEF IInv
  <2> QED
    BY <1>1, <1>2, <2>1, <2>2, <2>3, <2>4 DEF Shared!GiveUp, Shared!Over
<1> QED
  BY <1>3, <1>4 DEF Vanished, Mismatch

\* LOCK is dropped after a sweep, between the two times an update takes it, and
\* at the end of a commit.
LEMMA SweepMaps ==
    ASSUME IInv, IInv', NEW p \in Proc, Sweep(p)
    PROVE  Shared!Leave(p)
<1>1. PICK gone \in SUBSET Orphans(ManifestOf(view[p])) : Remove(gone)
  BY DEF Sweep
<1>2. dir'[MANIFEST] = dir[MANIFEST]
  BY <1>1, DataNames DEF Remove, Orphans, is_cleanable
<1>3. /\ pc[p] = "sweep" /\ Goto(p, "files")
      /\ UNCHANGED <<written, view, unread, attempts>>
  BY DEF Sweep, locals
<1>4. /\ "files" \in Label \ Inside /\ "files" \notin Resting
      /\ pc[p] \in Inside /\ "files" \in Opening /\ pc[p] \in Opening
  BY <1>3 DEF Label, Inside, Resting, Opening
<1> QED
  BY <1>2, <1>3, <1>4, DroppedIsLeave

LEMMA BaselineMaps ==
    ASSUME IInv, IInv', NEW p \in Proc, Baseline(p)
    PROVE  Shared!Leave(p)
<1>1. /\ pc[p] = "baseline" /\ Goto(p, "take_lock")
      /\ UNCHANGED <<dir, written, view, unread, attempts>>
  BY DEF Baseline, store
<1>2. /\ "take_lock" \in Label \ Inside /\ "take_lock" \notin Resting
      /\ pc[p] \in Inside /\ "take_lock" \notin Opening /\ pc[p] \notin Opening
  BY <1>1 DEF Label, Inside, Resting, Opening
<1> QED
  BY <1>1, <1>2, DroppedIsLeave

LEMMA UnlockMaps ==
    ASSUME IInv, IInv', NEW p \in Proc, Unlock(p)
    PROVE  Shared!Leave(p)
<1>1. /\ pc[p] = "retire" /\ Goto(p, "probe")
      /\ UNCHANGED <<dir, written, view, unread, attempts>>
  BY DEF Unlock, store, locals
<1>2. /\ "probe" \in Label \ Inside /\ "probe" \notin Resting
      /\ pc[p] \in Inside /\ "probe" \notin Opening /\ pc[p] \notin Opening
  BY <1>1 DEF Label, Inside, Resting, Opening
<1> QED
  BY <1>1, <1>2, DroppedIsLeave


\* What is decided under LOCK cannot be seen before the commit point.
LEMMA PlanMaps ==
    ASSUME IInv, IInv', NEW p \in Proc, PlanBuild(p) \/ PlanUpdate(p) \/ PlanMerge(p)
    PROVE  UNCHANGED <<Shared!index, inside, Shared!opens>>
<1>1. /\ pc[p] = "plan" /\ Goto(p, "write")
      /\ written' = [written EXCEPT ![txn + 1] = written'[txn + 1]]
      /\ view' = [view EXCEPT ![p] = 0]
      /\ UNCHANGED <<dir, unread, attempts>>
  <2>1. pc[p] = "plan" /\ \E tr : Commit(p, tr)
    BY DEF PlanBuild, PlanUpdate, PlanMerge
  <2> QED
    BY <2>1 DEF Commit, IInv, TypeOK
<1>2. \A t \in 1 .. dir[MANIFEST] : written'[t] = written[t]
  <2> SUFFICES ASSUME NEW t \in 1 .. dir[MANIFEST]
               PROVE  written'[t] = written[t]
    OBVIOUS
  <2>1. t \in Stamp /\ t # txn + 1
    BY CurrentFacts, BoundsAssumption DEF Stamp
  <2> QED
    BY <1>1, <2>1 DEF IInv, TypeOK
<1>3. UNCHANGED Shared!index
  BY <1>1, <1>2, SameDirectorySameIndex
<1>4. /\ "write" \in Label \ (Resting \cup Opening) /\ "write" \in Inside
      /\ pc[p] \notin Resting \cup Opening /\ pc[p] \in Inside
  BY <1>1 DEF Label, Resting, Opening, Inside
<1>5. \A q \in Proc \ {p} : view'[q] = view[q]
  BY <1>1 DEF IInv, TypeOK
<1> QED
  BY <1>1, <1>3, <1>4, <1>5, UnseenStep

\* Neither can the files that a writer puts in place before it, or unlinks after
\* it.
LEMMA FilesMap ==
    ASSUME IInv, IInv', NEW p \in Proc, WriteFile(p) \/ RetireFile(p)
    PROVE  UNCHANGED <<Shared!index, inside, Shared!opens>>
<1>1. UNCHANGED <<written, pc, view, unread, attempts>>
  BY DEF WriteFile, RetireFile, locals
<1>2. dir'[MANIFEST] = dir[MANIFEST]
  <2>1. todo[p] \subseteq DataName /\ retire[p] \subseteq DataName
    BY DEF IInv, TypeOK
  <2>2. CASE WriteFile(p)
    BY <2>1, <2>2, DataNames DEF WriteFile, IInv, TypeOK
  <2>3. CASE RetireFile(p)
    BY <2>1, <2>3, DataNames DEF RetireFile, IInv, TypeOK
  <2> QED
    BY <2>2, <2>3
<1>3. UNCHANGED Shared!index
  BY <1>1, <1>2, SameDirectorySameIndex
<1> QED
  BY <1>1, <1>3 DEF inside, seen, failed, Shared!opens

\* The commit point is the commit: each file is kept, gone, or new with it.
LEMMA CommitMaps ==
    ASSUME IInv, IInv', NEW p \in Proc, RenameManifest(p)
    PROVE  Shared!Commit(p)
<1>1. /\ pc[p] = "write" /\ todo[p] = {}
      /\ dir' = [dir EXCEPT ![MANIFEST] = mine[p]]
      /\ Goto(p, "retire")
      /\ UNCHANGED <<written, txn, view, unread, attempts>>
  BY DEF RenameManifest, locals
<1>2. /\ mine[p] = txn /\ txn \in Stamp /\ txn \in Nat
      /\ dir[MANIFEST] \in Nat /\ dir[MANIFEST] < txn
  BY <1>1, WritingFacts, CurrentFacts
<1>3. dir'[MANIFEST] = txn /\ \A n \in DataName : dir'[n] = dir[n] /\ dir[n] \in Nat
  BY <1>1, <1>2, DataNames, BoundsAssumption DEF IInv, TypeOK
<1>4. current' = plan
  BY <1>1, <1>2, <1>3 DEF current, ManifestOf, plan, Stamp
<1>5. current'.generation = current.generation + 1
  BY <1>1, <1>4, WritingFacts DEF Succeeds
<1>6. inside = {p}
  BY <1>1, InsideIsAlone DEF Inside
<1>7. inside' = inside /\ seen' = seen /\ failed' = failed
  BY <1>1 DEF Goto, IInv, TypeOK, inside, seen, failed, Inside, Opening
<1>8. files' \in [DataName -> Nat]
  BY <1>3 DEF files
<1>9. ASSUME NEW n \in DataName
      PROVE  files'[n] \in {0, IF files[n] = 0 THEN txn ELSE files[n]}
  <2>1. files'[n] = IF n \in referenced_files(plan) THEN dir[n] ELSE 0
    BY <1>3, <1>4 DEF files
  <2>2. n \in referenced_files(current) => files[n] = dir[n]
    BY DEF files
  <2>3. n \notin referenced_files(current) => files[n] = 0
    BY DEF files
  <2>4. CASE n \in Made(txn)
    BY <1>1, <2>1, <2>3, <2>4, WritingFacts
  <2>5. CASE n \in referenced_files(plan) \ Made(txn)
    <3>1. n \in referenced_files(current) /\ dir[n] # 0
      BY <1>1, <2>5, WritingFacts, CurrentFacts DEF IInv, IndexComplete
    <3> QED
      BY <2>1, <2>2, <3>1
  <2>6. CASE n \notin referenced_files(plan)
    BY <2>1, <2>6
  <2> QED
    BY <2>4, <2>5, <2>6
<1> QED
  BY <1>1, <1>2, <1>3, <1>5, <1>6, <1>7, <1>8, <1>9 DEF Shared!Commit, Shared!opens

\* A manifest that is abandoned is not the one in force.
LEMMA AbandonedUnseen ==
    ASSUME IInv, IInv', NEW p \in Proc, Abandon(p), dir'[MANIFEST] = dir[MANIFEST]
    PROVE  UNCHANGED Shared!index
<1>1. dir[MANIFEST] \in Nat /\ txn \in Nat
  BY CurrentFacts
<1>2. mine[p] > 0 /\ dir[MANIFEST] # mine[p] => mine[p] > dir[MANIFEST]
  BY <1>1 DEF IInv, LockHeld, Committing, Writing, Retiring
<1>3. \A t \in 1 .. dir[MANIFEST] : written'[t] = written[t]
  BY <1>1, <1>2 DEF Abandon, IInv, TypeOK
<1> QED
  BY <1>3, SameDirectorySameIndex

LEMMA FailMaps ==
    ASSUME IInv, IInv', NEW p \in Proc, Fail(p)
    PROVE  Shared!Done(p)
<1>1. PICK gone \in SUBSET (Made(mine[p]) \ todo[p]) : Remove(gone)
  BY DEF Fail
<1>2. dir'[MANIFEST] = dir[MANIFEST]
  BY <1>1, DataNames DEF Made, Remove
<1>3. pc[p] = "write" /\ Return(p, "idle") /\ Abandon(p)
  BY DEF Fail
<1>4. unread[p] = {} /\ pc[p] \notin Resting
  BY <1>3 DEF IInv, Readers, Resting
<1> QED
  BY <1>2, <1>3, <1>4, AbandonedUnseen, ReturnIsDone

LEMMA KillMaps ==
    ASSUME IInv, IInv', NEW p \in Proc, Kill(p)
    PROVE  Shared!Die(p)
<1>1. lock = p /\ Return(p, "idle") /\ Abandon(p) /\ dir' = dir
  BY DEF Kill
<1>2. Goto(p, "idle") /\ view' = [view EXCEPT ![p] = 0]
  BY <1>1 DEF Return
<1>3. pc[p] \in Inside /\ p \in inside
  BY <1>1, OneHolder, InsideIsAlone DEF IInv
<1>4. inside' = inside \ {p} /\ seen' = [seen EXCEPT ![p] = 0]
  BY <1>2, InsideMoves, SeenMoves DEF Inside, Opening, IInv
<1>5. failed' = failed
  BY <1>2, <1>3, FailedStays DEF Inside, IInv
<1>6. UNCHANGED Shared!index
  BY <1>1, AbandonedUnseen
<1> QED
  BY <1>1, <1>3, <1>4, <1>5, <1>6 DEF Return, Shared!Die, Shared!Over

LEMMA StepMaps ==
    ASSUME IInv, IInv', [Next]_vars
    PROVE  [Shared!Next]_<<Shared!index, inside, Shared!opens>>
<1>1. CASE UNCHANGED vars
  BY <1>1 DEF vars, store, locals, Shared!index, Shared!opens, files, inside, seen, failed,
     current, ManifestOf
<1>2. ASSUME NEW p \in Proc, Open(p)
      PROVE  [Shared!Next]_<<Shared!index, inside, Shared!opens>>
  <2>1. CASE StartOpen(p) \/ ReadManifest(p) \/ OpenFile(p) \/ Sweep(p)
    BY <2>1, StartOpenMaps, ReadManifestMaps, OpenFileMaps, SweepMaps DEF Shared!Next
  <2>2. CASE ProbeLock(p)
    BY <2>2, ProbeLockMaps DEF Shared!Next
  <2>3. CASE NoIndex(p) \/ Opened(p)
    BY <2>3, EndMaps DEF Shared!Next
  <2>4. CASE Vanished(p) \/ Mismatch(p)
    BY <2>4, OvertakenMaps DEF Shared!Next
  <2> QED
    BY <1>2, <2>1, <2>2, <2>3, <2>4 DEF Open
<1>3. ASSUME NEW p \in Proc, Write(p)
      PROVE  [Shared!Next]_<<Shared!index, inside, Shared!opens>>
  <2>1. CASE StartBuild(p) \/ StartUpdate(p) \/ StartMerge(p)
    BY <2>1, StartMaps DEF Shared!Next
  <2>2. CASE TakeLock(p) \/ Baseline(p) \/ PrepareMerge(p)
    BY <2>2, TakeLockMaps, BaselineMaps, PrepareMergeMaps DEF Shared!Next
  <2>3. CASE LockTimeout(p) \/ NothingToCommit(p)
    BY <2>3, EndMaps DEF Shared!Next
  <2>4. CASE PlanBuild(p) \/ PlanUpdate(p) \/ PlanMerge(p)
    BY <2>4, PlanMaps
  <2>5. CASE WriteFile(p) \/ RetireFile(p)
    BY <2>5, FilesMap
  <2>6. CASE RenameManifest(p) \/ Unlock(p) \/ Fail(p)
    BY <2>6, CommitMaps, UnlockMaps, FailMaps DEF Shared!Next
  <2> QED
    BY <1>3, <2>1, <2>2, <2>3, <2>4, <2>5, <2>6 DEF Write
<1>4. ASSUME NEW p \in Proc, Kill(p)
      PROVE  [Shared!Next]_<<Shared!index, inside, Shared!opens>>
  BY <1>4, KillMaps DEF Shared!Next
<1> QED
  BY <1>1, <1>2, <1>3, <1>4 DEF Next

\* At first there is no index, and nobody asks for one.
LEMMA InitMaps == Init => Shared!Init
<1> SUFFICES ASSUME Init PROVE Shared!Init
  OBVIOUS
<1>1. /\ dir = [n \in Name |-> IF n = MANIFEST THEN 0
                               ELSE IF n \in referenced_files(NoManifest) THEN NoManifest.crc[n]
                               ELSE 0]
      /\ pc = [p \in Proc |-> "idle"] /\ view = [p \in Proc |-> 0]
      /\ unread = [p \in Proc |-> {}] /\ attempts = [p \in Proc |-> 0]
  BY DEF Init, StartsWith, ManifestOf
<1>2. dir[MANIFEST] = 0 /\ current = NoManifest
  BY <1>1, DataNames DEF current, ManifestOf
<1>3. current.generation \in Nat
  BY <1>2 DEF NoManifest
<1>4. files \in [DataName -> 0 .. 0]
  BY <1>2, NoManifestFacts DEF files
<1>5. inside = {} /\ seen = [p \in Proc |-> 0]
  BY <1>1 DEF inside, seen, Inside, Opening
<1>6. failed = [p \in Proc |-> FALSE]
  <2>1. \A p \in Proc : (pc[p] \in {"gave_up", "corrupt"}) = FALSE
    BY <1>1
  <2> QED
    BY <2>1, Zenon DEF failed
<1> QED
  BY <1>1, <1>2, <1>3, <1>4, <1>5, <1>6 DEF Shared!Init

\* The system calls of any number of processes that open, sweep, build, update,
\* merge, fail and are killed implement an index that changes all at once, and
\* that only a later commit can keep an open from reading.
THEOREM Refinement == Spec => ImplementsSharedIndex
<1>1. IInv /\ IInv' /\ [Next]_vars => [Shared!Next]_<<Shared!index, inside, Shared!opens>>
  BY StepMaps
<1> QED
  BY <1>1, InitMaps, Invariance, PTL DEF Spec, ImplementsSharedIndex, Shared!Spec

=============================================================================
