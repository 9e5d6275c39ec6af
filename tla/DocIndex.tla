------------------------------ MODULE DocIndex ------------------------------
(***************************************************************************)
(* What the index says about the files below the root: build_index and     *)
(* update_index as crawl, reconcile and commit (src/store/writer.rs,       *)
(* src/store/update.rs), merges prepared without the lock and committed    *)
(* later (src/store/merge.rs), and users who change files at any time in   *)
(* between.                                                                *)
(*                                                                         *)
(* A commit is one step here: that it takes effect all at once is what     *)
(* CommitProtocol and IndexStore show.  pc is the writer that holds LOCK.  *)
(***************************************************************************)
EXTENDS Reconcile

CONSTANTS MaxSegments,  \* bound: segment ids are 0 .. MaxSegments - 1
          MaxFaults     \* bound: number of reads of existing files that fail

ASSUME SegmentsAssumption == MaxSegments \in Nat
ASSUME FaultsAssumption == MaxFaults \in Nat

VARIABLES disk,        \* Disk: the files below the root
          clock,       \* number of changes so far to what a crawl finds: to the disk, or
                       \* of files that a crawl could not open
          faults,      \* number of reads of existing files that have failed
          segments,    \* Seq(Segment): the manifest's entries with their docs
          overlay,     \* the overlay: [ids -> Patch], for some ids
          next_id,     \* the manifest's next_segment_id
          pc,          \* where the writer that holds LOCK is
          crawled,     \* Disk: what its crawl saw
          plan,        \* what its reconcile decided
          merge,       \* the prepared merge, or NoMerge
          calm,        \* updates completed, up to 2, since the disk last changed
                       \* under one or a merge was committed
          settled,     \* the last of them found nothing to do
          undisturbed, \* no file changed since the crawl, which found them all,
                       \* and no failed read changed the plan
          patch_lost,  \* a merge has undone a patch
          misread,     \* a record was made with the bytes of another file than the
                       \* one it is about, and that one still exists
          failed       \* <<inode, mtime>> of files that were to be indexed and
                       \* could not be read

index == <<segments, overlay, next_id>>
update == <<pc, crawled, plan>>
history == <<calm, settled, undisturbed, patch_lost, misread, failed>>
vars == <<disk, clock, faults, index, update, merge, history>>

-----------------------------------------------------------------------------
\* The elements of s at the positions in keep, in their order: a recursive
\* function, so that it can be reasoned about, which SelectSeq cannot.
Sub(s, keep) ==
    LET upto[i \in 0 .. Len(s)] ==
            IF i = 0 THEN << >>
            ELSE IF i \in keep THEN Append(upto[i - 1], s[i]) ELSE upto[i - 1]
    IN upto[Len(s)]

(* The index.  Local ids are positions in docs; dead is the bitmap.        *)
Segment == [segment_id : Nat, base_doc : Nat, docs : Seq(Doc), dead : SUBSET Nat]

end_doc(s) == s.base_doc + Len(s.docs)
id_bound == Max({0} \cup {end_doc(segments[i]) : i \in DOMAIN segments})
IdOf(s, local) == s.base_doc + local - 1
LiveLocals(s) == DOMAIN s.docs \ s.dead
LiveIds == UNION {{IdOf(s, l) : l \in LiveLocals(s)} : s \in {segments[i] : i \in DOMAIN segments}}
segment_ids == {segments[i].segment_id : i \in DOMAIN segments}

\* locate(): the segment that holds a live id.
SegmentWith(id) ==
    CHOOSE s \in {segments[i] : i \in DOMAIN segments} : id \in s.base_doc .. (end_doc(s) - 1)

\* The record of the doc table; doc() applies the overlay to it.
Recorded(id) == LET s == SegmentWith(id) IN s.docs[id - s.base_doc + 1]
doc(id) == IF id \in DOMAIN overlay THEN Patched(Recorded(id), overlay[id]) ELSE Recorded(id)

\* docs().iter(): what a reader of the index is shown.
View == [id \in LiveIds |-> doc(id)]

-----------------------------------------------------------------------------
NoMerge == [sources |-> {}, dead |-> << >>, docs |-> << >>, origin |-> << >>]

Init ==
    /\ disk = [p \in Path |-> NoFile]
    /\ clock = 0
    /\ faults = 0
    /\ segments = << >>
    /\ overlay = << >>
    /\ next_id = 0
    /\ pc = "idle"
    /\ crawled = [p \in Path |-> NoFile]
    /\ plan = NoPlan
    /\ merge = NoMerge
    /\ calm = 0
    /\ settled = FALSE
    /\ undisturbed = TRUE
    /\ patch_lost = FALSE
    /\ misread = FALSE
    /\ failed = {}

-----------------------------------------------------------------------------
(* Users.  A write gives a file a new mtime; renames and links keep it.    *)
Used == {disk[p].inode : p \in {q \in Path : disk[q] # NoFile}}

Change(new) ==
    /\ clock < MaxClock
    /\ clock' = clock + 1
    /\ disk' = new
    /\ disk # new
    /\ calm' = 0
    /\ settled' = FALSE
    /\ undisturbed' = FALSE
    /\ UNCHANGED <<faults, index, update, merge, patch_lost, misread, failed>>

\* Create p (or replace it by a new file, as editors do when they save), with
\* an inode that no file has.
Create(p) ==
    /\ \E i \in Inode \ Used, c \in Text \cup Binary :
          Change([disk EXCEPT ![p] = [inode |-> i, mtime |-> clock + 1, content |-> c]])

\* Write p in place, under each of its links.
Modify(p) ==
    /\ disk[p] # NoFile
    /\ \E c \in Text \cup Binary :
          Change([q \in Path |->
                    IF disk[q] # NoFile /\ disk[q].inode = disk[p].inode
                    THEN [disk[q] EXCEPT !.mtime = clock + 1, !.content = c]
                    ELSE disk[q]])

Erase(p) == Change([disk EXCEPT ![p] = NoFile])

Rename(p, q) ==
    /\ p # q
    /\ disk[p] # NoFile
    /\ Change([disk EXCEPT ![p] = NoFile, ![q] = disk[p]])

Link(p, q) ==
    /\ disk[p] # NoFile
    /\ disk[q] = NoFile
    /\ Change([disk EXCEPT ![q] = disk[p]])

User == \E p \in Path :
    \/ Create(p) \/ Modify(p) \/ Erase(p)
    \/ \E q \in Path : Rename(p, q) \/ Link(p, q)

-----------------------------------------------------------------------------
(* build_index and update_index.                                           *)

\* The writer is through.
Finish(ok, found_nothing) ==
    /\ pc' = "idle"
    /\ crawled' = [p \in Path |-> NoFile]
    /\ plan' = NoPlan
    /\ undisturbed' = TRUE
    /\ calm' = IF ok /\ undisturbed THEN Min({2, calm + 1}) ELSE 0
    /\ settled' = (ok /\ undisturbed /\ found_nothing)

\* What opening and reading each path yields, when it fails for those in
\* failing: a file that cannot be read is as good as none.
Existing == {p \in Path : disk[p] # NoFile}
ReadNow(failing) == [p \in Path |-> IF p \in failing THEN NoFile ELSE disk[p]]

\* A file that cannot be opened is left out of the crawl.
Crawl(next) ==
    /\ pc = "idle"
    /\ pc' = next
    /\ \E unseen \in SUBSET Existing :
          /\ clock + Cardinality(unseen) <= MaxClock
          /\ clock' = clock + Cardinality(unseen)
          /\ crawled' = ReadNow(unseen)
          /\ undisturbed' = (unseen = {})
    /\ UNCHANGED <<disk, faults, index, plan, merge, calm, settled, patch_lost, misread, failed>>

CrawlForBuild == Crawl("build")
CrawlForUpdate == Crawl("reconcile")

\* The files whose reads fail now.
Failing == {paths \in SUBSET Existing : faults + Cardinality(paths) <= MaxFaults}

\* The file that was crawled at p was moved away before it is read: the bytes
\* of another one are read under its name.
ReadAnother(p, read) ==
    /\ read[p] # NoFile
    /\ ~SameStat(read[p], crawled[p])
    /\ \E q \in Path : disk[q] # NoFile /\ SameStat(disk[q], crawled[p])

\* Files are hashed now; then there is nothing to do, or a commit to make.  A
\* failed read is one that changes the plan.
Decide ==
    /\ pc = "reconcile"
    /\ \E failing \in Failing :
          LET decided == reconcile(View, crawled, ReadNow(failing))
          IN /\ failing # {} => decided # reconcile(View, crawled, disk)
             /\ faults' = faults + Cardinality(failing)
             /\ IF is_empty(decided)
                THEN Finish(failing = {}, TRUE) /\ UNCHANGED misread
                ELSE /\ pc' = "update"
                     /\ plan' = decided
                     /\ undisturbed' = (undisturbed /\ failing = {})
                     /\ misread' = (misread \/ \E id \in DOMAIN decided.patches :
                                       ReadAnother(decided.patches[id].path, ReadNow(failing)))
                     /\ UNCHANGED <<crawled, calm, settled>>
    /\ UNCHANGED <<disk, clock, index, merge, patch_lost, failed>>

\* index_shard: a text file is read now; the record keeps the crawl's metadata,
\* also when the read fails and there are no bytes to record (status Skipped).
NewDoc(f, p, read) ==
    LET text == f.content \in Text
    IN [path |-> p, inode |-> f.inode, mtime |-> f.mtime, was_read |-> text,
        content |-> IF text /\ read[p] # NoFile THEN read[p].content ELSE Unread]

\* The stats of the files among docs (records with the fields path and file)
\* that are to be read and cannot be.  A file that is not read has no read fail.
FailedReads(docs, read) ==
    {<<docs[i].file.inode, docs[i].file.mtime>> :
        i \in {j \in DOMAIN docs : docs[j].file.content \in Text /\ read[docs[j].path] = NoFile}}

NewSegment(docs, base) ==
    IF docs = << >> THEN << >>
    ELSE <<[segment_id |-> next_id, base_doc |-> base, docs |-> docs, dead |-> {}]>>

Tombstone(s, ids) == [s EXCEPT !.dead = @ \cup {l \in DOMAIN s.docs : IdOf(s, l) \in ids}]

\* Mutant: the overlay is written with the new patches alone.
NewPatchesOnly == [id \in DOMAIN plan.patches \ plan.deletes |-> plan.patches[id]]

\* New patches replace old ones; those of tombstoned docs are dropped.
MergedOverlay ==
    [id \in (DOMAIN plan.patches \cup DOMAIN overlay) \ plan.deletes |->
        IF id \in DOMAIN plan.patches THEN plan.patches[id] ELSE overlay[id]]

\* A segment of the files todo, if there are any, as read yields them.
Indexed(todo, base, read) ==
    NewSegment([i \in DOMAIN todo |-> NewDoc(todo[i].file, todo[i].path, read)], base)

CommitUpdate ==
    /\ pc = "update"
    /\ id_bound + Len(plan.reindex) <= MaxDoc
    /\ plan.reindex # << >> => next_id < MaxSegments
    /\ \E failing \in Failing :
          LET read == ReadNow(failing)
          IN /\ segments' = [i \in DOMAIN segments |-> Tombstone(segments[i], plan.deletes)]
                               \o Indexed(plan.reindex, id_bound, read)
             /\ misread' = (misread \/ \E i \in DOMAIN plan.reindex :
                                          ReadAnother(plan.reindex[i].path, read))
             /\ failing # {} => FailedReads(plan.reindex, read) # {}
             /\ failed' = failed \cup FailedReads(plan.reindex, read)
             /\ faults' = faults + Cardinality(failing)
    /\ next_id' = next_id + (IF plan.reindex = << >> THEN 0 ELSE 1)
    /\ overlay' = MergedOverlay
    /\ Finish(TRUE, FALSE)
    /\ UNCHANGED <<disk, clock, merge, patch_lost>>

\* Mutant: a build carries the overlay over.
KeptOverlay == overlay
EmptyOverlay == << >>

\* The files that the crawl found, in its order.
Found == Sub([p \in Path |-> [path |-> p, file |-> crawled[p]]],
             {p \in Path : crawled[p] # NoFile})

\* Everything is indexed anew; doc ids start over, segment ids go on.
CommitBuild ==
    /\ pc = "build"
    /\ Len(Found) <= MaxDoc
    /\ Found # << >> => next_id < MaxSegments
    /\ \E failing \in Failing :
          LET read == ReadNow(failing)
          IN /\ segments' = Indexed(Found, 0, read)
             /\ misread' = \E i \in DOMAIN Found : ReadAnother(Found[i].path, read)
             /\ failing # {} => FailedReads(Found, read) # {}
             /\ failed' = FailedReads(Found, read)
             /\ faults' = faults + Cardinality(failing)
    /\ next_id' = next_id + (IF Found = << >> THEN 0 ELSE 1)
    /\ overlay' = EmptyOverlay
    /\ Finish(TRUE, FALSE)
    /\ patch_lost' = FALSE
    /\ UNCHANGED <<disk, clock, merge>>

\* An error before the commit point: nothing changed.
GiveUp ==
    /\ pc # "idle"
    /\ Finish(FALSE, FALSE)
    /\ UNCHANGED <<disk, clock, faults, index, merge, patch_lost, misread, failed>>

-----------------------------------------------------------------------------
(* Merges.                                                                 *)

\* The docs that survive in the segments of the group, in their order.
Survivors(group) ==
    LET of(s) == Sub([l \in DOMAIN s.docs |-> <<s.segment_id, l>>], LiveLocals(s))
        upto[i \in 0 .. Len(segments)] ==
            IF i = 0 THEN << >>
            ELSE IF segments[i].segment_id \in group THEN upto[i - 1] \o of(segments[i])
            ELSE upto[i - 1]
    IN upto[Len(segments)]

SegmentById(s) == CHOOSE seg \in {segments[i] : i \in DOMAIN segments} : seg.segment_id = s
IdAt(origin) == IdOf(SegmentById(origin[1]), origin[2])

\* prepare_merge: without the lock.
PrepareMerge(group) ==
    /\ merge = NoMerge
    /\ group # {}
    /\ merge' = [sources |-> group,
                 dead |-> [s \in group |-> SegmentById(s).dead],
                 origin |-> Survivors(group),
                 docs |-> [i \in DOMAIN Survivors(group) |-> doc(IdAt(Survivors(group)[i]))]]
    /\ UNCHANGED <<disk, clock, faults, index, update, history>>

\* Mutant: deletions made since the merge was prepared are forgotten.
CarryNothing == {}

\* Deletions made since the merge was prepared.
Carry ==
    {i \in DOMAIN merge.origin :
        LET s == SegmentById(merge.origin[i][1])
        IN s.dead # merge.dead[s.segment_id] /\ merge.origin[i][2] \in s.dead}

\* Mutant: the merged segment takes over the ids of its first source.
FirstSourceBase ==
    Min({segments[i].base_doc : i \in {j \in DOMAIN segments : segments[j].segment_id \in merge.sources}})

MergedBase == id_bound

\* A surviving doc was patched since the merge was prepared.
PatchLost == \E i \in DOMAIN merge.origin :
    /\ i \notin Carry
    /\ doc(IdAt(merge.origin[i])) # merge.docs[i]

\* commit_merges, under the lock.
CommitMerge ==
    /\ pc = "idle"
    /\ merge # NoMerge
    /\ merge.sources \subseteq segment_ids
    /\ next_id < MaxSegments
    /\ MergedBase + Len(merge.docs) <= MaxDoc
    /\ segments' = Append(Sub(segments, {i \in DOMAIN segments :
                                             segments[i].segment_id \notin merge.sources}),
                          [segment_id |-> next_id, base_doc |-> MergedBase,
                           docs |-> merge.docs, dead |-> Carry])
    /\ next_id' = next_id + 1
    /\ merge' = NoMerge
    /\ patch_lost' = (patch_lost \/ PatchLost)
    /\ calm' = 0
    /\ settled' = FALSE
    /\ UNCHANGED <<disk, clock, faults, overlay, update, undisturbed, misread, failed>>

\* A source is gone (a build replaced it), or a system call fails.
DropMerge ==
    /\ merge # NoMerge
    /\ merge' = NoMerge
    /\ UNCHANGED <<disk, clock, faults, index, update, history>>

Writer == CrawlForBuild \/ CrawlForUpdate \/ Decide \/ CommitUpdate \/ CommitBuild \/ GiveUp
Merger == (\E group \in SUBSET segment_ids : PrepareMerge(group)) \/ CommitMerge \/ DropMerge

Next == User \/ Writer \/ Merger

Spec == Init /\ [][Next]_vars

-----------------------------------------------------------------------------
Plan == [deletes : SUBSET DocId,
         patches : UNION {[ids -> Patch] : ids \in SUBSET DocId},
         reindex : Seq([path : Path, file : File])]

TypeOK ==
    /\ disk \in Disk
    /\ clock \in 0 .. MaxClock
    /\ faults \in 0 .. MaxFaults
    /\ segments \in Seq(Segment)
    /\ \A i \in DOMAIN segments : segments[i].dead \subseteq DOMAIN segments[i].docs
    /\ overlay \in UNION {[ids -> Patch] : ids \in SUBSET DocId}
    /\ next_id \in 0 .. MaxSegments
    /\ pc \in {"idle", "reconcile", "update", "build"}
    /\ crawled \in Disk
    /\ plan \in Plan
    /\ merge.sources \subseteq 0 .. (MaxSegments - 1)
    /\ merge.dead \in [merge.sources -> SUBSET Nat]
    /\ merge.docs \in Seq(Doc) /\ merge.origin \in Seq(Nat \X Nat)
    /\ calm \in 0 .. 2
    /\ settled \in BOOLEAN /\ undisturbed \in BOOLEAN
    /\ patch_lost \in BOOLEAN /\ misread \in BOOLEAN
    /\ failed \subseteq Inode \X (1 .. MaxClock)

\* Every manifest that is committed passes the checks of Manifest::decode (an
\* index that fails them is taken for absent): ranges of doc ids ascend and do
\* not overlap, no segment id is given out twice.
Decodable ==
    \A i \in DOMAIN segments :
        /\ segments[i].segment_id < next_id
        /\ end_doc(segments[i]) <= MaxDoc
        /\ \A j \in DOMAIN segments : i < j =>
              /\ end_doc(segments[i]) <= segments[j].base_doc
              /\ segments[i].segment_id # segments[j].segment_id

\* The record d describes the file f as it is - or, if a read of f has failed,
\* as skipped: its stat is that of f, so that no update reads f again.
Describes(d, f) ==
    /\ SameStat(d, f)
    /\ d.was_read = (f.content \in Text)
    /\ d.was_read => \/ d.content = f.content
                     \/ d.content = Unread /\ <<f.inode, f.mtime>> \in failed

\* The index shows the files of the disk: each once, with its text unless that
\* could not be read, and nothing else.
Accurate ==
    /\ \A id, other \in DOMAIN View : View[id].path = View[other].path => id = other
    /\ \A id \in DOMAIN View : disk[View[id].path] # NoFile
    /\ \A p \in Path : disk[p] # NoFile =>
          \E id \in DOMAIN View : View[id].path = p /\ Describes(View[id], disk[p])

NoHardLinks ==
    \A p, q \in Path : p # q /\ disk[p] # NoFile /\ disk[q] # NoFile
                        => disk[p].inode # disk[q].inode

\* Nothing has gone wrong yet that no later reconcile can see: no rename was lost
\* to a merge, no file was moved while it was being read.
Untainted == ~patch_lost /\ ~misread

\* Reconcile is a fixed point only where it should be: an update that ran
\* undisturbed and found nothing to do leaves an index that shows the disk as
\* it is, whatever users, builds, updates and merges did before - except for
\* the text of files, unchanged since, whose read failed when they were indexed.
SettledIsAccurate == settled /\ Untainted => Accurate

\* Whatever state a disturbed update left behind, two undisturbed ones repair
\* it, as long as no file has two names and with the same exception: however
\* many updates follow, they do not repair the record of a read that failed.
TwoUpdatesSuffice == calm = 2 /\ NoHardLinks /\ Untainted => Accurate

\* No file is found twice, under a hard link, a rename or a race either.
OneDocPerPath ==
    ~patch_lost => \A id, other \in LiveIds : doc(id).path = doc(other).path => id = other

\* No new path has the inode of a doc whose path is still there.
Unambiguous ==
    \A p \in Path :
        /\ crawled[p] # NoFile
        /\ ~HasPath(View, p)
        /\ HasInode(View, crawled[p].inode)
        => crawled[by_inode(View, crawled[p].inode)] = NoFile

\* One undisturbed update is enough, except when a file was renamed and its
\* old name taken again.  Files whose read fails, now or when the record that
\* is kept was made, are shown as skipped.
QuietUpdateConverges ==
    [][CommitUpdate /\ undisturbed /\ Unambiguous /\ Untainted' => Accurate']_vars

\* A merge is invisible: every doc that was live is there once, under a new id
\* or not, with the bytes it had - and with its path and metadata, unless it
\* was patched since the merge was prepared.  No doc deleted meanwhile returns.
Bytes(d) == [content |-> d.content, was_read |-> d.was_read]
Times(view, d) == Cardinality({id \in DOMAIN view : view[id] = d})
SameDocs(before, after) ==
    \A d \in {before[id] : id \in DOMAIN before} \cup {after[id] : id \in DOMAIN after} :
        Times(before, d) = Times(after, d)
MergeKeepsDocs ==
    [][CommitMerge =>
          /\ SameDocs([id \in LiveIds |-> Bytes(doc(id))], [id \in LiveIds |-> Bytes(doc(id))]')
          /\ ~PatchLost => SameDocs(View, View')]_vars

\* An overlay record only ever applies to the doc it was made for: an id that
\* is in the overlay is never given to another doc.
PatchesStayWithTheirDoc ==
    [][\A id \in LiveIds' \cap DOMAIN overlay' :
          id \in LiveIds /\ Recorded(id)' = Recorded(id)]_vars

-----------------------------------------------------------------------------
(* What the documentation promises without exception.                      *)

\* The index cannot stay wrong once reconcile has nothing to do, with merges
\* that race updates either.
SettledDespiteMerges == settled /\ ~misread => Accurate
=============================================================================
