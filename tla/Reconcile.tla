----------------------------- MODULE Reconcile -----------------------------
(***************************************************************************)
(* What the index records of a file, and reconcile(): the comparison of    *)
(* those records with a fresh crawl that yields the plan of an update      *)
(* (src/store/state.rs, src/index/doc_table.rs).                           *)
(*                                                                         *)
(* The file system is a function disk from paths to files.  A file's bytes *)
(* are a member of Text or of Binary (recognised by the crawler's sniff,   *)
(* never read; files over the size limit are treated alike), and equal     *)
(* bytes stand for equal content hashes.  mtime stands for the pair        *)
(* (mtime, size): every write of a file gives it a new one.  Paths are     *)
(* numbers, ordered as the crawler sorts them.                             *)
(***************************************************************************)
EXTENDS Integers, Sequences, FiniteSets, FiniteSetsExt, SequencesExt

CONSTANTS MaxPath,    \* bound: paths are 1 .. MaxPath
          Inode,      \* file identities
          Text,       \* contents that are read and tokenized
          Binary,     \* contents the crawler's sniff keeps from being read
          Unread,     \* the content hash of a record whose file was not read
          MaxClock,   \* bound: number of changes to the disk
          MaxDoc,     \* bound: doc ids are 0 .. MaxDoc - 1 (2^32 in the code)
          NoFile      \* what is at a path without a file

ASSUME ContentAssumption ==
    /\ Text \cap Binary = {}
    /\ Unread \notin Text \cup Binary
    /\ MaxPath \in Nat \ {0}
    /\ MaxClock \in Nat
    /\ MaxDoc \in Nat

Path == 1 .. MaxPath
File == [inode : Inode, mtime : 1 .. MaxClock, content : Text \cup Binary]
Disk == [Path -> File \cup {NoFile}]
DocId == 0 .. (MaxDoc - 1)

\* A record of the doc table.  was_read: status Indexed or Skipped.
Doc == [path : Path, inode : Inode, mtime : 1 .. MaxClock,
        content : Text \cup Binary \cup {Unread}, was_read : BOOLEAN]

\* A record of the overlay.
Patch == [path : Path, inode : Inode, mtime : 1 .. MaxClock]
patch(f, p) == [path |-> p, inode |-> f.inode, mtime |-> f.mtime]

Patched(doc, change) ==
    [doc EXCEPT !.path = change.path, !.inode = change.inode, !.mtime = change.mtime]

SameStat(f, g) == f.inode = g.inode /\ f.mtime = g.mtime

-----------------------------------------------------------------------------
(* StateIndex::from_docs, of the live docs prev (a function on their ids): *)
(* docs are visited by ascending id and a later one with the same path or  *)
(* inode replaces the earlier.                                             *)
HasPath(prev, p) == \E id \in DOMAIN prev : prev[id].path = p
by_path(prev, p) == Max({id \in DOMAIN prev : prev[id].path = p})
HasInode(prev, i) == \E id \in DOMAIN prev : prev[id].inode = i
by_inode(prev, i) == prev[Max({id \in DOMAIN prev : prev[id].inode = i})].path

-----------------------------------------------------------------------------
(* The plan: docs to tombstone, docs to patch, files to index anew.        *)
NoPlan == [deletes |-> {}, patches |-> << >>, reindex |-> << >>]
is_empty(plan) == plan.deletes = {} /\ plan.patches = << >> /\ plan.reindex = << >>

Delete(plan, id) == [plan EXCEPT !.deletes = @ \cup {id}]
\* A later patch of the same doc replaces the earlier one.
PatchDoc(plan, id, f, p) ==
    [plan EXCEPT !.patches = [x \in DOMAIN @ \cup {id} |-> IF x = id THEN patch(f, p) ELSE @[x]]]
Reindex(plan, f, p) == [plan EXCEPT !.reindex = Append(@, [path |-> p, file |-> f])]

\* Mutant: the inode alone decides.
UnchangedByInode(prior, f) == prior.inode = f.inode
Unchanged(prior, f) == SameStat(prior, f)

\* Mutant: the record that is replaced is not tombstoned.
KnownPathAppends(prev, f, now, plan, p) ==
    IF Unchanged(prev[by_path(prev, p)], f) THEN plan ELSE Reindex(plan, f, p)

\* The file f was crawled at the known path p.  now is what a read of each path
\* yields: NoFile where the file is gone and where the read fails.  Then the old
\* record is dropped and no new one is made.
KnownPath(prev, f, now, plan, p) ==
    LET id == by_path(prev, p)
        prior == prev[id]
    IN CASE Unchanged(prior, f) -> plan
         [] ~Unchanged(prior, f) /\ f.content \in Text /\ prior.was_read ->
              IF now[p] = NoFile THEN Delete(plan, id)
              ELSE IF now[p].content = prior.content THEN PatchDoc(plan, id, f, p)
              ELSE Reindex(Delete(plan, id), f, p)
         [] OTHER -> Reindex(Delete(plan, id), f, p)

\* A new path whose inode a doc is recorded with: a rename of the doc at the
\* path old, unless the read that would tell fails.
RenamedFrom(prev, f, now, plan, p, old) ==
    LET id == by_path(prev, old)
        prior == prev[id]
    IN CASE prior.mtime = f.mtime -> PatchDoc(plan, id, f, p)
         [] prior.mtime # f.mtime /\ f.content \in Text /\ prior.was_read ->
              IF now[p].content = prior.content THEN PatchDoc(plan, id, f, p)
              ELSE Reindex(Delete(plan, id), f, p)
         [] OTHER -> Reindex(Delete(plan, id), f, p)

\* The read that would tell a rename from a move with an edit fails: the file is
\* indexed as a new one, and the path old is not consumed.
UnreadableRename(prev, f, now, p, old) ==
    /\ now[p] = NoFile
    /\ prev[by_path(prev, old)].mtime # f.mtime
    /\ f.content \in Text
    /\ prev[by_path(prev, old)].was_read

\* One crawled file.  acc carries the plan, the paths seen and the old paths
\* consumed as the source of a rename.
Visit(prev, crawled, now, acc, p) ==
    LET f == crawled[p]
        old == by_inode(prev, f.inode)
        candidate == HasInode(prev, f.inode) /\ old \notin acc.consumed
        seen == [acc EXCEPT !.seen = @ \cup {p}]
    IN CASE f = NoFile -> acc
         [] f # NoFile /\ HasPath(prev, p) ->
              [seen EXCEPT !.plan = KnownPath(prev, f, now, @, p)]
         [] f # NoFile /\ ~HasPath(prev, p) /\ candidate
              /\ ~UnreadableRename(prev, f, now, p, old) ->
              [seen EXCEPT !.plan = RenamedFrom(prev, f, now, @, p, old),
                           !.consumed = @ \cup {old}]
         [] OTHER -> [seen EXCEPT !.plan = Reindex(@, f, p)]

\* Mutant: files that are gone are not noticed.
GoneUnnoticed(prev, acc) == {}

\* Known paths that were neither seen nor consumed are gone.
Gone(prev, acc) ==
    {by_path(prev, p) : p \in {q \in Path : HasPath(prev, q)} \ (acc.seen \cup acc.consumed)}

\* The crawled files up to each path, in the crawl's order.
Visited(prev, crawled, now) ==
    LET upto[p \in 0 .. MaxPath] ==
            IF p = 0 THEN [plan |-> NoPlan, seen |-> {}, consumed |-> {}]
            ELSE Visit(prev, crawled, now, upto[p - 1], p)
    IN upto

reconcile(prev, crawled, now) ==
    LET acc == Visited(prev, crawled, now)[MaxPath]
    IN [acc.plan EXCEPT !.deletes = @ \cup Gone(prev, acc)]

=============================================================================
