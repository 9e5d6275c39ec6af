# ripindex in TLA+

Formal models of ripindex, a persistent full-text index with incremental
updates, background merges and a watching daemon. Paths below are relative to
the repository (`src/store/...`, `docs/FORMAT.md`).

What the models are for: the on-disk index is changed by several processes with
no server between them, must survive kills and power losses, must come to
agree with a file tree that changes while it is being read, and must find in its
encoded, merged and partly deleted segments exactly what a query asks for. Those
are properties of interleavings, failures and long sequences of operations,
which the repository's tests sample (fault-injection sweep, crash harness,
property tests) and the models exhaust on small instances or prove.

## 1. Inventory

| Component | State | Operations | Talks to | What makes it correct |
|---|---|---|---|---|
| Index directory, manifest (`store/mod.rs`, `format/manifest.rs`) | `MANIFEST`, `seg-N.idx/.doc`, `seg-N.G.del`, `state-G.ovl`, `*.tmp`, `LOCK`, `staging/` | names, references, decode | everything | a manifest that decodes names only complete files; ids are not reused while referenced |
| Writers (`store/writer.rs`, `store/update.rs`) | list of new files, list of retired files | `build_index`, `update_index`, `delete_docs`, `commit` | file system, crawler, reconcile, open | all or nothing under failure, kill and power loss; no lost commit |
| Open (`store/reader.rs`, `store/segment.rs`) | the manifest read, mapped segments, attempts | lock probe, sweep, open, retry | writers (through the directory and `LOCK`) | never disturbs a writer; finds a complete index |
| Merge (`store/merge.rs`) | `PreparedMerge`, staged files | `plan_merges`, `prepare_merge` (no lock), `commit_merges` | writers in between | invisible to readers; deletions are carried forward |
| Reconcile (`store/state.rs`) | `StateIndex`: docs by path and by inode | `reconcile` | crawler, doc table, users' changes | after an update the index describes the disk |
| Docs, deletions, overlay (`index/doc_table.rs`, `format/{doc,del,overlay}.rs`) | doc records, tombstone bitmaps, patches by doc id | lookup, iteration | reconcile, merge | one live doc per file; a patch stays with its doc |
| Builder, memory index (`index/*.rs`) | shards | `index_shard`, flush | writers | a record says what was read |
| Crawler (`crawler.rs`) | none | `crawl_all` | reconcile | ordered, complete listing |
| File system trait (`fs.rs`) | none (`FaultFs`: call count) | create, write, sync, rename, remove, lock | all of the store | external; assumed as stated in section 6 |
| Live index (`store/live.rs`) | current snapshot, retire flags | `refresh`, `snapshot`, drop | actor, queries | snapshots stay readable; newest wins |
| Watcher (`store/watcher.rs`) | time of last trigger | `run` | notify, actor | a change is reconciled within the period |
| Governor (`store/governor.rs`) | bucket level, time | `throttle`, `after_cpu_work` | merge task | bounds on bytes per time and on work per rest, over many groups |
| Daemon actor (`daemon/actor.rs`) | command queue, `merging` | reconcile, merge, finish, status, shutdown | live index, store | one writer per root, one merge at a time |
| Registry, server, idle shutdown (`daemon/server.rs`, `daemon/run.rs`) | roots, connection count, idle since | add/remove root, serve, dispatch | actors, clients | one actor per root; idle daemon ends, busy one does not |
| Client (`daemon/client.rs`) | connection | handshake, call, autostart | server | every request is answered or fails |
| Binary formats (`format/{idx,doc,del,overlay,varint}.rs`) | none | encode, verify, lookup, cursors | builder, merge, open, query | what is read is what was written, from any place in it |
| Tokenizer (`tokenizer.rs`) | none | `tokenize`, `atoms` | builder, query parser, snippets | both sides of a search agree on terms and positions |
| Query (`query/*.rs`) | none | `parse`, `evaluate`, `search` | segments, server | finds exactly what the grammar says, ranked, page by page |
| Snippets (`snippet.rs`) | none | `snippet_for` | query, server | what is found can be shown |
| Command line, reports, benchmarks (`main.rs`, `report.rs`, `bench.rs`) | none | dispatch, print, measure | the above | not modelled |

Behaviour that is hard here: steps of two processes between which only `LOCK`
and atomic renames stand; an open that reads without the lock and finds files
gone; failing syncs and renames; power loss after a rename that was never
synced; a merge prepared from a snapshot that is out of date when it commits;
files that change between crawl, hash and index; renames, hard links and reused
inodes; a registry whose lock is held across awaits while bounded queues fill;
daemons that start at once over a dead one's socket; cursors that skip through
delta-coded lists of deleted and renumbered docs. `PROJECT.json` lists every such
hazard at its line with the properties that cover it, or why none does.

## 2. Modules

```
IndexLayout          names, manifests, what each operation writes and retires
  IndexLayoutProofs                                              (TLAPS)
  CommitProtocol     one process, system call by system call, crashes, power loss
    AtomicIndex      abstract: the index is one register           (implemented)
    CommitProtocolProofs                                           (TLAPS)
  IndexStore         several processes: LOCK, open, sweep, retries, commits
    SharedIndex      abstract: processes that replace one index    (implemented)
    IndexStoreProofs                                             (TLAPS)
Reconcile            what a record says; reconcile() as a function
  DocIndex           users, crawls, updates, builds, merges, overlay
    DocIndexProofs                                               (TLAPS)
RootService          one root of the daemon: watcher, actor, merge task,
                     live index, queries, and another process
  RootServiceProofs                                              (TLAPS)
Daemon               one daemon: connections, registry, actors' mailboxes,
                     idle task, shutdown
  DaemonProofs                                                   (TLAPS)
Autostart            clients that start daemons, and which of these serves
  AutostartProofs                                                  (TLAPS)
Governor             the pacing of a background merge
  GovernorProofs                                                 (TLAPS)
Tokenizer            texts into atoms and terms
  QueryNode, QueryParser       queries into nodes, and what a node means
    QueryGrammar               the query language by its grammar  (reference)
  MemoryIndex, SegmentFile     postings in memory; the encoded files
    Evaluate                   nodes over the segments of an index
      SearchIndex              shards, flushes, deletions, merges, queries
  Snippet                      the line that is shown
    Search                     SearchIndex with what is typed and answered
MC_CommitProtocol, MC_IndexStore, MC_DocIndex, MC_RootService,
MC_Daemon, MC_Autostart, MC_Governor, MC_Search                    (TLC)
```

The models look at one program at several magnifications, and each takes
for granted what another shows: IndexStore makes renames durable (CommitProtocol
does not), DocIndex makes a commit one step (CommitProtocol and IndexStore show
that it may), and RootService reduces a manifest to its segments and to which of
the users' changes it covers (DocIndex shows when a commit covers them). Daemon
takes an actor for a queue whose commands are answered (RootService shows that
they are). All of these leave the contents of segments out; SearchIndex has the
contents and makes every operation on an index one step.

### IndexLayout
File names are tuples `<<kind, segment, generation>>`. A `Manifest` record has
the segments in force, their deletion generations, the overlay generation and
`crc`: for each referenced file, the number of the transaction that wrote it,
which stands for length and checksum together. `Build`, `Update`, `Delete` and
`Merge` say what each operation commits: the new manifest, the files it writes
and the files it retires afterwards. Id allocation (`NewIds`), deletion
generations (`tombstone_writes`), and the overlay's generation (`OverlayGens`:
kept, incremented, or dropped to 0) follow `build_segments`, `update_index` and
`finish_one`.

### CommitProtocol
State: `dir` (what processes see), `durable` (what a power loss keeps), the
running transaction (`pc`, `todo`, `made` = `new_files`, `retire`, `staged`).
Actions are the calls of `write_whole` and `commit()` in their order: write the
temporary file, sync it, rename it, sync the directory, write `MANIFEST.tmp`,
rename it (the commit point), sync again (a failure is logged only), unlink the
replaced files. `Fail` makes any call before the commit point report an error
after having had part of its effect; `Cleanup` is the error path; `Kill` and
`PowerLoss` may happen at any point; `OpenAndSweep` is the next open.

### IndexStore
State per process: `pc`, operation, the manifest it read (`view`), files still
to open (`unread`), attempts, and for a writer the transaction under way. An
open is its probe of `LOCK`, the manifest read, the sweep (only with the lock),
one step per file, and the retry on `Vanished`. Writers poll `LOCK` until it is
free or their deadline passes; `update_index` takes it, looks, drops it and
takes it again; `merge_index` opens and prepares before it takes it. `Kill`
ends a lock holder anywhere. `SharedIndex` says what remains of this for somebody
who sees only the index: `Enter`, `Leave`, `Commit` of one process at a time, and
opens that `Look`, `Take` one file after the other and are `Done`, `StartOver`,
`GiveUp`, or `Die` with their process. `Shared` is the mapping.

### Reconcile and DocIndex
`Reconcile` translates `StateIndex::from_docs` and `reconcile` branch by branch
into a function from (records, crawl, disk at hashing time) to a plan.
`DocIndex` runs it: users create, modify, erase, rename and hard-link files at
any time; a writer crawls, decides (hashing files as they are then), and
commits (reading files as they are then); a merge is prepared from the current
index and committed whenever the writer is idle. Reads happen at the moment of
the step, so a file may differ between crawl, hash and read, and any of them may
fail: a crawl leaves out a file it cannot open, a rename candidate that cannot
be hashed is deleted and not read again, and a file whose read fails when it is
indexed gets a record with the crawl's stat and no bytes (`builder.rs:169`),
which every later reconcile takes for unchanged. `failed` remembers which files
met that, `faults` counts failing reads. `CommitUpdate` is
the tombstones, new segment and overlay of `update_index`; `CommitMerge` is
`commit_merges` with `finish_one`'s carry-forward.

History variables (`calm`, `settled`, `undisturbed`, `patch_lost`, `misread`,
`failed`) record what the properties speak of and never influence a step.

### RootService
What runs concurrently for one registered root, and who waits for whom:

| Part | State | Actions |
|---|---|---|
| watcher thread (`watcher.rs`, `spawn_watcher`) | `watcher` (its program counter), `hint` (the channel is not empty) | `WatchStart`, `WatchFailed`, `Trigger` (sends a reconcile, then awaits the reply), `CheckStop`, `RecvHint`, `QuietWindow`, `PeriodTimeout` |
| actor (`actor.rs`) | `mailbox` (bounded), `job["actor"]`, `merging`, `healthy` | `Receive...`, then the steps of a writer, then `RefreshOpen`, `RefreshSwap` or `OpenFails` before the answer |
| writers under LOCK, of the actor and of another process (`update.rs`, `merge.rs`) | `lock`, `job`, `index`, `files`, `staged` | `TakeLock`, `LockTimeout`, `Crawl`, `CommitUpdate`, `CommitMerge`, `MergeAborts`, `Fail`; `CliStart`, `CliClear`, `CliPrepare`, `CliKilled` |
| merge task (`start_merge`) | `task` | `TaskClear`, `TaskOpen`, `TaskPrepare`, `TaskSend` |
| live index (`live.rs`) | `live`, `held` (the snapshot of each query, with the segments whose `retire` is set) | `RefreshSwap`, `QueryStart`, `QueryEnd` |
| registry and clients (`RootHandle`) | `stop`, `client` | `SetStop`, `SendShutdown`, `Ask`, `Send` |

The handler of a command is not one action: the actor awaits blocking work in
the middle of it, and other parts move meanwhile. What it does between two
awaits is one. `disk` counts users' changes; `covers` is how many of them the
crawl behind a manifest or a snapshot had seen. Unlinks are best effort
(`RemoveBestEffort`), as on Windows. `TakeLock` and `Sweep` leave a hint
because `lock()` rewrites `LOCK` below the watched root: an idle root is
crawled again after every quiet window. Lengths of time are choices: the period
or the quiet window may end whenever no event is there.

### Daemon
A connection's task (`task`) runs from one await to the next: `Accept`, `Hello`,
`ReadLine`, `ReadRequest`, `ReadShutdown`, then the steps of the request
(`LookUp`, `BuildFails`, `Spawn`, `Insert` of `add_root`; `Remove`, `StopRemoved`
of `remove_root`; `Collect`, `Send`, `Dropped` of the rest). Every write of a reply may fail; inside `dispatch`
a failure ends the loop and counts down (`Ends`), elsewhere `?` leaves the task
and the count stays (`Leaks`). `writer` is the write lock of the registry that
`remove_root` keeps while it waits for room in a mailbox; `shutdown_all` keeps
the read lock likewise. `IdleCount`, `IdleRoots`, `IdleStop` are one poll of the
idle task, whose two looks other tasks may come between. `Exit` ends the
process, and with it all that is left. An idle timeout of more than nothing is
assumed.

### Autostart
A daemon process goes through `run_foreground` step by step: instance lock,
configured roots, the probe of the socket file, its removal if nobody answers,
`bind`, the permissions of the file, serving, and an exit that leaves the file
behind. It may be killed at any of them, and `Quit` is where an error of its own ends
it: logging, configuration or the lock before it has the lock; a stale file it
cannot remove, a directory or socket it cannot make, permissions it cannot set
(the file then stays, with nobody behind it). A client goes through
`connect_or_spawn`: connect, spawn, retry until its deadline (`late`), handshake.
Its connect may fail otherwise than by finding nobody, its spawn may fail, and a
daemon that serves may refuse its hello; each ends the call as `"denied"`, in the
retry loop only after the deadline. `"unreachable"` and `"cut off"` are the ends
that do not say what is wrong. `disturbed` is a history variable.

### Governor
`refill`, `spend` and `idle_after` translate TokenBucket and DutyCycle;
`Throttle`, `BeginWork`, `EndWork`, `PrepareFails` and `GoOn` are the loop of the
task that prepares a merge, between ticks of a clock. The power signals are read
from what Linux says of batteries and memory. `read`, `free`, `worked` and `done`
are history variables.

### Search and what it is built from
These modules are operators, each the translation of a function: `Tokenizer`,
`QueryParser`, `SegmentFile`, `Evaluate`, `Snippet`. Characters are one or two of
every class the tokenizer tells apart; byte regions are sequences of numbers and
characters, with offsets, varints, front coding and bitmaps computed as in the
code, at small bases. `SearchIndex` has the state: the accumulator of a build
(`acc`), the segments with their three encoded files (`segs`), and as history
the texts, which id each document was given, and which were deleted. `Shard`,
`Finish`, `Delete` and `Merge` are the operations. `Search` adds a
text and a query that are typed piece by piece (`draft`, `typed`), so that every
short text and every short query is a state, and `handle_query`, which answers
from the index and from a second root beside it. What a query means is said
three times, each in its own way: by the code's evaluation over encoded
segments, by `Matches` of QueryNode over the atoms of a text, and by `Sense` of
QueryGrammar, which takes the tokens apart from the outermost operator inwards
and knows nothing of the parser.

## 3. Runs

| Run | Bounds | Shows |
|---|---|---|
| `commit_ordered` | 2 segments, 2 generations, 3 transactions | With directory changes persisted in order: `CrashSafe`, `AckedSurvives`, `ErrorChangesNothing`, `FreshNames`, and the protocol implements `AtomicIndex` |
| `store_concurrent` | 2 processes, 2 segments, 1 generation, 2 attempts; 3 transactions from nothing, or 2 from an index with a renamed file | No sweep or commit harms another process (`IndexComplete`, `UncommittedKept`), an open fails or starts over only when a commit overtook it (`RetrySeesProgress`), files of segments are immutable (`SegmentsImmutable`), and the processes implement `SharedIndex`, so that no commit is lost |
| `store_overlay_reuse` (violation) | 2 processes, 1 segment, 4 transactions | An overlay name is given out twice and an open reports Corrupt |
| `documents` | 2 paths, 2 inodes, 2 texts, 1 binary, 3 changes, 1 failing read, 4 doc ids, 3 segment ids | When reconcile may be trusted, what merges preserve, that manifests stay decodable |
| `documents_merged` (violation) | as above, no binary and no failing read, 5 doc and segment ids | A rename committed during a merge is undone, and may leave a permanent duplicate |
| `root_service` | 1 client, 1 query, mailbox of 1, 1 change, 2 commands or operations of another process | Nothing in use is removed (`InForceComplete`), no commit covers less than the one before (`CoversNeverRegress`), an answered reconcile is visible (`ReadYourWrites`), the merge flag and the staged files last as long as the merge (`MergingFlagHonest`, `StagedKept`) |
| `root_service_live` | the same, mailbox of 2, 1 command | Changes become searchable, commands are answered, a shutdown completes |
| `daemon` | 2 connections, 1 root, 2 actors, mailboxes of 1 | The connection count is exact but for the exits that leak (`ConnectionsCounted`), a root that is registered has an actor that serves (`RegisteredActorsServe`), requests are answered although a registry lock is held across awaits (`RequestsAnswered`), and a daemon that is stopped or left alone ends (`DaemonEnds`) |
| `daemon_add_twice` (violation) | the same | Two clients add one root and the first actor is orphaned |
| `autostart` | 2 clients, 3 processes | Of all daemons that start, fail, are killed and replace a dead one's socket, the one that listens owns it (`ServerOwnsSocket`); a client that is not told why it fails was disturbed or too early (`FailuresExplained`); every call ends (`CallsEnd`) |
| `search` | 3 documents, 6 ids, 2 deletions, 2 documents to a segment; typed texts of up to 5 characters in 11 kinds of pieces, queries of up to 5 of 9 chunks | Encoded, merged and partly deleted segments read back exactly (`SegmentsReadBack`), queries find what they should (`EvaluateIsExact`, `QueryMeansWhatItSays`, `SourceFindsItself`), pages tile (`PagesTile`), hits can be shown (`MatchesCanBeShown`), merging ends (`MergesShrink`) |
| `governor_rate` (violation) | a group of 4 bytes, then one of 2 or 4; burst of 2, a byte per tick, 6 ticks | The token bucket lets more through than a burst plus the rate |

Why these bounds are enough to be interesting. Two segments and three
transactions are the least in which a merge of two segments follows the builds
that made them, in which an id could be reused, and in which a reader can hold a
manifest two commits old. `store_concurrent` starts from two states
(`SpecInUse`): nothing, and an index with an overlay, because dropping an overlay
and writing the next takes two more commits than the rest needs. Two processes give every pair of interleaved
operations; a third only adds another reader that nobody waits for. Two paths,
two inodes and three changes allow create–rename–recreate, edit in place,
replace by a new file, hard links, and every one of them between crawl, hash
and read. One failing read is enough for the state it leaves, a record that no
update repairs, to meet every change, update and merge that follow; files that a
crawl cannot open count as changes of what a crawl finds (`MaxClock`). Four doc ids are the least for a merge of a two-document index, or an
update after a merge. `MaxTxn`, `MaxClock`, `MaxDoc`, `MaxSegments`, `MaxActors`,
`MaxTime`, `MaxFaults` bound counters that are unbounded in the code (ids are 32 bits wide
there); each appears in guards only, as do `MaxDisk`, `MaxOps`, `MaxDocs`, `MaxId`,
`MaxDeleted`, `MaxText` and `MaxChunks`. In `root_service` a mailbox
of one place makes every sender meet a full queue, two commands allow a merge
asked for while one runs and a merge beside another process's, and one query
holds a snapshot across any number of refreshes; the watcher adds reconciles
without bound. `root_service_live` needs two places, so that a command can stand
behind a shutdown. `daemon` needs two clients of one root, for every race is
between requests about the same root, and a second actor for the one that is
added again. `autostart` has a third process so that one can be dead, one stopping
and one starting.

In `search` the file formats work at small bases so that their boundaries are
crossed with three documents: two terms to a dictionary block, varint digits of
base 2, bitmap bytes of 2 bits, terms of more than 4 characters left out, tiers
of 32 bytes and more. Texts and queries are typed over one index with a deleted
document (`Showcase`): neither parser nor tokenizer sees the index, so what
varies in them need not be combined with every index, and what evaluation makes
of an index is checked in all of them with six fixed queries that have every
kind of node. The three documents are chosen so that terms of a dictionary block share
a prefix (`a`, `ad`), that an atom is too long to be written while its parts are
not (`a_a_a`), and that windows of 5 characters cut a line of each kind: before
it, behind it, through a wanted atom that is not the first, and through one that
is. Typed texts have quotes and the words OR and AND in them.

Deadlock checking is off in the `documents`, `search` and `governor_rate` runs
and in `documents_merged`: users need not change, delete or type anything, and
at its bounds such a model has nothing left to do. Everywhere else a state
without a step would be an error.

The invariant `TypeOK` is checked where it is also proved from the same run
(`commit_ordered`); in the other modules it documents the state. Those of
IndexStore, RootService, Daemon, Autostart, DocIndex and Governor are proved, as
the first conjunct of their inductive invariants.

## 4. What the violation runs say

Each is a disagreement between a sentence of the documentation and the code
(`PROJECT.json`, "findings").

* `store_overlay_reuse`. Dropping the overlay resets its generation, so a name
  is written twice; a slow open that expects the first file reports Corrupt
  instead of retrying.
* `documents_merged`. `commit_merges` re-reads tombstones and not patches.
  `Untainted` excludes what follows from it from the properties of `documents`.
* `daemon_add_twice`. `add_root` looks up, awaits a build and inserts; the
  comment calls it idempotent, and of two at once it is not. The handle that is
  overwritten was the only way to stop the first actor and its watcher.
* `governor_rate`. `spend` tells the caller to wait for the missing tokens and
  does not charge for the wait: `refill` earns them again. Groups larger than
  the burst pass at up to twice the rate, and at no more than that: `TwiceTheRate`
  is proved.

Five more places where the code is weaker than it looks are conditions of the
properties that hold:

* `commit()` ignores a failed second sync and goes on to unlink the old files.
  `CrashSafe` then needs a file system that persists directory changes in
  order: `OrderedDir`, a constant of CommitProtocol and a hypothesis of its
  theorems.
* A rename whose old name is taken again makes one plan delete and patch the
  same doc; the file under its new name is missing until the next update.
  `TwoUpdatesSuffice` shows the next one repairs it, and `QuietUpdateConverges`
  that this is the only such case. A file that moves between crawl and read
  joins metadata of one moment with bytes of another (`misread`).
* A read error of a file that is there is recorded for good: the record of the
  skipped file has the file's stat, so no later update, however undisturbed,
  reads it again until it changes. `Describes` excepts such files (`failed`) from
  `SettledIsAccurate`, `TwoUpdatesSuffice` and `QuietUpdateConverges`: they are
  shown, with their path, and not found by their text.
* The parser drops operands without words before it asks whether an AND is the
  first thing in its clause: `"" AND a` and `. AND a` are queries by the grammar
  in the comment on the parser and are refused. `QueryMeansWhatItSays` excepts
  exactly these (`LeadingAnd`).
* The loop that absorbs a burst of events ends only with a quiet window, so the
  period bounds nothing while a file below the root is written more often than
  that. `ChangesBecomeSearchable` is therefore about finitely many changes.

## 5. Properties worth a reader's time

* `ImplementsAtomicIndex`: every system call of a commit is a step of a
  register with a visible and a stable value, or invisible.
* `CrashSafe`: looks at the directory and at every outcome of a power loss now.
* `UncommittedKept` and `IndexComplete`: the reason why open reads `MANIFEST`
  only after its lock attempt, and keeps the lock through the sweep.
* `NoLostCommit` (proved; it also follows from `ImplementsSharedIndex`, by which it is
  checked) and `SegmentsImmutable`: a commit builds on the one before it, whoever
  made that, and a reader that still works from an old manifest finds
  the segment files it was written about, or none, and never others.
* `ImplementsSharedIndex`: the system calls of all processes together, with the
  sweeps, stale reads and kills between them, are those of one index that is
  replaced as a whole by whoever is inside the lock; an open comes back with one
  committed state and every file of it, or starts over or gives up because a
  commit overtook it.
* `SettledIsAccurate`: if an undisturbed update found nothing to do, the index
  shows each file of the disk exactly once, with the bytes it has or, if a read
  of that file failed and it has not changed since, as skipped.
* `TwoUpdatesSuffice`, `QuietUpdateConverges`: convergence as safety, by counting
  undisturbed updates.
* `MergeKeepsDocs`, `OneDocPerPath`, `PatchesStayWithTheirDoc`, `Decodable`:
  what ids, tombstones, patches and segments must preserve across each other.
* `InForceComplete` of RootService: files are unlinked by name when the last
  reference to a replaced snapshot goes away, any number of commits later, and
  by every sweep; none of them may hit what is in force.
* `MergingFlagHonest`: the flag is reset when the report is received, and the
  report has to pass the same bounded mailbox as everything else.
* `ChangesBecomeSearchable`: from a change to a snapshot that has it, over lost
  events, lock timeouts, failing updates, overtaken opens and full mailboxes.
* `RegisteredActorsServe`, `RequestsAnswered`: an actor is spawned before it is
  inserted and stopped after it is removed, with awaits in between; the write
  lock of the registry is held while `remove_root` waits for room in a mailbox,
  and the mailbox is emptied by an actor that needs no lock.
* `DaemonEnds`: a shutdown reaches the accept loop, every connection and every
  registered actor; an unused daemon is noticed by two separate looks.
* `ServerOwnsSocket`, `FailuresExplained`: which of the processes past the
  instance lock may unlink the name under which another one listens; and that
  daemons which race for lock and socket never leave a client with nobody: it is
  told what is wrong, or a daemon ended during its call, or one is still starting.
* `SegmentsReadBack`: for every term and document, what the encoded files say by
  lookup, by scan, by cursor and by seek, from any place, is what the texts
  say, after shards, flushes, deletions, renumbering and merges.
* `EvaluateIsExact`, `PagesTile`: exactly the live documents that match, in one
  order; the pages of an answer over two roots put together are that order.
* `QueryMeansWhatItSays`: a query that parses finds what the grammar says, and is
  refused exactly if the grammar refuses it or it is a `LeadingAnd`.
* `SourceFindsItself`: a text that is copied from a document finds the document at
  its place. Exceptions, each a condition of the formula: a part that holds a
  quote (it ends the phrase) or begins with a combining mark, atoms too long to be
  written, and a part that is the word AND or OR, which has to be quoted.
* `MatchesCanBeShown`: what is found is shown by a piece of its best line, with
  exactly the wanted atoms highlighted that are whole in the piece, and the first
  one of the line among them unless it is longer than the window leaves room for.
* `TwiceTheRate`, `DutyCycleKept` (proved): sums over all the groups of a merge, of which
  the code looks at one at a time: what a wait paid for is refilled at most once
  more, and rounding each rest costs half a tick per group and nothing else.
* `MergesShrink`: each merge leaves fewer segments or fewer deleted documents,
  so repeating them ends; merges happen on command and so this is the form
  termination takes.

Fairness. RootService: weak fairness of the actor, the merge
task, the watcher thread and the other process, since each is a task, thread or
process that the runtime or the kernel schedules; strong fairness of each
sender that waits for room in the mailbox (`Trigger`, `Send`, `SendShutdown`),
since tokio's bounded channel serves waiting senders in order; and strong
fairness of the actor's `Crawl` and `CommitUpdate`, i.e. that I/O does not fail
every time. Nothing is assumed of users, clients, the registry or the delivery
of events: hints may all be lost, and the period makes up for it.

Daemon: weak fairness of each actor and of the idle task's polls; strong
fairness of each connection's own steps and of the accept loop, which wait in
tokio's fair queues for the registry's lock, room in a mailbox or the shutdown
signal; strong fairness of `IdleStop`, i.e. the idle task does look at a moment
at which nobody is connected if there are such moments again and again. Clients
need not say anything or hang up. Autostart: weak fairness of a daemon process's
steps and of a client's, and of its deadline, i.e. time passes. No daemon has to
come up, and none has to answer before it stops. The other models need none: lock polling ends by its
deadline and open by its bound on attempts, both modelled as steps.

## 6. Proofs

`CommitProtocolProofs` proves, for all values of `MaxSeg`, `MaxGen`, `MaxTxn`
and `MaxNew`, under `OrderedDir`:

| Theorem | Statement |
|---|---|
| `Invariance` | `Spec => []IInv` |
| `TypeCorrect` | `Spec => []TypeOK` |
| `CrashSafety` | `Spec => []CrashSafe` |
| `Durability` | `Spec => []AckedSurvives` |
| `ErrorAtomicity` | `Spec => []ErrorChangesNothing` |
| `Freshness` | `Spec => []FreshNames` |
| `Refinement` | `Spec => ImplementsAtomicIndex` |

`IndexStoreProofs` proves, for any set of processes and the same bounds:

| Theorem | Statement |
|---|---|
| `Invariance` | `Spec => []IInv` |
| `TypeCorrect` | `Spec => []TypeOK` |
| `NeverMissingAFile` | `Spec => []IndexComplete` |
| `SweepsSpareWriters` | `Spec => []UncommittedKept` |
| `ImmutableSegments` | `Spec => []SegmentsImmutable` |
| `CommitsAreKept` | `Spec => NoLostCommit` |
| `RetriesProgress` | `Spec => RetrySeesProgress` |
| `Refinement` | `Spec => ImplementsSharedIndex` |

`RootServiceProofs` proves, for any sets of clients and queries, any capacity of
the mailbox and any number of changes and operations:

| Theorem | Statement |
|---|---|
| `Invariance` | `Spec => []IInv` |
| `TypeCorrect` | `Spec => []TypeOK` |
| `FilesInUse` | `Spec => []InForceComplete` |
| `MergingFlag` | `Spec => []MergingFlagHonest` |
| `NoForgetting` | `Spec => CoversNeverRegress` |
| `StagedMergeKept` | `Spec => StagedKept` |
| `ReadYourWritesHolds` | `Spec => ReadYourWrites` |

`DaemonProofs` proves, for any finite set of connections, any set of roots, any
number of actors and any capacity of their mailboxes:

| Theorem | Statement |
|---|---|
| `Invariance` | `Spec => []IInv` |
| `TypeCorrect` | `Spec => []TypeOK` |
| `CountIsExact` | `Spec => []ConnectionsCounted` |
| `RegisteredServe` | `Spec => []RegisteredActorsServe` |

and `AutostartProofs`, for any sets of clients and processes:

| Theorem | Statement |
|---|---|
| `Invariance` | `Spec => []IInv` |
| `TypeCorrect` | `Spec => []TypeOK` |
| `OneServer` | `Spec => []ServerOwnsSocket` |
| `FailuresAreExplained` | `Spec => FailuresExplained` |

`DocIndexProofs` proves, for any contents and inodes and any number of paths,
changes, doc ids and segments:

| Theorem | Statement |
|---|---|
| `Invariance` | `Spec => []IInv` |
| `TypeCorrect` | `Spec => []TypeOK` |
| `Decodability` | `Spec => []Decodable` |
| `OnePath` | `Spec => []OneDocPerPath` |
| `PatchesStay` | `Spec => PatchesStayWithTheirDoc` |
| `MergeKeeps` | `Spec => MergeKeepsDocs` |
| `Convergence` | `Spec => []Converges` |
| `SettledAccurate` | `Spec => []SettledIsAccurate` |
| `TwoUpdates` | `Spec => []TwoUpdatesSuffice` |
| `QuietUpdate` | `Spec => QuietUpdateConverges` |

and `GovernorProofs`, for any plan, any readings of power and memory, and, under
`Sensible`, any burst, rate and duty cycle:

| Theorem | Statement |
|---|---|
| `Invariance` | `Spec => []IInv` |
| `TypeCorrect` | `Spec => []TypeOK` |
| `RateKept` | `Spec => []TwiceTheRate` |
| `DutyKept` | `Spec => []DutyCycleKept` |

Assumptions. `BoundsAssumption` (the bounds are naturals) and `OrderedDir`, an
explicit hypothesis of every theorem of `CommitProtocolProofs`: without it
`CrashSafe` is false, as TLC finds with `OrderedDir = FALSE` in the cfg of `commit_ordered`. The
file system itself is assumed only in `Outcomes` and
`Settle`: rename is atomic, synced bytes survive, a power loss keeps a prefix of
the directory changes made since the last sync. The other assumptions are about
names and sizes: `Nobody` and the two or three fixed actors are different from
processes, clients and connections (`ProcessAssumption`, `ServiceAssumption`,
`DaemonAssumption`, `AutostartAssumption`), a mailbox has room for a command, and
a daemon has finitely many connections, so that they can be counted.
`ContentAssumption` and `SegmentsAssumption` say that the bounds of DocIndex are
naturals and that no content is both text and binary. The hypothesis `Sensible` of
`GovernorProofs` says that burst, rate and the working part of the duty cycle are not
0, which `TokenBucket::new` and `DutyCycle::new` see to. No theorem uses fairness.

What an operation does to a manifest (`IndexLayoutProofs`). The two models of
the store share it: `BuildIsSafe`, `UpdateIsSafe`, `DeleteIsSafe` and
`MergeIsSafe` say that from a well-formed manifest each operation plans a
`SafeTransaction` (it writes only names that are not referenced, retires only
names that will not be, and leaves a well-formed manifest: ids below
`next_segment_id`, which is why fresh names are fresh). `BuildSucceeds`,
`UpdateSucceeds` and `MergeSucceeds` say that the new manifest `Succeeds` the old
one: segment ids and, per segment, deletion generations only grow (`Descends`),
and what is written has a segment file's name only if no manifest so far has used
it (`Fresh`). `DescendsFurther` makes that transitive.

Argument for commits. `CrashSafe` alone is not inductive: nothing in it says that
the files the next manifest names are being put in place, or that what is going
to be unlinked is not in use. `IInv` adds: every manifest ever written is well
formed; both `dir` and `durable` are `Solid` (no torn file under a final name,
`MANIFEST` complete and not older than what was acknowledged); before the commit
point, `Preparing` (each file of the plan is in place or still to be written,
and neither the announced nor the retired files are in use by the wrong
manifest); after it, that the manifest in force is the plan's. One lemma per
action preserves `IInv`. The refinement rests on one observation: as `dir` and
`durable` always open, the abstract values are the stamps of their `MANIFEST`s.

Argument for processes. `IndexComplete` and `UncommittedKept` are about sweeps
that delete what they do not know, so what a sweep knows has to be in the
invariant, and who else can be at work. `LockHeld`: LOCK is held by exactly the
process whose label says so. `Readers`: a reader's manifest was in force once,
and that of a sweep still is, which is what reading `MANIFEST` after the lock
attempt buys. `Writing` and `Retiring`: before the commit point a writer's plan
is a safe transaction on top of what is in force, afterwards what it has left to
unlink is unused. `Lineage`: every manifest that was ever in force is an ancestor
of the one that is, and its segment files have not been written again;
`SegmentsImmutable` follows from it. `Manifests`: an abandoned plan is
forgotten and expects nothing of the files. The lemma `Local` deals with all the
steps of readers and lock takers at once; `StartIsSafe` is proved for any
well-formed manifest with its files in place and any debris beside it, and so
covers the start of both `Spec` and the run `store_reuse`.

Argument for one shared index. The abstract index is the manifest in force: its
number, its generation and its files. What an open has seen is the number of
the manifest it read, so three facts carry the refinement. `SameManifestSameIndex`:
unless `MANIFEST` is renamed nothing that a step does to the directory can be seen,
because every file that is referenced stays as it is. `FileLostMeansOvertaken`: a
file that an open misses, or finds with other contents than its manifest says,
means that a manifest with a higher number is in force. And whoever replaces or
sweeps is inside (`Inside` of its label), alone, by `LockHeld`.
Everything else a process does, the plans, temporary files, syncs, unlinks and
probes, is a stutter.

Argument for one root. `InForceComplete` says nothing of files that will be
removed by a snapshot that is still held: `RetiredUnused` does, and is kept
because numbers are given out once (`Numbered`, `OpenedLater`). `LockHeld` and
`CrawlIsCurrent` say that a writer's crawl is at least as new as the index it is
going to replace, from which `CoversNeverRegress` follows. `GenerationsAgree` says that
the index and the live snapshot of the same generation cover the same changes,
so that a `refresh` which finds nothing newer keeps what it has.
`MergingFlagHonest` needs `OneMerge`: the actor commits a merge only after its
task has reported and before it starts another. `Queued`, `Served` and `AskedIsCovered` say that
a command in the mailbox, or in the actor's hands, is the one its client
waits for, and that what the actor has crawled for it is not older than what the
client had seen when it asked; `ReadYourWrites` is the last step of that.

Argument for the daemon. `RegisteredActorsServe` needs to know where handles can
be: `OneHandle` says that an actor's handle is in the registry or with one task
between its awaits, never both; `HandlesBorn` that whoever has a handle has one
of a spawned actor; `ToldToStop` that an actor with a shutdown in its mailbox,
and one that has ended, is out of the registry. `Queued` says that the
command an actor works on belongs to a connection that waits for this actor and
has no other command anywhere. The count of connections is exact step by step,
with `FS_AddElement` and `FS_RemoveElement` of the library.

Argument for starting daemons. `ServerOwnsSocket` says nothing of a process that is about
to unlink or bind the name; `LockedIn` adds that whoever is past the lock is the
one that has it, and so alone. `FailuresExplained` is about steps: `JInv` adds
that the lock is held by a living process, that the end of a daemon, by whatever
cause, is noted with every client that calls, and whom an undisturbed client can meet
(`ClientsMeetDaemons`).

Argument for what the index says. `Decodable` makes `segments` a `Row`: an id
lies in one segment, and `id_bound` is where the last one ends (`OneDoc`,
`BoundIs`), so that a segment that starts there disturbs no other
(`AppendRow`, `AppendLive`). With `PatchesInRange`, which says that no patch is
for an id that was not given out yet, `PatchesStayWithTheirDoc` follows.
`OneDocPerPath` is about commits, but is decided by `reconcile`: `PlanFits` says
that an update's plan is about live docs and keeps paths `Apart`, two patches, a
patch and a new doc, and either of them and a doc that stays. `reconcile` is a
recursive function of the paths, and `VisitedFacts` is an induction over them:
what was planned so far is `Apart` and for paths up to this one, and no old
path is consumed twice. `MergeKeepsDocs` needs what happened between the
preparation and the commit of a merge: `MergeFollows` says that of each source
that is still there the prepared merge has all that was live, with its bytes, and
that docs have only died since. `MergeMoves` then maps the live docs after the
commit onto those before, and a bijection keeps the number of each.

Argument for convergence. A reconcile reads a file only if its stat (inode and
mtime) is not the recorded one, so what has to hold of the index between two
updates is not that its records are right about the files at their paths, which
they are not as soon as a user moves something, but that a record which still has
the stat of some file, under whatever name, is right about its bytes:
`RecordsTell`. Users keep that, because a write gives a time that no record and
no crawl has (`StatsTell`, `RewritesTell`); patches and new docs keep it, because
they take their stat from a crawl and their bytes from a file that was not moved
away meanwhile, or have no bytes because the read of the file with that stat failed
(`PatchTells`, `NewDocTells`, and `PlanTells` while the plan waits); a merge keeps it unless it undoes a patch. What a reconcile makes of
the records is proved of each visit and carried over all of them (`AfterVisits`,
with the visits as a set of pairs): `ReconcilePlans` says that a doc is left alone
only if the crawled file at its path has its stat, and that there is something to do if
there is a new file; `ReconcileServes` that every crawled file gets a doc, if no
new path has the inode of a doc whose path is still there (`Unambiguous`).
`SettledIsAccurate` follows from the first, `QuietUpdateConverges` from both.
`TwoUpdatesSuffice` needs `CalmIsCurrent`: one undisturbed update, even an
ambiguous one, leaves no record that is out of date (`UpdateCurrent`), and such an
index is ambiguous only under hard links (`CurrentDistinct`). That is why the
second update is enough, and why the theorem has `NoHardLinks` as a hypothesis.

Argument for the pacing. `TwiceTheRate` compares bytes read with the present
time, but what pays for them is spread over three places. `Paid` adds them up:
what the bucket was asked for, the group that waits included, plus what it still
has is at most the burst, what was refilled until its last refill, and what the
waits so far brought, the present one to its end. Both times have passed when a
group is read, hence the factor of two. `Rested` is the same for the duty cycle: it
holds up to the end of the rest that is due (`RestedUntil`), each rest pays for
the work before it (`RestPays`, `IdleFacts`), and sleeping longer only adds to it.

Induction. The library's induction theorems take an operator as parameter, a form
these provers cannot instantiate. `Least` (a set of naturals has a least
member, from the library's well-foundedness of `<`) needs none; `Induction` and
`Recursion` follow from it, for sets and functions, and say what
the recursive functions of DocIndex and Reconcile compute (`SubFacts`,
`SurvivorsFacts`, `VisitedFacts`).

Only model-checked: `Search` and everything it is built from, and every liveness property
(`ChangesBecomeSearchable`, `CommandsAnswered`, `ShutdownCompletes`,
`RequestsAnswered`, `DaemonEnds`, `CallsEnd`). Liveness and ENABLED are out of
reach of the provers used here. The tokenizer, the codecs, the parser and evaluation are
RECURSIVE operators over data, about which the provers have nothing to say.

## 7. Not modelled, and why

* The store's models know of contents only which transaction wrote them. Search
  has the encodings, without envelopes, checksums (`crc` of a file) and the widths of u32 and
  u64: a value that would not fit is beyond the bounds.
* BM25's floating point. Scores are numbers of occurrences, which rank and tie
  like scores do; `k1`, `b` and the average length are left out.
* Rendering of snippets, reports, benchmarks, the command line, ignore rules,
  named pipes, the syntax of messages, paths and configuration: presentation or
  I/O without state of their own.
* Real time: `take_lock`'s 500 ms, open's attempts, quiet windows, periods and
  deadlines are nondeterministic. Governor counts ticks, and its backoff on
  battery sleeps once and charges nothing, as `throttle` does.
* Crawl order and atomicity: a crawl is one look at the disk. Changes during
  it are changes before or after it per file, which two paths and changes at
  every later step cover in kind.
* mtime granularity: an edit always changes (mtime, size). One that does not is
  invisible to reconcile by design.
* `DocIndex` has one prepared merge group at a time and prepares it from the
  index as it is in that step; a pass over several groups commits them in one
  manifest in the code, and does in SearchIndex.
* In RootService: `Status` (it only reads), the governor's pauses (time), the
  figures kept for status, and the event source closing (`NotifySource` owns
  both ends of its channel). A pass over several merge groups is one group, and
  the two opens after a commit, the one that ends `update_index` and the one of
  `refresh`, are one step. Events other than those of changes and of ripindex
  itself are left out. Manifests that vanish or are rebuilt from nothing
  are the matter of CommitProtocol.
* In Daemon: what a root answers, and what an actor does before it answers. In
  Search: `handle_query` asks its roots in one step; `limit + offset` does not
  overflow; `total` of an answer is left as it is, the number of hits that were
  fetched. `CountsAgree` excepts deleted documents that were skipped, which
  `recompute_stats` subtracts from the indexed ones.
* `delete_docs` with an out-of-date `Index`: the library's callers open first.

## 8. Plan

Done: the store and what it implements, what the index says, one root, the daemon
around it, how it is started, the pacing of merges, and search, with proofs about
all of them but search (sections 2 to 6). What is left:

1. That `RootService` uses a `SharedIndex`: its process and the other one commit
   and open in single steps there, which `Refinement` of `IndexStoreProofs` justifies,
   but the two are related by this text and not by a mapping.
