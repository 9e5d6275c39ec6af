----------------------------- MODULE RootService -----------------------------
(***************************************************************************)
(* One root of the daemon: its watcher thread (src/store/watcher.rs), its  *)
(* actor and the background merge the actor starts (src/daemon/actor.rs),  *)
(* the live index it refreshes (src/store/live.rs), and the queries that   *)
(* hold snapshots of it.  Clients ask for reconciles and merges; another   *)
(* process ("cli") may update or merge the same index under LOCK.          *)
(*                                                                         *)
(* What a commit is made of is the matter of CommitProtocol, IndexStore    *)
(* and DocIndex; here it is one step under LOCK.  A manifest is reduced to *)
(* its generation, the ids of its segments, and which of the users'        *)
(* changes it covers: disk counts those changes, and a crawl sees all that *)
(* were made so far.                                                       *)
(***************************************************************************)
EXTENDS Naturals, FiniteSets, Sequences

CONSTANTS Client,       \* connections that send commands to the actor
          Query,        \* queries that can run at a time
          Nobody,
          MailboxCap,   \* capacity of the mailbox (64 in the code)
          MaxDisk,      \* bound: changes users make
          MaxOps        \* bound: commands of clients and operations of the other process

ASSUME ServiceAssumption ==
    /\ Nobody \notin Client \cup {"actor", "cli", "watcher"}
    /\ "watcher" \notin Client
    /\ MailboxCap \in Nat \ {0}
    /\ {MaxDisk, MaxOps} \subseteq Nat

VARIABLES disk,      \* changes users have made below the root
          hint,      \* the watcher's channel holds an event
          index,     \* the manifest in force
          files,     \* ids of the segments whose files exist
          staged,    \* whose merged files are in staging/
          lock,      \* who holds LOCK
          job,       \* what each writer is doing
          mailbox,   \* commands the actor has yet to receive
          merging,   \* ActorState.merging
          task,      \* the background merge
          live,      \* LiveIndex.current
          held,      \* the snapshot each query runs on
          watcher,   \* the next step of the watcher thread
          healthy,   \* ActorState.watcher_healthy
          stop,      \* RootHandle::shutdown: watcher_stop, then Shutdown
          client,    \* what each client has asked
          ops        \* counts what MaxOps bounds

store == <<index, files, staged, lock>>
actor == <<job, mailbox, merging, task>>
reading == <<live, held>>
watching == <<hint, watcher, healthy>>
vars == <<disk, store, actor, reading, watching, stop, client, ops>>

Writer == {"actor", "cli"}
NoSnapshot == [generation |-> 0, covers |-> 0, segments |-> {}, retire |-> {}]
Resting(w) == [pc |-> IF w = "actor" THEN "recv" ELSE "idle", crawled |-> 0,
               sources |-> {}, view |-> NoSnapshot, who |-> Nobody]
Answered(result) == [pc |-> result, cmd |-> "none", asked |-> 0]
NoTask == [pc |-> "none", sources |-> {}]

\* LiveSegments are wrapped anew for every snapshot; retire holds the ids of
\* those whose flag is set.
Wrap(m) == [generation |-> m.generation, covers |-> m.covers,
            segments |-> m.segments, retire |-> {}]

-----------------------------------------------------------------------------
\* Registry::add_root has updated the index and opened it; actor and watcher
\* have just been spawned.
Init ==
    /\ disk = 0
    /\ hint = FALSE
    /\ index = [generation |-> 1, covers |-> 0, segments |-> {0}, next |-> 1]
    /\ files = {0}
    /\ staged = {}
    /\ lock = Nobody
    /\ job = [w \in Writer |-> Resting(w)]
    /\ mailbox = <<>>
    /\ merging = FALSE
    /\ task = NoTask
    /\ live = Wrap(index)
    /\ held = [q \in Query |-> NoSnapshot]
    /\ watcher = "start"
    /\ healthy = TRUE
    /\ stop = "no"
    /\ client = [c \in Client |-> Answered("ok")]
    /\ ops = 0

ActorGone == job["actor"].pc = "gone"
Room == Len(mailbox) < MailboxCap
Post(cmd, who) ==
    /\ ~ActorGone
    /\ Room
    /\ mailbox' = Append(mailbox, [cmd |-> cmd, who |-> who])

\* The oneshot reply to whoever sent the command.
Answer(who, result) ==
    /\ client' = [c \in Client |-> IF c = who THEN Answered(result) ELSE client[c]]
    /\ watcher' = IF who = "watcher" THEN "check" ELSE watcher

\* The operation of w is over; a command is answered.
EndJob(w, result) ==
    /\ job' = [job EXCEPT ![w] = Resting(w)]
    /\ Answer(job[w].who, result)

\* Files that cannot be removed (mapped, on Windows) stay.
RemoveBestEffort(ids) == files' \in {files, files \ ids}

Goto(w, label) == job' = [job EXCEPT ![w].pc = label]

\* Mutant: the actor answers before it refreshes.
CommittedAnswersFirst(w) == EndJob(w, "ok")

\* update_index and commit_merges return: a process is done, the actor goes on
\* to LiveIndex::refresh before it answers.  (The open that ends both and the
\* one in refresh are one step, RefreshOpen.)
Committed(w) ==
    IF w = "actor" THEN Goto(w, "open") /\ UNCHANGED <<client, watcher>>
                   ELSE EndJob(w, "ok")

-----------------------------------------------------------------------------
(* The actor's mailbox.                                                    *)

Receive(cmd) ==
    /\ job["actor"].pc = "recv"
    /\ mailbox # <<>>
    /\ Head(mailbox).cmd = cmd
    /\ mailbox' = Tail(mailbox)

ReceiveReconcile ==
    /\ Receive("reconcile")
    /\ job' = [job EXCEPT !["actor"].pc = "lock", !["actor"].who = Head(mailbox).who]
    /\ UNCHANGED <<disk, store, merging, task, reading, watching, stop, client, ops>>

\* start_merge: refused while one is running, otherwise a task of its own.
ReceiveMerge ==
    /\ Receive("merge")
    /\ IF merging THEN UNCHANGED <<merging, task>>
                  ELSE merging' = TRUE /\ task' = [pc |-> "clear", sources |-> {}]
    /\ Answer(Head(mailbox).who, "ok")
    /\ UNCHANGED <<disk, store, job, reading, hint, healthy, stop, ops>>

\* Mutant: the flag is reset only when there is something to commit.
ReceiveMergeReadyKeepsFlag ==
    /\ Receive("merge_ready")
    /\ merging' = (task.sources = {})
    /\ task' = NoTask
    /\ job' = IF task.sources = {} THEN job
              ELSE [job EXCEPT !["actor"].pc = "merge_lock", !["actor"].sources = task.sources]
    /\ UNCHANGED <<disk, store, reading, watching, stop, client, ops>>

\* finish_merge: nothing was prepared, or commit it.
ReceiveMergeReady ==
    /\ Receive("merge_ready")
    /\ merging' = FALSE
    /\ task' = NoTask
    /\ job' = IF task.sources = {} THEN job
              ELSE [job EXCEPT !["actor"].pc = "merge_lock", !["actor"].sources = task.sources]
    /\ UNCHANGED <<disk, store, reading, watching, stop, client, ops>>

ReceiveUnhealthy ==
    /\ Receive("unhealthy")
    /\ healthy' = FALSE
    /\ UNCHANGED <<disk, store, job, merging, task, reading, hint, watcher, stop, client, ops>>

\* Mutant: the queue is kept, nobody will ever read it.
ReceiveShutdownKeepsQueue ==
    /\ Receive("shutdown")
    /\ Goto("actor", "gone")
    /\ UNCHANGED <<disk, store, merging, task, reading, watching, stop, client, ops>>

\* The loop ends and the receiver is dropped: what is still in the mailbox is
\* lost and its senders see their oneshot closed.
ReceiveShutdown ==
    /\ job["actor"].pc = "recv"
    /\ mailbox # <<>>
    /\ Head(mailbox).cmd = "shutdown"
    /\ mailbox' = <<>>
    /\ Goto("actor", "gone")
    /\ client' = [c \in Client |-> IF client[c].pc = "waiting"
                                   THEN Answered("error") ELSE client[c]]
    /\ watcher' = IF watcher = "await" THEN "check" ELSE watcher
    /\ UNCHANGED <<disk, store, merging, task, reading, hint, healthy, stop, ops>>

-----------------------------------------------------------------------------
(* Writers under LOCK: update_index and commit_merges, in the actor or in  *)
(* another process.                                                        *)

\* Mutant: the crawl is done before the lock is waited for.
TakeLockAfterCrawl(w) ==
    /\ \/ /\ job[w].pc = "lock"
          /\ job' = [job EXCEPT ![w].pc = "late_lock", ![w].crawled = disk]
          /\ UNCHANGED <<lock, hint>>
       \/ /\ job[w].pc \in {"late_lock", "merge_lock"}
          /\ lock = Nobody
          /\ lock' = w
          /\ Goto(w, IF job[w].pc = "late_lock" THEN "commit" ELSE "merge")
          /\ hint' = TRUE
    /\ UNCHANGED <<disk, index, files, staged, mailbox, merging, task, reading,
                   watcher, healthy, stop, client, ops>>

\* take_lock; FsLock rewrites the file LOCK, an event below the root.
TakeLock(w) ==
    /\ job[w].pc \in {"lock", "merge_lock"}
    /\ lock = Nobody
    /\ lock' = w
    /\ Goto(w, IF job[w].pc = "lock" THEN "crawl" ELSE "merge")
    /\ hint' = TRUE
    /\ UNCHANGED <<disk, index, files, staged, mailbox, merging, task, reading,
                   watcher, healthy, stop, client, ops>>

\* Locked after 500 ms.  What a merge has staged stays there.
LockTimeout(w) ==
    /\ job[w].pc \in {"lock", "merge_lock"}
    /\ lock # Nobody
    /\ EndJob(w, "error")
    /\ UNCHANGED <<disk, store, mailbox, merging, task, reading, hint, healthy, stop, ops>>

Crawl(w) ==
    /\ job[w].pc = "crawl"
    /\ job' = [job EXCEPT ![w].pc = "commit", ![w].crawled = disk]
    /\ UNCHANGED <<disk, store, mailbox, merging, task, reading, watching, stop, client, ops>>

\* update_index: nothing to do, or a commit with or without a new segment.
CommitUpdate(w) ==
    /\ job[w].pc = "commit"
    /\ lock' = Nobody
    /\ IF job[w].crawled = index.covers
       THEN UNCHANGED <<index, files, hint>>
       ELSE /\ \E fresh \in SUBSET {index.next} :
                  /\ index' = [generation |-> index.generation + 1,
                               covers |-> job[w].crawled,
                               segments |-> index.segments \cup fresh,
                               next |-> index.next + Cardinality(fresh)]
                  /\ files' = files \cup fresh
            /\ hint' = TRUE
    /\ Committed(w)
    /\ UNCHANGED <<disk, staged, mailbox, merging, task, reading, healthy, stop, ops>>

Staging(w) == IF w = "actor" THEN "task" ELSE "cli"

\* commit_merges: the staged files become a new segment; the files of the
\* sources are unlinked, best effort.
CommitMerge(w) ==
    /\ job[w].pc = "merge"
    /\ job[w].sources \subseteq index.segments
    /\ Staging(w) \in staged
    /\ lock' = Nobody
    /\ index' = [generation |-> index.generation + 1,
                 covers |-> index.covers,
                 segments |-> (index.segments \ job[w].sources) \cup {index.next},
                 next |-> index.next + 1]
    /\ files' \in {files \cup {index.next}, (files \cup {index.next}) \ job[w].sources}
    /\ staged' = staged \ {Staging(w)}
    /\ hint' = TRUE
    /\ Committed(w)
    /\ UNCHANGED <<disk, mailbox, merging, task, reading, healthy, stop, ops>>

\* A source is gone, or a staged file is: nothing is committed.
MergeAborts(w) ==
    /\ job[w].pc = "merge"
    /\ ~(job[w].sources \subseteq index.segments /\ Staging(w) \in staged)
    /\ lock' = Nobody
    /\ EndJob(w, "error")
    /\ UNCHANGED <<disk, index, files, staged, mailbox, merging, task, reading,
                   hint, healthy, stop, ops>>

\* A system call fails before the commit point.  A merge whose open fails
\* discards its staged files, one that fails later leaves what is left of them.
Fail(w) ==
    /\ job[w].pc \in {"crawl", "commit", "merge"}
    /\ lock' = Nobody
    /\ \/ UNCHANGED staged
       \/ job[w].pc = "merge" /\ staged' = staged \ {Staging(w)}
    /\ EndJob(w, "error")
    /\ UNCHANGED <<disk, index, files, mailbox, merging, task, reading,
                   hint, healthy, stop, ops>>

-----------------------------------------------------------------------------
(* LiveIndex.                                                              *)

\* The sweep of an open removes what its manifest does not name, best effort
\* and only if the lock is free; taking it is an event.
Sweep == IF lock = Nobody
         THEN RemoveBestEffort(files \ index.segments) /\ hint' = TRUE
         ELSE UNCHANGED <<files, hint>>

\* Mutant: an open clears staging/ along with what it sweeps.
RefreshOpenClearsStaging ==
    /\ job["actor"].pc = "open"
    /\ job' = [job EXCEPT !["actor"].pc = "swap", !["actor"].view = Wrap(index)]
    /\ Sweep
    /\ staged' = {}
    /\ UNCHANGED <<disk, index, lock, mailbox, merging, task, reading,
                   watcher, healthy, stop, client, ops>>

RefreshOpen ==
    /\ job["actor"].pc = "open"
    /\ job' = [job EXCEPT !["actor"].pc = "swap", !["actor"].view = Wrap(index)]
    /\ Sweep
    /\ UNCHANGED <<disk, index, staged, lock, mailbox, merging, task, reading,
                   watcher, healthy, stop, client, ops>>

\* Whose last reference goes away removes the files of its retired segments.
DropIfUnused(snapshot, users) ==
    IF \E q \in Query : users[q].generation = snapshot.generation
    THEN UNCHANGED files
    ELSE RemoveBestEffort(snapshot.retire)

\* Mutant: every segment of the replaced snapshot is retired.
RefreshRetiresAll ==
    /\ job["actor"].pc = "swap"
    /\ LET fresh == job["actor"].view
           old == [live EXCEPT !.retire = live.segments]
       IN IF fresh.generation = live.generation
          THEN UNCHANGED <<files, reading>>
          ELSE /\ live' = fresh
               /\ held' = [q \in Query |-> IF held[q].generation = old.generation
                                           THEN old ELSE held[q]]
               /\ DropIfUnused(old, held)
    /\ EndJob("actor", "ok")
    /\ UNCHANGED <<disk, index, staged, lock, mailbox, merging, task, hint, healthy, stop, ops>>

\* The generation is the same, or the opened index becomes current and the
\* segments of the old one that it does not name are retired.
RefreshSwap ==
    /\ job["actor"].pc = "swap"
    /\ LET fresh == job["actor"].view
           old == [live EXCEPT !.retire = live.segments \ fresh.segments]
       IN IF fresh.generation = live.generation
          THEN UNCHANGED <<files, reading>>
          ELSE /\ live' = fresh
               /\ held' = [q \in Query |-> IF held[q].generation = old.generation
                                           THEN old ELSE held[q]]
               /\ DropIfUnused(old, held)
    /\ EndJob("actor", "ok")
    /\ UNCHANGED <<disk, index, staged, lock, mailbox, merging, task, hint, healthy, stop, ops>>

\* An open gives up because commits overtake it.  In refresh the error is
\* ignored and the old snapshot stays; in the open that ends update_index and
\* commit_merges it is their error, although they have committed.
OpenFails ==
    /\ job["actor"].pc = "swap"
    /\ index.generation # job["actor"].view.generation
    /\ \E result \in {"ok", "error"} : EndJob("actor", result)
    /\ UNCHANGED <<disk, store, mailbox, merging, task, reading, hint, healthy, stop, ops>>

QueryStart(q) ==
    /\ held[q] = NoSnapshot
    /\ held' = [held EXCEPT ![q] = live]
    /\ UNCHANGED <<disk, store, actor, live, watching, stop, client, ops>>

QueryEnd(q) ==
    /\ held[q] # NoSnapshot
    /\ held' = [held EXCEPT ![q] = NoSnapshot]
    /\ IF held[q].generation = live.generation
       THEN UNCHANGED files
       ELSE DropIfUnused(held[q], held')
    /\ UNCHANGED <<disk, index, staged, lock, actor, live, watching, stop, client, ops>>

-----------------------------------------------------------------------------
(* The background merge: clear_staging, open, plan and prepare, report.    *)

TaskClear ==
    /\ task.pc = "clear"
    /\ staged' = {}
    /\ task' = [task EXCEPT !.pc = "open"]
    /\ UNCHANGED <<disk, index, files, lock, job, mailbox, merging, reading,
                   watching, stop, client, ops>>

TaskOpen ==
    /\ task.pc = "open"
    /\ \E group \in SUBSET index.segments :
          task' = [pc |-> IF group = {} THEN "send" ELSE "prepare", sources |-> group]
    /\ Sweep
    /\ UNCHANGED <<disk, index, staged, lock, job, mailbox, merging, reading,
                   watcher, healthy, stop, client, ops>>

\* The merged files are written, or an error is reported.
TaskPrepare ==
    /\ task.pc = "prepare"
    /\ \/ staged' = staged \cup {"task"} /\ task' = [task EXCEPT !.pc = "send"]
       \/ UNCHANGED staged /\ task' = [pc |-> "send", sources |-> {}]
    /\ UNCHANGED <<disk, index, files, lock, job, mailbox, merging, reading,
                   watching, stop, client, ops>>

\* Mutant: when the mailbox is full the report is dropped (try_send).
TaskTrySend ==
    /\ task.pc = "send"
    /\ \/ Post("merge_ready", Nobody) /\ task' = [task EXCEPT !.pc = "sent"]
       \/ (ActorGone \/ ~Room) /\ task' = NoTask /\ UNCHANGED mailbox
    /\ UNCHANGED <<disk, store, job, merging, reading, watching, stop, client, ops>>

TaskSend ==
    /\ task.pc = "send"
    /\ \/ Post("merge_ready", Nobody) /\ task' = [task EXCEPT !.pc = "sent"]
       \/ ActorGone /\ task' = NoTask /\ UNCHANGED mailbox
    /\ UNCHANGED <<disk, store, job, merging, reading, watching, stop, client, ops>>

-----------------------------------------------------------------------------
(* The watcher thread.                                                     *)

Watch(from, to) ==
    /\ watcher = from
    /\ watcher' = to

\* NotifySource::watch succeeds and run() triggers at once, or it fails and
\* there is no watcher at all.
WatchStart ==
    /\ watcher = "start"
    /\ watcher' \in {"trigger", "failed"}
    /\ UNCHANGED <<disk, store, actor, reading, hint, healthy, stop, client, ops>>

WatchFailed ==
    /\ Watch("failed", "ended")
    /\ \/ Post("unhealthy", Nobody)
       \/ ActorGone /\ UNCHANGED mailbox
    /\ UNCHANGED <<disk, store, job, merging, task, reading, hint, healthy, stop, client, ops>>

\* on_trigger: block on a reconcile; with the actor gone it is an error.
Trigger ==
    /\ \/ Watch("trigger", "await") /\ Post("reconcile", "watcher")
       \/ Watch("trigger", "check") /\ ActorGone /\ UNCHANGED mailbox
    /\ UNCHANGED <<disk, store, job, merging, task, reading, hint, healthy, stop, client, ops>>

\* Mutant: nobody asks should_stop.
CheckNothing ==
    /\ Watch("check", "recv")
    /\ UNCHANGED <<disk, store, actor, reading, hint, healthy, stop, client, ops>>

CheckStop ==
    /\ Watch("check", IF stop = "no" THEN "recv" ELSE "ended")
    /\ UNCHANGED <<disk, store, actor, reading, hint, healthy, stop, client, ops>>

\* recv drains the channel.
RecvHint ==
    /\ watcher \in {"recv", "absorb"}
    /\ hint
    /\ hint' = FALSE
    /\ watcher' = "absorb"
    /\ UNCHANGED <<disk, store, actor, reading, healthy, stop, client, ops>>

\* Mutant: the period only goes by.
PeriodTimeoutIdles ==
    /\ Watch("recv", "check")
    /\ ~hint
    /\ UNCHANGED <<disk, store, actor, reading, hint, healthy, stop, client, ops>>

\* No event for the rest of the period.
PeriodTimeout ==
    /\ Watch("recv", "trigger")
    /\ ~hint
    /\ UNCHANGED <<disk, store, actor, reading, hint, healthy, stop, client, ops>>

\* No event for the quiet window.
QuietWindow ==
    /\ Watch("absorb", "trigger")
    /\ ~hint
    /\ UNCHANGED <<disk, store, actor, reading, hint, healthy, stop, client, ops>>

-----------------------------------------------------------------------------
(* Users, clients, the registry and the other process.                     *)

Edit ==
    /\ disk < MaxDisk
    /\ disk' = disk + 1
    /\ hint' = TRUE
    /\ UNCHANGED <<store, actor, reading, watcher, healthy, stop, client, ops>>

\* The kernel drops events without a word.
LoseHint ==
    /\ hint
    /\ hint' = FALSE
    /\ UNCHANGED <<disk, store, actor, reading, watcher, healthy, stop, client, ops>>

Ask(c, cmd) ==
    /\ client[c].pc \in {"ok", "error"}
    /\ ops < MaxOps
    /\ ops' = ops + 1
    /\ client' = [client EXCEPT ![c] = [pc |-> "sending", cmd |-> cmd, asked |-> disk]]
    /\ UNCHANGED <<disk, store, actor, reading, watching, stop>>

\* RootHandle::reconcile and merge: wait for room, then for the reply.
Send(c) ==
    /\ client[c].pc = "sending"
    /\ \/ Post(client[c].cmd, c) /\ client' = [client EXCEPT ![c].pc = "waiting"]
       \/ ActorGone /\ client' = [client EXCEPT ![c] = Answered("error")] /\ UNCHANGED mailbox
    /\ UNCHANGED <<disk, store, job, merging, task, reading, watching, stop, ops>>

\* RootHandle::shutdown.
SetStop ==
    /\ stop = "no"
    /\ stop' = "set"
    /\ UNCHANGED <<disk, store, actor, reading, watching, client, ops>>

SendShutdown ==
    /\ stop = "set"
    /\ Post("shutdown", Nobody)
    /\ stop' = "sent"
    /\ UNCHANGED <<disk, store, job, merging, task, reading, watching, client, ops>>

\* update_index or merge_index in another process.
CliStart ==
    /\ job["cli"].pc = "idle"
    /\ ops < MaxOps
    /\ ops' = ops + 1
    /\ \E label \in {"lock", "clear"} : Goto("cli", label)
    /\ UNCHANGED <<disk, store, mailbox, merging, task, reading, watching, stop, client>>

CliClear ==
    /\ job["cli"].pc = "clear"
    /\ staged' = {}
    /\ Goto("cli", "prepare")
    /\ UNCHANGED <<disk, index, files, lock, mailbox, merging, task, reading,
                   watching, stop, client, ops>>

CliPrepare ==
    /\ job["cli"].pc = "prepare"
    /\ \/ \E group \in SUBSET index.segments \ {{}} :
             /\ job' = [job EXCEPT !["cli"].pc = "merge_lock", !["cli"].sources = group]
             /\ staged' = staged \cup {"cli"}
       \/ job' = [job EXCEPT !["cli"] = Resting("cli")] /\ UNCHANGED staged
    /\ Sweep
    /\ UNCHANGED <<disk, index, lock, mailbox, merging, task, reading,
                   watcher, healthy, stop, client, ops>>

\* The kernel releases LOCK with its holder.
CliKilled ==
    /\ job["cli"].pc # "idle"
    /\ lock' = IF lock = "cli" THEN Nobody ELSE lock
    /\ job' = [job EXCEPT !["cli"] = Resting("cli")]
    /\ UNCHANGED <<disk, index, files, staged, mailbox, merging, task, reading,
                   watching, stop, client, ops>>

-----------------------------------------------------------------------------
Write(w) == TakeLock(w) \/ LockTimeout(w) \/ Crawl(w) \/ CommitUpdate(w)
            \/ CommitMerge(w) \/ MergeAborts(w) \/ Fail(w)

Actor == \/ ReceiveReconcile \/ ReceiveMerge \/ ReceiveMergeReady
         \/ ReceiveUnhealthy \/ ReceiveShutdown
         \/ Write("actor")
         \/ RefreshOpen \/ RefreshSwap \/ OpenFails

Task == TaskClear \/ TaskOpen \/ TaskPrepare \/ TaskSend

Watcher == WatchStart \/ WatchFailed \/ Trigger \/ CheckStop
           \/ RecvHint \/ PeriodTimeout \/ QuietWindow

Cli == CliClear \/ CliPrepare \/ Write("cli")

Next == \/ Actor \/ Task \/ Watcher \/ Cli \/ CliStart \/ CliKilled
        \/ Edit \/ LoseHint
        \/ SetStop \/ SendShutdown
        \/ \E c \in Client : Send(c) \/ \E cmd \in {"reconcile", "merge"} : Ask(c, cmd)
        \/ \E q \in Query : QueryStart(q) \/ QueryEnd(q)

\* The runtime runs every task, thread and process that can go on; a sender
\* waiting for room gets its turn (tokio's channel is fair); system calls do
\* not fail for ever.  Nothing is assumed of users, clients and the kernel's
\* events.
Fairness ==
    /\ WF_vars(Actor) /\ WF_vars(Task) /\ WF_vars(Watcher) /\ WF_vars(Cli)
    /\ SF_vars(SendShutdown)
    /\ SF_vars(Trigger)
    /\ SF_vars(Crawl("actor")) /\ SF_vars(CommitUpdate("actor"))
    /\ \A c \in Client : SF_vars(Send(c))

Spec == Init /\ [][Next]_vars /\ Fairness

-----------------------------------------------------------------------------
Snapshot == [generation : Nat, covers : 0 .. MaxDisk, segments : SUBSET Nat, retire : SUBSET Nat]
Message == [cmd : {"reconcile", "merge", "merge_ready", "unhealthy", "shutdown"},
            who : Client \cup {"watcher", Nobody}]

Label == {"recv", "idle", "lock", "crawl", "commit", "merge_lock", "merge",
          "open", "swap", "clear", "prepare", "gone"}
Job == [pc : Label,
        crawled : 0 .. MaxDisk, sources : SUBSET Nat, view : Snapshot,
        who : Client \cup {"watcher", Nobody}]
Preparation == [pc : {"none", "clear", "open", "prepare", "send", "sent"}, sources : SUBSET Nat]
Request == [pc : {"sending", "waiting"}, cmd : {"reconcile", "merge"}, asked : 0 .. MaxDisk]
           \cup {Answered(result) : result \in {"ok", "error"}}
Step == {"start", "trigger", "failed", "await", "check", "recv", "absorb", "ended"}

TypeOK ==
    /\ disk \in 0 .. MaxDisk
    /\ hint \in BOOLEAN /\ merging \in BOOLEAN /\ healthy \in BOOLEAN
    /\ index \in [generation : Nat, covers : 0 .. MaxDisk, segments : SUBSET Nat, next : Nat]
    /\ files \subseteq 0 .. (index.next - 1)
    /\ staged \subseteq {"task", "cli"}
    /\ lock \in Writer \cup {Nobody}
    /\ job \in [Writer -> Job]
    /\ mailbox \in Seq(Message) /\ Len(mailbox) <= MailboxCap
    /\ task \in Preparation
    /\ live \in Snapshot /\ held \in [Query -> Snapshot]
    /\ watcher \in Step
    /\ stop \in {"no", "set", "sent"}
    /\ client \in [Client -> Request]
    /\ ops \in 0 .. MaxOps

\* The files of every segment the manifest in force names exist: no snapshot
\* that is dropped, however late, and no sweep removes one that is in use
\* (LiveSegment::drop, LiveIndex::refresh).
InForceComplete == index.segments \subseteq files

\* The flag refuses a second merge exactly as long as the first one runs or
\* its report is in the mailbox: it is neither reset early nor left set
\* (start_merge, finish_merge).
MergingFlagHonest ==
    ~ActorGone => (merging <=> task.pc # "none")

\* The index never forgets a change it had covered: no commit publishes what
\* an older crawl saw over what a newer one had committed (update_index crawls
\* under LOCK).
CoversNeverRegress == [][index'.covers >= index.covers]_vars

\* Between the end of its preparation and its commit nothing in the daemon
\* removes the staged files of a merge; another process that merges may
\* (clear_staging).
Prepared == task.pc \in {"send", "sent"} \/ job["actor"].pc = "merge_lock"
StagedKept ==
    [][Prepared /\ "task" \in staged /\ "task" \notin staged' => job["cli"].pc = "clear"]_vars

\* A client whose reconcile is answered Ok finds every change it had made
\* before in what queries are given next, unless another commit overtook the
\* refresh (do_reconcile refreshes before it answers).
ReadYourWrites ==
    [][\A c \in Client :
          client[c].pc = "waiting" /\ client'[c].pc = "ok" /\ client[c].cmd = "reconcile"
          => \/ live'.covers >= client[c].asked
             \/ /\ job["actor"].pc = "swap"
                /\ index.generation > job["actor"].view.generation]_vars

\* Every change is eventually searchable, whatever events are lost, as long as
\* the root is watched (watcher::run's fallback period).
Unwatched == stop # "no" \/ watcher = "failed" \/ ~healthy
ChangesBecomeSearchable ==
    \A v \in 1 .. MaxDisk : (disk >= v) ~> (live.covers >= v \/ Unwatched)

\* Every command is answered or fails; none waits for ever, not even those in
\* the mailbox of an actor that is shut down.
CommandsAnswered ==
    \A c \in Client : client[c].pc \in {"sending", "waiting"} ~> client[c].pc \in {"ok", "error"}

\* A root that is shut down lets go of its actor and of its watcher thread.
ShutdownCompletes == (stop = "set") ~> (ActorGone /\ watcher = "ended")
=============================================================================
