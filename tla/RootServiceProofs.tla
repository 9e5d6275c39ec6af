-------------------------- MODULE RootServiceProofs --------------------------
(***************************************************************************)
(* What one root of the daemon guarantees, for any number of clients and   *)
(* queries, any mailbox and however often users, the watcher, clients and  *)
(* other processes act: files in use are not removed, the merging flag is  *)
(* honest, no commit forgets a change, and clients read what they wrote.   *)
(***************************************************************************)
EXTENDS RootService, FiniteSetTheorems, TLAPS

-----------------------------------------------------------------------------
(* Writers.                                                                *)

\* A writer works on the index under LOCK.
LockHeld == \A w \in Writer : job[w].pc \in {"crawl", "commit", "merge"} => lock = w

\* What a writer is about to commit covers what the index covers: under LOCK,
\* nobody else moves the index on between its crawl and its commit.
CrawlIsCurrent ==
    /\ index.covers <= disk
    /\ \A w \in Writer : job[w].pc = "commit" =>
          index.covers <= job[w].crawled /\ job[w].crawled <= disk

-----------------------------------------------------------------------------
(* Segments.                                                               *)

GivenOut == 0 .. (index.next - 1)

\* A number that is no longer in the index never returns to it.
Numbered ==
    /\ index.segments \subseteq GivenOut
    /\ live.segments \subseteq GivenOut
    /\ \A q \in Query : held[q].retire \subseteq GivenOut

\* What a snapshot removes when it is dropped is not part of the index.
RetiredUnused ==
    /\ live.retire = {}
    /\ \A q \in Query : held[q].retire \cap index.segments = {}

\* The index the actor has opened lies between the one queries are given and
\* the one in force.
OpenedLater ==
    job["actor"].pc = "swap" =>
        LET view == job["actor"].view
        IN /\ view.retire = {}
           /\ view.segments \subseteq GivenOut
           /\ live.segments \cap index.segments \subseteq view.segments
           /\ view.generation <= index.generation
           /\ view.generation = index.generation => view.covers = index.covers
           /\ view.generation = live.generation => view.covers = live.covers

\* A generation is committed once.
GenerationsAgree ==
    /\ live.generation <= index.generation
    /\ live.generation = index.generation => live.covers = index.covers

-----------------------------------------------------------------------------
(* Merges.                                                                 *)

\* The actor commits a merge after its task has reported and before it starts
\* another one.
OneMerge == job["actor"].pc \in {"merge_lock", "merge"} => task.pc = "none"

-----------------------------------------------------------------------------
(* Commands.                                                               *)

Asker == job["actor"].who

\* Every command in the mailbox is what its client waits for, and a client
\* waits for one command at a time.
Queued ==
    /\ \A i \in DOMAIN mailbox : mailbox[i].who \in Client =>
          /\ client[mailbox[i].who].pc = "waiting"
          /\ client[mailbox[i].who].cmd = mailbox[i].cmd
          /\ mailbox[i].who # Asker
    /\ \A i, j \in DOMAIN mailbox :
          mailbox[i].who \in Client /\ mailbox[i].who = mailbox[j].who => i = j

\* The actor works for a client only on a reconcile.
Served ==
    /\ job["cli"].who = Nobody
    /\ Asker \in Client =>
          /\ client[Asker].pc = "waiting"
          /\ client[Asker].cmd = "reconcile"
          /\ job["actor"].pc \in {"lock", "crawl", "commit", "open", "swap"}

\* What the client asked about is covered by what the actor has got to.
AskedIsCovered ==
    /\ \A c \in Client : client[c].asked <= disk
    /\ Asker \in Client =>
          /\ job["actor"].pc = "commit" => client[Asker].asked <= job["actor"].crawled
          /\ job["actor"].pc = "open" => client[Asker].asked <= index.covers
          /\ job["actor"].pc = "swap" => client[Asker].asked <= job["actor"].view.covers

IInv ==
    /\ TypeOK
    /\ LockHeld /\ CrawlIsCurrent
    /\ Numbered /\ RetiredUnused /\ OpenedLater /\ GenerationsAgree /\ InForceComplete
    /\ OneMerge /\ MergingFlagHonest
    /\ Queued /\ Served /\ AskedIsCovered

-----------------------------------------------------------------------------
(* Every variable keeps its type.                                          *)

LEMMA Jobs == ASSUME TypeOK
              PROVE  /\ "actor" \in Writer /\ "cli" \in Writer
                     /\ job \in [Writer -> Job]
                     /\ job["actor"] \in Job /\ job["cli"] \in Job
  BY DEF TypeOK, Writer

LEMMA RestingTyped == \A w \in Writer : Resting(w) \in Job
  BY ServiceAssumption DEF Resting, Job, Label, Writer, NoSnapshot, Snapshot

LEMMA AnsweredTyped ==
    ASSUME TypeOK, NEW c \in Client, NEW result \in {"ok", "error"}
    PROVE  Answered(result) \in Request
  BY ServiceAssumption DEF Answered, Request

LEMMA GotoTyped ==
    ASSUME TypeOK, NEW w \in Writer, NEW label \in Label, Goto(w, label)
    PROVE  job' \in [Writer -> Job]
<1>1. job \in [Writer -> Job] /\ job[w] \in Job
  BY Jobs
<1>2. [job[w] EXCEPT !.pc = label] \in Job
  BY <1>1 DEF Job
<1> QED
  BY <1>1, <1>2 DEF Goto

LEMMA AnswerTyped ==
    ASSUME TypeOK, NEW who, NEW result \in {"ok", "error"}, Answer(who, result)
    PROVE  client' \in [Client -> Request] /\ watcher' \in Step
  BY AnsweredTyped DEF TypeOK, Answer, Step

LEMMA EndJobTyped ==
    ASSUME TypeOK, NEW w \in Writer, NEW result \in {"ok", "error"}, EndJob(w, result)
    PROVE  job' \in [Writer -> Job] /\ client' \in [Client -> Request] /\ watcher' \in Step
<1>1. job' = [job EXCEPT ![w] = Resting(w)] /\ Answer(job[w].who, result)
  BY DEF EndJob
<1> QED
  BY <1>1, Jobs, RestingTyped, AnswerTyped

LEMMA CommittedTyped ==
    ASSUME TypeOK, NEW w \in Writer, Committed(w)
    PROVE  job' \in [Writer -> Job] /\ client' \in [Client -> Request] /\ watcher' \in Step
<1>1. CASE Goto(w, "open") /\ UNCHANGED <<client, watcher>>
  BY <1>1, GotoTyped DEF TypeOK, Label
<1>2. CASE EndJob(w, "ok")
  BY <1>2, EndJobTyped
<1> QED
  BY <1>1, <1>2 DEF Committed

LEMMA PostTyped ==
    ASSUME TypeOK, NEW cmd, NEW who, [cmd |-> cmd, who |-> who] \in Message, Post(cmd, who)
    PROVE  mailbox' \in Seq(Message) /\ Len(mailbox') <= MailboxCap
  BY ServiceAssumption DEF TypeOK, Post, Room

LEMMA HeadTyped ==
    ASSUME TypeOK, mailbox # <<>>
    PROVE  /\ Head(mailbox) \in Message
           /\ Tail(mailbox) \in Seq(Message) /\ Len(Tail(mailbox)) <= MailboxCap
  BY ServiceAssumption DEF TypeOK

LEMMA SweepTyped ==
    ASSUME TypeOK, Sweep PROVE files' \subseteq 0 .. (index.next - 1) /\ hint' \in BOOLEAN
  BY DEF TypeOK, Sweep, RemoveBestEffort

LEMMA ReceiveTyped ==
    ASSUME TypeOK,
           ReceiveReconcile \/ ReceiveMerge \/ ReceiveMergeReady \/ ReceiveUnhealthy \/ ReceiveShutdown
    PROVE  TypeOK'
<1>1. CASE ReceiveReconcile
  <2>1. mailbox # <<>> /\ mailbox' = Tail(mailbox)
    BY <1>1 DEF ReceiveReconcile, Receive
  <2>2. Head(mailbox).who \in Client \cup {"watcher", Nobody}
    BY <2>1, HeadTyped DEF Message
  <2>3. job' = [job EXCEPT !["actor"].pc = "lock", !["actor"].who = Head(mailbox).who]
    BY <1>1 DEF ReceiveReconcile
  <2>4. job' \in [Writer -> Job]
    BY <2>2, <2>3, Jobs DEF Job, Label
  <2> QED
    BY <1>1, <2>1, <2>4, HeadTyped DEF TypeOK, ReceiveReconcile, store, reading, watching
<1>2. CASE ReceiveMerge
  <2>1. mailbox # <<>> /\ mailbox' = Tail(mailbox)
    BY <1>2 DEF ReceiveMerge, Receive
  <2>2. client' \in [Client -> Request] /\ watcher' \in Step
    BY <1>2, AnswerTyped DEF ReceiveMerge
  <2>3. CASE merging
    BY <1>2, <2>1, <2>2, <2>3, HeadTyped DEF TypeOK, ReceiveMerge, store, reading
  <2>4. CASE ~merging
    <3>1. task' \in Preparation
      BY <1>2, <2>4 DEF ReceiveMerge, Preparation
    <3> QED
      BY <1>2, <2>1, <2>2, <2>4, <3>1, HeadTyped DEF TypeOK, ReceiveMerge, store, reading
  <2> QED
    BY <2>3, <2>4
<1>3. CASE ReceiveMergeReady
  <2>1. mailbox # <<>> /\ mailbox' = Tail(mailbox)
    BY <1>3 DEF ReceiveMergeReady, Receive
  <2>2. job' \in [Writer -> Job]
    <3>1. task.sources \in SUBSET Nat
      BY DEF TypeOK, Preparation
    <3>2. job' = job \/ job' = [job EXCEPT !["actor"].pc = "merge_lock", !["actor"].sources = task.sources]
      BY <1>3 DEF ReceiveMergeReady
    <3> QED
      BY <3>1, <3>2, Jobs DEF Job, Label
  <2>3. task' \in Preparation
    BY <1>3 DEF ReceiveMergeReady, Preparation, NoTask
  <2> QED
    BY <1>3, <2>1, <2>2, <2>3, HeadTyped DEF TypeOK, ReceiveMergeReady, store, reading, watching
<1>4. CASE ReceiveUnhealthy
  BY <1>4, HeadTyped DEF TypeOK, ReceiveUnhealthy, Receive, store, reading
<1>5. CASE ReceiveShutdown
  <2>1. job' \in [Writer -> Job]
    BY <1>5, GotoTyped, Jobs DEF ReceiveShutdown, Label
  <2>2. client' \in [Client -> Request]
    BY <1>5, AnsweredTyped DEF TypeOK, ReceiveShutdown
  <2>3. mailbox' \in Seq(Message) /\ Len(mailbox') <= MailboxCap
    BY <1>5, ServiceAssumption DEF ReceiveShutdown
  <2>4. watcher' \in Step
    BY <1>5 DEF TypeOK, ReceiveShutdown, Step
  <2> QED
    BY <1>5, <2>1, <2>2, <2>3, <2>4 DEF TypeOK, ReceiveShutdown, store, reading
<1> QED
  BY <1>1, <1>2, <1>3, <1>4, <1>5

LEMMA WriteTyped == ASSUME TypeOK, NEW w \in Writer, Write(w) PROVE TypeOK'
<1>1. CASE TakeLock(w)
  <2>1. job' \in [Writer -> Job]
    <3>1. \E label \in {"crawl", "merge"} : Goto(w, label)
      BY <1>1 DEF TakeLock
    <3> QED
      BY <3>1, GotoTyped DEF Label
  <2> QED
    BY <1>1, <2>1 DEF TypeOK, TakeLock, reading
<1>2. CASE LockTimeout(w)
  BY <1>2, EndJobTyped DEF TypeOK, LockTimeout, store, reading
<1>3. CASE Crawl(w)
  <2>1. job' = [job EXCEPT ![w].pc = "commit", ![w].crawled = disk] /\ disk \in 0 .. MaxDisk
    BY <1>3 DEF TypeOK, Crawl
  <2>2. job' \in [Writer -> Job]
    BY <2>1, Jobs DEF Job, Label
  <2> QED
    BY <1>3, <2>2 DEF TypeOK, Crawl, store, reading, watching
<1>4. CASE CommitUpdate(w)
  <2>1. index' \in [generation : Nat, covers : 0 .. MaxDisk, segments : SUBSET Nat, next : Nat]
        /\ files' \subseteq 0 .. (index'.next - 1) /\ hint' \in BOOLEAN
    <3>1. CASE UNCHANGED <<index, files, hint>>
      BY <3>1 DEF TypeOK
    <3>2. CASE job[w].crawled # index.covers
      <4>1. PICK fresh \in SUBSET {index.next} :
               /\ index' = [generation |-> index.generation + 1,
                            covers |-> job[w].crawled,
                            segments |-> index.segments \cup fresh,
                            next |-> index.next + Cardinality(fresh)]
               /\ files' = files \cup fresh
               /\ hint'
        BY <1>4, <3>2 DEF CommitUpdate
      <4>2. Cardinality({}) = 0 /\ Cardinality({index.next}) = 1
        BY FS_EmptySet, FS_Singleton
      <4>3. job[w].crawled \in 0 .. MaxDisk
        BY Jobs DEF Job
      <4>4. /\ index.next \in Nat /\ index.generation + 1 \in Nat
            /\ index.segments \in SUBSET Nat /\ files \subseteq 0 .. (index.next - 1)
        BY DEF TypeOK
      <4>5. CASE fresh = {}
        BY <4>1, <4>2, <4>3, <4>4, <4>5
      <4>6. CASE fresh = {index.next}
        <5>1. index'.next = index.next + 1
          BY <4>1, <4>2, <4>6
        <5>2. index.segments \cup fresh \in SUBSET Nat
          BY <4>4, <4>6
        <5>3. files' \subseteq 0 .. index.next
          <6>1. files' \subseteq files \cup {index.next}
            BY <4>1, <4>6
          <6>2. \A x \in 0 .. (index.next - 1) : x \in 0 .. index.next
            BY <4>4
          <6>3. index.next \in 0 .. index.next
            BY <4>4
          <6> QED
            BY <4>4, <6>1, <6>2, <6>3, Zenon
        <5>4. index' = [generation |-> index.generation + 1, covers |-> job[w].crawled,
                        segments |-> index.segments \cup fresh, next |-> index.next + 1]
          BY <4>1, <5>1
        <5> QED
          BY <4>1, <4>3, <4>4, <5>2, <5>3, <5>4
      <4> QED
        BY <4>5, <4>6
    <3> QED
      BY <1>4, <3>1, <3>2 DEF CommitUpdate
  <2> QED
    BY <1>4, <2>1, CommittedTyped DEF TypeOK, CommitUpdate, reading
<1>5. CASE CommitMerge(w)
  <2>1. index' \in [generation : Nat, covers : 0 .. MaxDisk, segments : SUBSET Nat, next : Nat]
        /\ files' \subseteq 0 .. (index'.next - 1)
    <3>1. /\ index.next \in Nat /\ index.generation + 1 \in Nat /\ index.covers \in 0 .. MaxDisk
          /\ index.segments \in SUBSET Nat /\ files \subseteq 0 .. (index.next - 1)
      BY DEF TypeOK
    <3>2. (index.segments \ job[w].sources) \cup {index.next} \in SUBSET Nat
      BY <3>1
    <3>3. index' = [generation |-> index.generation + 1, covers |-> index.covers,
                    segments |-> (index.segments \ job[w].sources) \cup {index.next},
                    next |-> index.next + 1]
          /\ files' \subseteq files \cup {index.next}
      BY <1>5 DEF CommitMerge
    <3>4. index' \in [generation : Nat, covers : 0 .. MaxDisk, segments : SUBSET Nat, next : Nat]
      BY <3>1, <3>2, <3>3
    <3>5. files' \subseteq 0 .. index.next
      <4>1. \A x \in 0 .. (index.next - 1) : x \in 0 .. index.next
        BY <3>1
      <4>2. index.next \in 0 .. index.next
        BY <3>1
      <4> QED
        BY <3>1, <3>3, <4>1, <4>2, Zenon
    <3>6. index'.next - 1 = index.next
      BY <3>1, <3>3
    <3> QED
      BY <3>4, <3>5, <3>6
  <2> QED
    BY <1>5, <2>1, CommittedTyped DEF TypeOK, CommitMerge, reading
<1>6. CASE MergeAborts(w)
  BY <1>6, EndJobTyped DEF TypeOK, MergeAborts, reading
<1>7. CASE Fail(w)
  BY <1>7, EndJobTyped DEF TypeOK, Fail, reading
<1> QED
  BY <1>1, <1>2, <1>3, <1>4, <1>5, <1>6, <1>7 DEF Write

LEMMA RefreshTyped == ASSUME TypeOK, RefreshOpen \/ RefreshSwap \/ OpenFails PROVE TypeOK'
<1>1. CASE RefreshOpen
  <2>1. job' \in [Writer -> Job]
    <3>1. Wrap(index) \in Snapshot
      BY DEF TypeOK, Wrap, Snapshot
    <3>2. job' = [job EXCEPT !["actor"].pc = "swap", !["actor"].view = Wrap(index)]
      BY <1>1 DEF RefreshOpen
    <3> QED
      BY <3>1, <3>2, Jobs DEF Job, Label
  <2> QED
    BY <1>1, <2>1, SweepTyped DEF TypeOK, RefreshOpen, reading
<1>2. CASE RefreshSwap
  <2>1. live' \in Snapshot /\ held' \in [Query -> Snapshot] /\ files' \subseteq 0 .. (index.next - 1)
    <3> DEFINE fresh == job["actor"].view
               old == [live EXCEPT !.retire = live.segments \ fresh.segments]
    <3>1. fresh \in Snapshot
      BY Jobs DEF Job
    <3>2. old \in Snapshot
      BY <3>1 DEF TypeOK, Snapshot
    <3>3. CASE fresh.generation = live.generation
      BY <1>2, <3>3 DEF TypeOK, RefreshSwap, reading
    <3>4. CASE fresh.generation # live.generation
      BY <1>2, <3>1, <3>2, <3>4 DEF TypeOK, RefreshSwap, DropIfUnused, RemoveBestEffort
    <3> QED
      BY <3>3, <3>4
  <2>2. job' \in [Writer -> Job] /\ client' \in [Client -> Request] /\ watcher' \in Step
    BY <1>2, EndJobTyped, Jobs DEF RefreshSwap
  <2> QED
    BY <1>2, <2>1, <2>2 DEF TypeOK, RefreshSwap
<1>3. CASE OpenFails
  BY <1>3, EndJobTyped, Jobs DEF TypeOK, OpenFails, store, reading
<1> QED
  BY <1>1, <1>2, <1>3

LEMMA QueryTyped ==
    ASSUME TypeOK, NEW q \in Query, QueryStart(q) \/ QueryEnd(q) PROVE TypeOK'
<1>1. CASE QueryStart(q)
  BY <1>1 DEF TypeOK, QueryStart, store, actor, watching
<1>2. CASE QueryEnd(q)
  <2>1. NoSnapshot \in Snapshot
    BY ServiceAssumption DEF NoSnapshot, Snapshot
  <2>2. files' \subseteq files
    BY <1>2 DEF QueryEnd, DropIfUnused, RemoveBestEffort
  <2> QED
    BY <1>2, <2>1, <2>2 DEF TypeOK, QueryEnd, actor, watching
<1> QED
  BY <1>1, <1>2

LEMMA TaskTyped == ASSUME TypeOK, Task PROVE TypeOK'
<1>1. CASE TaskClear
  <2>1. task' \in Preparation
    BY <1>1 DEF TypeOK, TaskClear, Preparation
  <2> QED
    BY <1>1, <2>1 DEF TypeOK, TaskClear, reading, watching
<1>2. CASE TaskOpen
  <2>1. task' \in Preparation
    BY <1>2 DEF TypeOK, TaskOpen, Preparation
  <2> QED
    BY <1>2, <2>1, SweepTyped DEF TypeOK, TaskOpen, reading
<1>3. CASE TaskPrepare
  <2>1. task' \in Preparation
    BY <1>3 DEF TypeOK, TaskPrepare, Preparation
  <2> QED
    BY <1>3, <2>1 DEF TypeOK, TaskPrepare, reading, watching
<1>4. CASE TaskSend
  <2>1. task' \in Preparation
    BY <1>4 DEF TypeOK, TaskSend, Preparation, NoTask
  <2>2. mailbox' \in Seq(Message) /\ Len(mailbox') <= MailboxCap
    <3>1. [cmd |-> "merge_ready", who |-> Nobody] \in Message
      BY DEF Message
    <3> QED
      BY <1>4, <3>1, PostTyped DEF TypeOK, TaskSend
  <2> QED
    BY <1>4, <2>1, <2>2 DEF TypeOK, TaskSend, store, reading, watching
<1> QED
  BY <1>1, <1>2, <1>3, <1>4 DEF Task

LEMMA WatcherTyped == ASSUME TypeOK, Watcher PROVE TypeOK'
<1>1. watcher' \in Step
  BY DEF Watcher, WatchStart, WatchFailed, Trigger, CheckStop, RecvHint, PeriodTimeout,
         QuietWindow, Watch, Step
<1>2. mailbox' \in Seq(Message) /\ Len(mailbox') <= MailboxCap
  <2>1. [cmd |-> "unhealthy", who |-> Nobody] \in Message
        /\ [cmd |-> "reconcile", who |-> "watcher"] \in Message
    BY DEF Message
  <2>2. CASE Post("unhealthy", Nobody) \/ Post("reconcile", "watcher")
    BY <2>1, <2>2, PostTyped
  <2>3. CASE UNCHANGED mailbox
    BY <2>3 DEF TypeOK
  <2> QED
    BY <2>2, <2>3 DEF Watcher, WatchStart, WatchFailed, Trigger, CheckStop, RecvHint,
                      PeriodTimeout, QuietWindow, actor
<1>3. /\ hint' \in BOOLEAN
      /\ UNCHANGED <<disk, index, files, staged, lock, job, merging, task, live, held, healthy,
                     stop, client, ops>>
  BY DEF TypeOK, Watcher, WatchStart, WatchFailed, Trigger, CheckStop, RecvHint, PeriodTimeout,
         QuietWindow, store, actor, reading
<1> QED
  BY <1>1, <1>2, <1>3 DEF TypeOK

LEMMA CliTyped == ASSUME TypeOK, CliStart \/ CliClear \/ CliPrepare \/ CliKilled PROVE TypeOK'
<1>1. CASE CliStart
  <2>1. job' \in [Writer -> Job]
    BY <1>1, GotoTyped, Jobs DEF CliStart, Label
  <2>2. ops' \in 0 .. MaxOps
    BY <1>1, ServiceAssumption DEF TypeOK, CliStart
  <2> QED
    BY <1>1, <2>1, <2>2 DEF TypeOK, CliStart, store, reading, watching
<1>2. CASE CliClear
  <2>1. job' \in [Writer -> Job]
    BY <1>2, GotoTyped, Jobs DEF CliClear, Label
  <2> QED
    BY <1>2, <2>1 DEF TypeOK, CliClear, reading, watching
<1>3. CASE CliPrepare
  <2>1. job' \in [Writer -> Job] /\ staged' \subseteq {"task", "cli"}
    <3>1. CASE job' = [job EXCEPT !["cli"] = Resting("cli")] /\ UNCHANGED staged
      BY <3>1, RestingTyped, Jobs DEF TypeOK
    <3>2. CASE \E group \in SUBSET index.segments \ {{}} :
                  /\ job' = [job EXCEPT !["cli"].pc = "merge_lock", !["cli"].sources = group]
                  /\ staged' = staged \cup {"cli"}
      <4>1. PICK group \in SUBSET index.segments \ {{}} :
               job' = [job EXCEPT !["cli"].pc = "merge_lock", !["cli"].sources = group]
        BY <3>2
      <4>2. group \in SUBSET Nat
        BY DEF TypeOK
      <4>3. job' \in [Writer -> Job]
        BY <4>1, <4>2, Jobs DEF Job, Label
      <4> QED
        BY <3>2, <4>3 DEF TypeOK
    <3> QED
      BY <1>3, <3>1, <3>2 DEF CliPrepare
  <2> QED
    BY <1>3, <2>1, SweepTyped DEF TypeOK, CliPrepare, reading
<1>4. CASE CliKilled
  <2>1. job' \in [Writer -> Job]
    BY <1>4, RestingTyped, Jobs DEF CliKilled
  <2> QED
    BY <1>4, <2>1 DEF TypeOK, CliKilled, reading, watching
<1> QED
  BY <1>1, <1>2, <1>3, <1>4

LEMMA EnvironmentTyped ==
    ASSUME TypeOK, Edit \/ LoseHint \/ SetStop \/ SendShutdown PROVE TypeOK'
<1>1. CASE Edit
  <2>1. disk' \in 0 .. MaxDisk /\ hint' \in BOOLEAN
    BY <1>1, ServiceAssumption DEF TypeOK, Edit
  <2> QED
    BY <1>1, <2>1 DEF TypeOK, Edit, store, actor, reading
<1>2. CASE LoseHint \/ SetStop
  BY <1>2 DEF TypeOK, LoseHint, SetStop, store, actor, reading, watching
<1>3. CASE SendShutdown
  <2>1. [cmd |-> "shutdown", who |-> Nobody] \in Message
    BY DEF Message
  <2> QED
    BY <1>3, <2>1, PostTyped DEF TypeOK, SendShutdown, store, reading, watching
<1> QED
  BY <1>1, <1>2, <1>3

LEMMA ClientTyped ==
    ASSUME TypeOK, NEW c \in Client, Send(c) \/ \E cmd \in {"reconcile", "merge"} : Ask(c, cmd)
    PROVE  TypeOK'
<1>1. CASE Send(c)
  <2>1. CASE Post(client[c].cmd, c) /\ client' = [client EXCEPT ![c].pc = "waiting"]
    <3>1. mailbox' \in Seq(Message) /\ Len(mailbox') <= MailboxCap
      <4>1. client[c].cmd \in {"reconcile", "merge"}
        BY <1>1 DEF TypeOK, Send, Request, Answered
      <4>2. [cmd |-> client[c].cmd, who |-> c] \in Message
        BY <4>1 DEF Message
      <4> QED
        BY <2>1, <4>2, PostTyped
    <3>2. client' \in [Client -> Request]
      <4>1. client[c].pc = "sending" /\ client[c] \in Request /\ client \in [Client -> Request]
        BY <1>1 DEF TypeOK, Send
      <4>2. [client[c] EXCEPT !.pc = "waiting"] \in Request
        BY <4>1 DEF Request, Answered
      <4> QED
        BY <2>1, <4>1, <4>2
    <3> QED
      BY <1>1, <3>1, <3>2 DEF TypeOK, Send, store, reading, watching
  <2>2. CASE client' = [client EXCEPT ![c] = Answered("error")] /\ UNCHANGED mailbox
    <3>1. client' \in [Client -> Request]
      BY <2>2, AnsweredTyped DEF TypeOK
    <3> QED
      BY <1>1, <2>2, <3>1 DEF TypeOK, Send, store, reading, watching
  <2> QED
    BY <1>1, <2>1, <2>2 DEF Send
<1>2. ASSUME NEW cmd \in {"reconcile", "merge"}, Ask(c, cmd) PROVE TypeOK'
  <2>1. [pc |-> "sending", cmd |-> cmd, asked |-> disk] \in Request
    BY DEF TypeOK, Request
  <2>2. client' \in [Client -> Request]
    BY <1>2, <2>1 DEF TypeOK, Ask
  <2>3. ops' \in 0 .. MaxOps
    BY <1>2, ServiceAssumption DEF TypeOK, Ask
  <2> QED
    BY <1>2, <2>2, <2>3 DEF TypeOK, Ask, store, actor, reading, watching
<1> QED
  BY <1>1, <1>2

LEMMA TypeStep == ASSUME TypeOK, [Next]_vars PROVE TypeOK'
<1>1. CASE UNCHANGED vars
  BY <1>1 DEF TypeOK, vars, store, actor, reading, watching
<1>2. CASE Next
  <2>1. "actor" \in Writer /\ "cli" \in Writer
    BY DEF Writer
  <2> QED
    BY <1>2, <2>1, ReceiveTyped, WriteTyped, RefreshTyped, QueryTyped, TaskTyped, WatcherTyped,
       CliTyped, EnvironmentTyped, ClientTyped DEF Next, Actor, Cli
<1> QED
  BY <1>1, <1>2

-----------------------------------------------------------------------------
(* What steps do to the jobs of the two writers.                           *)

\* One field or more of one job changes.
LEMMA Moved ==
    ASSUME TypeOK, NEW w \in Writer, NEW label, Goto(w, label)
    PROVE  /\ job'[w] = [job[w] EXCEPT !.pc = label]
           /\ job'[w].pc = label /\ job'[w].crawled = job[w].crawled /\ job'[w].who = job[w].who
           /\ job'[w].view = job[w].view /\ job'[w].sources = job[w].sources
           /\ \A v \in Writer \ {w} : job'[v] = job[v]
  BY Jobs DEF Goto, Job

LEMMA Ended ==
    ASSUME TypeOK, NEW w \in Writer, NEW result, EndJob(w, result)
    PROVE  /\ job'[w] = Resting(w)
           /\ job'[w].pc = (IF w = "actor" THEN "recv" ELSE "idle")
           /\ job'[w].who = Nobody
           /\ \A v \in Writer \ {w} : job'[v] = job[v]
  BY Jobs DEF EndJob, Resting

LEMMA CommittedMoves ==
    ASSUME TypeOK, NEW w \in Writer, Committed(w)
    PROVE  /\ job'[w].pc = (IF w = "actor" THEN "open" ELSE "idle")
           /\ job'[w].who = (IF w = "actor" THEN job[w].who ELSE Nobody)
           /\ \A v \in Writer \ {w} : job'[v] = job[v]
<1>1. CASE w = "actor"
  BY <1>1, Moved DEF Committed
<1>2. CASE w # "actor"
  BY <1>2, Ended DEF Committed
<1> QED
  BY <1>1, <1>2

LEMMA LockHeldWrite ==
    ASSUME TypeOK, LockHeld, NEW w \in Writer, Write(w)
    PROVE  LockHeld'
<1> USE DEF LockHeld
<1>0. Nobody \notin Writer
  BY ServiceAssumption DEF Writer
<1>1. CASE TakeLock(w)
  <2>1. \E label \in {"crawl", "merge"} : Goto(w, label)
    BY <1>1 DEF TakeLock
  <2>2. \A v \in Writer \ {w} : job'[v] = job[v]
    BY <2>1, Moved
  <2> QED
    BY <1>0, <1>1, <2>2 DEF TakeLock
<1>2. CASE Crawl(w)
  <2>1. lock = w /\ UNCHANGED lock /\ \A v \in Writer \ {w} : job'[v] = job[v]
    BY <1>2, Jobs DEF Crawl, store
  <2> QED
    BY <2>1
<1>3. CASE LockTimeout(w)
  BY <1>3, Ended DEF LockTimeout, store
<1>4. CASE CommitUpdate(w) \/ CommitMerge(w) \/ MergeAborts(w) \/ Fail(w)
  <2>1. lock = w
    BY <1>4 DEF CommitUpdate, CommitMerge, MergeAborts, Fail
  <2>2. job'[w].pc \notin {"crawl", "commit", "merge"} /\ \A v \in Writer \ {w} : job'[v] = job[v]
    BY <1>4, Ended, CommittedMoves DEF CommitUpdate, CommitMerge, MergeAborts, Fail
  <2> QED
    BY <1>0, <2>1, <2>2
<1> QED
  BY <1>1, <1>2, <1>3, <1>4 DEF Write

\* Apart from the writers' own steps, nobody starts to work on the index.
Working == {"crawl", "commit", "merge"}

LEMMA OtherSteps ==
    ASSUME TypeOK, LockHeld, [Next]_vars, ~Write("actor"), ~Write("cli")
    PROVE  /\ UNCHANGED index
           /\ disk <= disk'
           /\ \A w \in Writer : job'[w].pc \in Working => job'[w] = job[w] /\ lock' = lock
<1> DEFINE Same == \A w \in Writer : job'[w].pc \in Working => job'[w] = job[w] /\ lock' = lock
<1>1. CASE ReceiveReconcile \/ ReceiveMergeReady \/ ReceiveShutdown
  <2>1. UNCHANGED <<disk, index, lock>>
    BY <1>1 DEF ReceiveReconcile, ReceiveMergeReady, ReceiveShutdown, store
  <2>2. job'["cli"] = job["cli"]
    BY <1>1, Jobs DEF ReceiveReconcile, ReceiveMergeReady, ReceiveShutdown, Goto
  <2>3. job'["actor"].pc \in {"recv", "lock", "merge_lock", "gone"}
    BY <1>1, Jobs DEF ReceiveReconcile, ReceiveMergeReady, ReceiveShutdown, Receive, Goto, Job
  <2>4. Same
    BY <2>1, <2>2, <2>3 DEF Writer, Working
  <2> QED
    BY <2>1, <2>4 DEF TypeOK
<1>2. CASE RefreshOpen \/ RefreshSwap \/ OpenFails
  <2>1. UNCHANGED <<disk, index, lock>>
    BY <1>2 DEF RefreshOpen, RefreshSwap, OpenFails, store
  <2>2. job'["cli"] = job["cli"]
    BY <1>2, Jobs, Ended DEF RefreshOpen, RefreshSwap, OpenFails, Writer
  <2>3. job'["actor"].pc \in {"swap", "recv"}
    BY <1>2, Jobs, Ended DEF RefreshOpen, RefreshSwap, OpenFails, Job
  <2>4. Same
    BY <2>1, <2>2, <2>3 DEF Writer, Working
  <2> QED
    BY <2>1, <2>4 DEF TypeOK
<1>3. CASE CliStart \/ CliClear \/ CliPrepare \/ CliKilled
  <2>1. UNCHANGED <<disk, index>> /\ (lock' = lock \/ lock = "cli")
    BY <1>3 DEF CliStart, CliClear, CliPrepare, CliKilled, store
  <2>2. job'["actor"] = job["actor"]
    BY <1>3, Jobs DEF CliStart, CliClear, CliPrepare, CliKilled, Goto
  <2>3. job'["cli"].pc \in {"idle", "lock", "clear", "prepare", "merge_lock"}
    BY <1>3, Jobs, RestingTyped DEF CliStart, CliClear, CliPrepare, CliKilled, Goto, Resting, Job
  <2>4. job'["actor"].pc \in Working => lock' = lock
    BY <1>3, <2>2, Jobs DEF CliStart, CliClear, CliPrepare, CliKilled, store, Working, LockHeld
  <2>5. Same
    BY <2>2, <2>3, <2>4 DEF Writer, Working
  <2> QED
    BY <2>1, <2>5 DEF TypeOK
<1>4. CASE UNCHANGED <<index, lock, job>> /\ disk <= disk'
  BY <1>4
<1>5. CASE \/ ReceiveMerge \/ ReceiveUnhealthy \/ Task \/ Watcher \/ Edit \/ LoseHint
           \/ SetStop \/ SendShutdown
           \/ \E c \in Client : Send(c) \/ \E cmd \in {"reconcile", "merge"} : Ask(c, cmd)
           \/ \E q \in Query : QueryStart(q) \/ QueryEnd(q)
           \/ UNCHANGED vars
  <2>1. CASE ReceiveMerge \/ ReceiveUnhealthy
    BY <1>4, <2>1 DEF TypeOK, ReceiveMerge, ReceiveUnhealthy, store
  <2>2. CASE Task
    BY <1>4, <2>2 DEF TypeOK, Task, TaskClear, TaskOpen, TaskPrepare, TaskSend, store
  <2>3. CASE Watcher
    BY <1>4, <2>3 DEF TypeOK, Watcher, WatchStart, WatchFailed, Trigger, CheckStop, RecvHint,
                      PeriodTimeout, QuietWindow, store, actor
  <2>4. CASE Edit \/ LoseHint \/ SetStop \/ SendShutdown
    BY <1>4, <2>4 DEF TypeOK, Edit, LoseHint, SetStop, SendShutdown, store, actor
  <2>5. CASE \E c \in Client : Send(c) \/ \E cmd \in {"reconcile", "merge"} : Ask(c, cmd)
    BY <1>4, <2>5 DEF TypeOK, Send, Ask, store, actor
  <2>6. CASE \E q \in Query : QueryStart(q) \/ QueryEnd(q)
    BY <1>4, <2>6 DEF TypeOK, QueryStart, QueryEnd, store, actor
  <2>7. CASE UNCHANGED vars
    BY <1>4, <2>7 DEF TypeOK, vars, store, actor
  <2> QED
    BY <1>5, <2>1, <2>2, <2>3, <2>4, <2>5, <2>6, <2>7
<1> QED
  BY <1>1, <1>2, <1>3, <1>5 DEF Next, Actor, Cli

LEMMA LockHeldStep == ASSUME TypeOK, LockHeld, [Next]_vars PROVE LockHeld'
<1>1. CASE Write("actor") \/ Write("cli")
  BY <1>1, Jobs, LockHeldWrite
<1>2. CASE ~Write("actor") /\ ~Write("cli")
  BY <1>2, OtherSteps DEF LockHeld, Working
<1> QED
  BY <1>1, <1>2

LEMMA CrawlIsCurrentStep ==
    ASSUME TypeOK, LockHeld, CrawlIsCurrent, [Next]_vars PROVE CrawlIsCurrent'
<1>1. ASSUME NEW w \in Writer, Write(w) PROVE CrawlIsCurrent'
  <2>1. UNCHANGED disk
    BY <1>1 DEF Write, TakeLock, LockTimeout, Crawl, CommitUpdate, CommitMerge, MergeAborts, Fail
  <2>2. CASE TakeLock(w) \/ LockTimeout(w) \/ CommitMerge(w) \/ MergeAborts(w) \/ Fail(w)
    <3>1. index'.covers = index.covers
      BY <2>2 DEF TakeLock, LockTimeout, CommitMerge, MergeAborts, Fail, store
    <3>2. job'[w].pc # "commit" /\ \A v \in Writer \ {w} : job'[v] = job[v]
      <4>1. CASE TakeLock(w)
        <5>1. \E label \in {"crawl", "merge"} : Goto(w, label)
          BY <4>1 DEF TakeLock
        <5> QED
          BY <5>1, Moved
      <4>2. CASE LockTimeout(w) \/ CommitMerge(w) \/ MergeAborts(w) \/ Fail(w)
        BY <4>2, Ended, CommittedMoves DEF LockTimeout, CommitMerge, MergeAborts, Fail
      <4> QED
        BY <2>2, <4>1, <4>2
    <3> QED
      BY <2>1, <3>1, <3>2 DEF CrawlIsCurrent
  <2>3. CASE Crawl(w)
    <3>1. UNCHANGED index /\ job'[w].crawled = disk /\ \A v \in Writer \ {w} : job'[v] = job[v]
      BY <2>3, Jobs DEF Crawl, store, Job
    <3> QED
      BY <2>1, <3>1 DEF CrawlIsCurrent, TypeOK
  <2>4. CASE CommitUpdate(w)
    <3>1. job[w].pc = "commit" /\ \A v \in Writer \ {w} : job[v].pc # "commit"
      BY <2>4 DEF CommitUpdate, LockHeld
    <3>2. job'[w].pc # "commit" /\ \A v \in Writer \ {w} : job'[v] = job[v]
      BY <2>4, CommittedMoves DEF CommitUpdate
    <3>3. index'.covers = job[w].crawled
      BY <2>4 DEF CommitUpdate
    <3> QED
      BY <2>1, <3>1, <3>2, <3>3 DEF CrawlIsCurrent
  <2> QED
    BY <1>1, <2>2, <2>3, <2>4 DEF Write
<1>2. CASE ~Write("actor") /\ ~Write("cli")
  <2>1. UNCHANGED index /\ disk <= disk'
        /\ \A w \in Writer : job'[w].pc = "commit" => job'[w] = job[w]
    BY <1>2, OtherSteps DEF Working
  <2>2. disk \in Nat /\ disk' \in Nat /\ index.covers \in Nat
        /\ \A w \in Writer : job[w].crawled \in Nat
    BY TypeStep, Jobs DEF TypeOK, Job
  <2> QED
    BY <2>1, <2>2 DEF CrawlIsCurrent
<1> QED
  BY <1>1, <1>2, Jobs

-----------------------------------------------------------------------------
(* Files.                                                                  *)

SegmentsInv == Numbered /\ RetiredUnused /\ OpenedLater /\ GenerationsAgree /\ InForceComplete

\* A step that neither commits nor changes what queries are given.
LEMMA SameIndex ==
    ASSUME TypeOK, SegmentsInv, UNCHANGED <<index, live, held>>, index.segments \subseteq files',
           job'["actor"].pc = "swap" => job'["actor"] = job["actor"]
    PROVE  SegmentsInv'
  BY DEF SegmentsInv, Numbered, GivenOut, RetiredUnused, OpenedLater, GenerationsAgree, InForceComplete

\* A commit: the only new segment has a new number.
LEMMA NextIndex ==
    ASSUME TypeOK, TypeOK', SegmentsInv, UNCHANGED <<live, held>>,
           index'.generation = index.generation + 1,
           index.next <= index'.next,
           index'.segments \subseteq index.segments \cup {index.next},
           index'.segments \subseteq 0 .. (index'.next - 1),
           index'.segments \subseteq files',
           job'["actor"].pc = "swap" => job'["actor"] = job["actor"]
    PROVE  SegmentsInv'
<1> USE DEF SegmentsInv
<1>0. /\ index.next \in Nat /\ index'.next \in Nat
      /\ index.generation \in Nat /\ live.generation \in Nat
  BY DEF TypeOK, Snapshot
<1>1. index.next \notin GivenOut /\ GivenOut \subseteq GivenOut'
  BY <1>0 DEF GivenOut
<1>2. Numbered'
  BY <1>1 DEF Numbered, GivenOut
<1>3. RetiredUnused'
  BY <1>1 DEF RetiredUnused, Numbered
<1>4. OpenedLater'
  <2> SUFFICES ASSUME job'["actor"].pc = "swap" PROVE OpenedLater'
    BY DEF OpenedLater
  <2>1. job'["actor"] = job["actor"] /\ job["actor"].view.generation \in Nat
    BY Jobs DEF Job, Snapshot
  <2>2. index.next \notin live.segments
    BY <1>1 DEF Numbered
  <2> QED
    BY <1>0, <1>1, <2>1, <2>2 DEF OpenedLater
<1>5. GenerationsAgree'
  BY <1>0 DEF GenerationsAgree
<1> QED
  BY <1>2, <1>3, <1>4, <1>5 DEF InForceComplete

LEMMA SegmentsWrite ==
    ASSUME TypeOK, TypeOK', SegmentsInv, NEW w \in Writer, Write(w) PROVE SegmentsInv'
<1>0. /\ index.next \in Nat /\ index.segments \subseteq 0 .. (index.next - 1)
      /\ index.segments \subseteq files
  BY DEF SegmentsInv, Numbered, GivenOut, InForceComplete, TypeOK
<1>1. UNCHANGED <<live, held>>
  BY DEF Write, TakeLock, LockTimeout, Crawl, CommitUpdate, CommitMerge, MergeAborts, Fail, reading
<1>2. job'["actor"].pc = "swap" => job'["actor"] = job["actor"]
  <2>1. \A v \in Writer \ {w} : job'[v] = job[v]
    BY Jobs, Moved, Ended, CommittedMoves
       DEF Write, TakeLock, LockTimeout, Crawl, CommitUpdate, CommitMerge, MergeAborts, Fail
  <2>2. job'[w].pc # "swap"
    <3>1. CASE TakeLock(w)
      <4>1. \E label \in {"crawl", "merge"} : Goto(w, label)
        BY <3>1 DEF TakeLock
      <4> QED
        BY <4>1, Moved
    <3>2. CASE Crawl(w)
      BY <3>2, Jobs DEF Crawl, Job
    <3>3. CASE LockTimeout(w) \/ CommitUpdate(w) \/ CommitMerge(w) \/ MergeAborts(w) \/ Fail(w)
      BY <3>3, Ended, CommittedMoves DEF LockTimeout, CommitUpdate, CommitMerge, MergeAborts, Fail
    <3> QED
      BY <3>1, <3>2, <3>3 DEF Write
  <2> QED
    BY <2>1, <2>2, Jobs
<1>3. CASE UNCHANGED <<index, files>>
  BY <1>0, <1>1, <1>2, <1>3, SameIndex
<1>4. CASE CommitUpdate(w) /\ job[w].crawled # index.covers
  <2>1. PICK fresh \in SUBSET {index.next} :
           /\ index' = [generation |-> index.generation + 1,
                        covers |-> job[w].crawled,
                        segments |-> index.segments \cup fresh,
                        next |-> index.next + Cardinality(fresh)]
           /\ files' = files \cup fresh
    BY <1>4 DEF CommitUpdate
  <2>2. Cardinality({}) = 0 /\ Cardinality({index.next}) = 1
    BY FS_EmptySet, FS_Singleton
  <2>3. CASE fresh = {}
    <3>1. index'.next = index.next /\ index'.segments = index.segments
          /\ index'.generation = index.generation + 1 /\ files' = files
      BY <1>0, <2>1, <2>2, <2>3
    <3> QED
      BY <1>0, <1>1, <1>2, <3>1, NextIndex
  <2>4. CASE fresh = {index.next}
    <3>1. index'.next = index.next + 1 /\ index'.segments = index.segments \cup {index.next}
          /\ index'.generation = index.generation + 1 /\ files' = files \cup {index.next}
      BY <2>1, <2>2, <2>4
    <3>2. index'.segments \subseteq 0 .. (index'.next - 1) /\ index.next <= index'.next
      BY <1>0, <3>1
    <3>3. index'.segments \subseteq files'
      BY <1>0, <3>1
    <3> QED
      BY <1>1, <1>2, <3>1, <3>2, <3>3, NextIndex
  <2> QED
    BY <2>3, <2>4
<1>5. CASE CommitMerge(w)
  <2>1. /\ index'.next = index.next + 1 /\ index'.generation = index.generation + 1
        /\ index'.segments = (index.segments \ job[w].sources) \cup {index.next}
        /\ (files \cup {index.next}) \ job[w].sources \subseteq files'
        /\ job[w].sources \subseteq index.segments
    BY <1>5 DEF CommitMerge
  <2>2. index'.segments \subseteq 0 .. (index'.next - 1) /\ index.next <= index'.next
    BY <1>0, <2>1
  <2>3. index.next \notin index.segments
    BY <1>0
  <2>4. index'.segments \subseteq files'
    BY <1>0, <2>1, <2>3
  <2> QED
    BY <1>1, <1>2, <2>1, <2>2, <2>4, NextIndex
<1> QED
  BY <1>3, <1>4, <1>5
     DEF Write, TakeLock, LockTimeout, Crawl, CommitUpdate, MergeAborts, Fail, store

LEMMA SegmentsRefresh ==
    ASSUME TypeOK, TypeOK', SegmentsInv, RefreshOpen \/ RefreshSwap \/ OpenFails
    PROVE  SegmentsInv'
<1> USE DEF SegmentsInv
<1>1. CASE RefreshOpen
  <2>1. UNCHANGED <<index, live, held>>
    BY <1>1 DEF RefreshOpen, reading
  <2>2. index.segments \subseteq files'
    BY <1>1 DEF RefreshOpen, Sweep, RemoveBestEffort, InForceComplete
  <2>3. job'["actor"].pc = "swap" /\ job'["actor"].view = Wrap(index)
    BY <1>1, Jobs DEF RefreshOpen, Job
  <2>4. OpenedLater'
    <3>1. /\ Wrap(index).retire = {} /\ Wrap(index).segments = index.segments
          /\ Wrap(index).generation = index.generation /\ Wrap(index).covers = index.covers
      BY DEF Wrap
    <3> QED
      BY <2>1, <2>3, <3>1 DEF OpenedLater, Numbered, GenerationsAgree, GivenOut, TypeOK
  <2> QED
    BY <2>1, <2>2, <2>4 DEF Numbered, RetiredUnused, GenerationsAgree, InForceComplete, GivenOut
<1>2. CASE RefreshSwap
  <2> DEFINE fresh == job["actor"].view
             old == [live EXCEPT !.retire = live.segments \ fresh.segments]
  <2>1. job["actor"].pc = "swap" /\ UNCHANGED index /\ job'["actor"].pc = "recv"
    BY <1>2, Ended, Jobs DEF RefreshSwap
  <2>2. /\ fresh.retire = {} /\ fresh.segments \subseteq GivenOut
        /\ live.segments \cap index.segments \subseteq fresh.segments
        /\ fresh.generation <= index.generation
        /\ fresh.generation = index.generation => fresh.covers = index.covers
    BY <2>1 DEF OpenedLater
  <2>3. CASE fresh.generation = live.generation
    <3>1. UNCHANGED <<files, live, held>>
      BY <1>2, <2>3 DEF RefreshSwap, reading
    <3> QED
      BY <2>1, <3>1, SameIndex DEF InForceComplete
  <2>4. CASE fresh.generation # live.generation
    <3>1. /\ live' = fresh
          /\ \A q \in Query : held'[q] = old \/ held'[q] = held[q]
          /\ files' = files \/ files' = files \ old.retire
      BY <1>2, <2>4 DEF RefreshSwap, DropIfUnused, RemoveBestEffort
    <3>2. /\ old.retire = live.segments \ fresh.segments
          /\ old.retire \subseteq GivenOut /\ old.retire \cap index.segments = {}
      <4>1. old.retire = live.segments \ fresh.segments
        BY DEF TypeOK, Snapshot
      <4> QED
        BY <2>2, <4>1 DEF Numbered
    <3>3. Numbered'
      BY <2>1, <2>2, <3>1, <3>2 DEF Numbered, GivenOut
    <3>4. RetiredUnused'
      BY <2>1, <2>2, <3>1, <3>2 DEF RetiredUnused
    <3>5. OpenedLater'
      BY <2>1 DEF OpenedLater
    <3>6. GenerationsAgree'
      BY <2>1, <2>2, <3>1 DEF GenerationsAgree
    <3>7. InForceComplete'
      BY <2>1, <3>1, <3>2 DEF InForceComplete
    <3> QED
      BY <3>3, <3>4, <3>5, <3>6, <3>7
  <2> QED
    BY <2>3, <2>4
<1>3. CASE OpenFails
  <2>1. UNCHANGED <<index, live, held, files>> /\ job'["actor"].pc = "recv"
    BY <1>3, Ended, Jobs DEF OpenFails, store, reading
  <2> QED
    BY <2>1, SameIndex DEF InForceComplete
<1> QED
  BY <1>1, <1>2, <1>3

LEMMA SegmentsQuery ==
    ASSUME TypeOK, SegmentsInv, NEW q \in Query, QueryStart(q) \/ QueryEnd(q)
    PROVE  SegmentsInv'
<1> USE DEF SegmentsInv
<1>1. UNCHANGED <<index, live, job>>
  BY DEF QueryStart, QueryEnd, store, actor
<1>2. /\ \A p \in Query : held'[p] \in {held[p], live, NoSnapshot}
      /\ files' = files \/ files' = files \ held[q].retire
  BY DEF QueryStart, QueryEnd, DropIfUnused, RemoveBestEffort, TypeOK, store
<1>3. NoSnapshot.retire = {} /\ live.retire = {}
  BY DEF NoSnapshot, RetiredUnused
<1>4. Numbered'
  BY <1>1, <1>2, <1>3 DEF Numbered, GivenOut
<1>5. RetiredUnused'
  BY <1>1, <1>2, <1>3 DEF RetiredUnused
<1>6. InForceComplete'
  BY <1>1, <1>2 DEF InForceComplete, RetiredUnused
<1>7. OpenedLater' /\ GenerationsAgree'
  BY <1>1 DEF OpenedLater, GenerationsAgree, GivenOut
<1> QED
  BY <1>4, <1>5, <1>6, <1>7

LEMMA SegmentsStep ==
    ASSUME TypeOK, SegmentsInv, [Next]_vars PROVE SegmentsInv'
<1>0. TypeOK'
  BY TypeStep
<1>1. CASE Write("actor") \/ Write("cli")
  BY <1>0, <1>1, Jobs, SegmentsWrite
<1>2. CASE RefreshOpen \/ RefreshSwap \/ OpenFails
  BY <1>0, <1>2, SegmentsRefresh
<1>3. CASE \E q \in Query : QueryStart(q) \/ QueryEnd(q)
  BY <1>3, SegmentsQuery
<1>4. CASE ReceiveReconcile \/ ReceiveMerge \/ ReceiveMergeReady \/ ReceiveUnhealthy \/ ReceiveShutdown
  <2>1. UNCHANGED <<index, files, live, held>>
    BY <1>4 DEF ReceiveReconcile, ReceiveMerge, ReceiveMergeReady, ReceiveUnhealthy,
                ReceiveShutdown, store, reading
  <2>2. job'["actor"].pc = "swap" => job'["actor"] = job["actor"]
    BY <1>4, Jobs DEF ReceiveReconcile, ReceiveMerge, ReceiveMergeReady, ReceiveUnhealthy,
                      ReceiveShutdown, Goto, Job
  <2> QED
    BY <2>1, <2>2, SameIndex DEF SegmentsInv, InForceComplete
<1>5. CASE Task
  <2>1. UNCHANGED <<index, live, held, job>>
    BY <1>5 DEF Task, TaskClear, TaskOpen, TaskPrepare, TaskSend, store, reading
  <2>2. index.segments \subseteq files'
    BY <1>5 DEF Task, TaskClear, TaskOpen, TaskPrepare, TaskSend, Sweep, RemoveBestEffort, store,
                SegmentsInv, InForceComplete
  <2> QED
    BY <2>1, <2>2, SameIndex
<1>6. CASE CliStart \/ CliClear \/ CliPrepare \/ CliKilled
  <2>1. UNCHANGED <<index, live, held>>
    BY <1>6 DEF CliStart, CliClear, CliPrepare, CliKilled, store, reading
  <2>2. job'["actor"] = job["actor"]
    BY <1>6, Jobs DEF CliStart, CliClear, CliPrepare, CliKilled, Goto
  <2>3. index.segments \subseteq files'
    BY <1>6 DEF CliStart, CliClear, CliPrepare, CliKilled, Sweep, RemoveBestEffort, store,
                SegmentsInv, InForceComplete
  <2> QED
    BY <2>1, <2>2, <2>3, SameIndex
<1>7. CASE \/ Watcher \/ Edit \/ LoseHint \/ SetStop \/ SendShutdown
           \/ \E c \in Client : Send(c) \/ \E cmd \in {"reconcile", "merge"} : Ask(c, cmd)
           \/ UNCHANGED vars
  <2>1. UNCHANGED <<index, files, live, held, job>>
    BY <1>7 DEF Watcher, WatchStart, WatchFailed, Trigger, CheckStop, RecvHint, PeriodTimeout,
                QuietWindow, Edit, LoseHint, SetStop, SendShutdown, Send, Ask,
                vars, store, actor, reading
  <2> QED
    BY <2>1, SameIndex DEF SegmentsInv, InForceComplete
<1> QED
  BY <1>1, <1>2, <1>3, <1>4, <1>5, <1>6, <1>7 DEF Next, Actor, Cli

-----------------------------------------------------------------------------
(* Merges.                                                                 *)

LEMMA OneMergeStep ==
    ASSUME TypeOK, OneMerge, [Next]_vars PROVE OneMerge'
<1> USE DEF OneMerge
<1>1. CASE ReceiveReconcile \/ ReceiveMerge \/ ReceiveMergeReady \/ ReceiveUnhealthy \/ ReceiveShutdown
  <2>1. CASE ReceiveMergeReady
    BY <2>1 DEF ReceiveMergeReady, NoTask
  <2>2. CASE ReceiveReconcile \/ ReceiveMerge \/ ReceiveUnhealthy \/ ReceiveShutdown
    BY <2>2, Jobs DEF ReceiveReconcile, ReceiveMerge, ReceiveUnhealthy, ReceiveShutdown,
                      Receive, Goto, Job
  <2> QED
    BY <1>1, <2>1, <2>2
<1>2. CASE Write("actor") \/ RefreshOpen \/ RefreshSwap \/ OpenFails
  <2>1. UNCHANGED task
    BY <1>2 DEF Write, TakeLock, LockTimeout, Crawl, CommitUpdate, CommitMerge, MergeAborts, Fail,
                RefreshOpen, RefreshSwap, OpenFails
  <2>2. job'["actor"].pc = "merge" => job["actor"].pc = "merge_lock"
    <3>1. CASE TakeLock("actor")
      BY <3>1, Jobs DEF TakeLock, Goto, Job
    <3>2. CASE Crawl("actor") \/ RefreshOpen
      BY <3>2, Jobs DEF Crawl, RefreshOpen, Job
    <3>3. CASE \/ LockTimeout("actor") \/ CommitUpdate("actor") \/ CommitMerge("actor")
               \/ MergeAborts("actor") \/ Fail("actor") \/ RefreshSwap \/ OpenFails
      BY <3>3, Jobs, Ended, CommittedMoves
         DEF LockTimeout, CommitUpdate, CommitMerge, MergeAborts, Fail, RefreshSwap, OpenFails
    <3> QED
      BY <1>2, <3>1, <3>2, <3>3 DEF Write
  <2>3. job'["actor"].pc # "merge_lock"
    <3>1. CASE TakeLock("actor")
      BY <3>1, Jobs DEF TakeLock, Goto, Job
    <3>2. CASE Crawl("actor") \/ RefreshOpen
      BY <3>2, Jobs DEF Crawl, RefreshOpen, Job
    <3>3. CASE \/ LockTimeout("actor") \/ CommitUpdate("actor") \/ CommitMerge("actor")
               \/ MergeAborts("actor") \/ Fail("actor") \/ RefreshSwap \/ OpenFails
      BY <3>3, Jobs, Ended, CommittedMoves
         DEF LockTimeout, CommitUpdate, CommitMerge, MergeAborts, Fail, RefreshSwap, OpenFails
    <3> QED
      BY <1>2, <3>1, <3>2, <3>3 DEF Write
  <2> QED
    BY <2>1, <2>2, <2>3
<1>3. CASE Write("cli") \/ CliStart \/ CliClear \/ CliPrepare \/ CliKilled
  <2>1. UNCHANGED task
    BY <1>3 DEF Write, TakeLock, LockTimeout, Crawl, CommitUpdate, CommitMerge, MergeAborts, Fail,
                CliStart, CliClear, CliPrepare, CliKilled
  <2>2. job'["actor"] = job["actor"]
    BY <1>3, Jobs, Moved, Ended, CommittedMoves
       DEF Write, TakeLock, LockTimeout, Crawl, CommitUpdate, CommitMerge, MergeAborts, Fail,
           CliStart, CliClear, CliPrepare, CliKilled, Goto
  <2> QED
    BY <2>1, <2>2
<1>4. CASE Task
  BY <1>4 DEF Task, TaskClear, TaskOpen, TaskPrepare, TaskSend
<1>5. CASE UNCHANGED <<task, job>>
  BY <1>5
<1> QED
  BY <1>1, <1>2, <1>3, <1>4, <1>5
     DEF Next, Actor, Cli, Watcher, WatchStart, WatchFailed, Trigger, CheckStop, RecvHint,
         PeriodTimeout, QuietWindow, Edit, LoseHint, SetStop, SendShutdown, Send, Ask,
         QueryStart, QueryEnd, vars, actor

LEMMA MergingFlagStep ==
    ASSUME TypeOK, MergingFlagHonest, [Next]_vars PROVE MergingFlagHonest'
<1> USE DEF MergingFlagHonest, ActorGone
<1>1. CASE Task
  BY <1>1, Jobs DEF Task, TaskClear, TaskOpen, TaskPrepare, TaskSend, Post, ActorGone, Preparation, TypeOK
<1>2. CASE ReceiveMerge \/ ReceiveMergeReady \/ ReceiveShutdown
  BY <1>2, Jobs DEF ReceiveMerge, ReceiveMergeReady, ReceiveShutdown, Receive, Goto, NoTask, Job
<1>3. CASE UNCHANGED <<merging, task>> /\ (ActorGone => ActorGone')
  BY <1>3
<1>4. CASE \/ ReceiveReconcile \/ ReceiveUnhealthy
           \/ Write("actor") \/ RefreshOpen \/ RefreshSwap \/ OpenFails
  <2>1. ~ActorGone
    BY <1>4 DEF ReceiveReconcile, ReceiveUnhealthy, Receive, Write, TakeLock, LockTimeout, Crawl,
                CommitUpdate, CommitMerge, MergeAborts, Fail, RefreshOpen, RefreshSwap, OpenFails
  <2>2. UNCHANGED <<merging, task>>
    BY <1>4 DEF ReceiveReconcile, ReceiveUnhealthy, Write, TakeLock, LockTimeout, Crawl,
                CommitUpdate, CommitMerge, MergeAborts, Fail, RefreshOpen, RefreshSwap, OpenFails
  <2> QED
    BY <1>3, <2>1, <2>2
<1>5. CASE Write("cli") \/ CliStart \/ CliClear \/ CliPrepare \/ CliKilled
  <2>1. UNCHANGED <<merging, task>>
    BY <1>5 DEF Write, TakeLock, LockTimeout, Crawl, CommitUpdate, CommitMerge, MergeAborts, Fail,
                CliStart, CliClear, CliPrepare, CliKilled
  <2>2. job'["actor"] = job["actor"]
    BY <1>5, Jobs, Moved, Ended, CommittedMoves
       DEF Write, TakeLock, LockTimeout, Crawl, CommitUpdate, CommitMerge, MergeAborts, Fail,
           CliStart, CliClear, CliPrepare, CliKilled, Goto
  <2> QED
    BY <1>3, <2>1, <2>2
<1>6. CASE UNCHANGED <<merging, task, job>>
  BY <1>3, <1>6
<1> QED
  BY <1>1, <1>2, <1>4, <1>5, <1>6
     DEF Next, Actor, Cli, Watcher, WatchStart, WatchFailed, Trigger, CheckStop, RecvHint,
         PeriodTimeout, QuietWindow, Edit, LoseHint, SetStop, SendShutdown, Send, Ask,
         QueryStart, QueryEnd, vars, actor

-----------------------------------------------------------------------------
(* Commands.                                                               *)

CommandsInv == Queued /\ Served /\ AskedIsCovered

\* The actor goes to its next step.
LEMMA ActorMoved ==
    ASSUME TypeOK, NEW label, Goto("actor", label)
    PROVE  /\ job'["actor"].pc = label /\ job'["actor"].who = Asker /\ Asker' = Asker
           /\ job'["cli"] = job["cli"]
<1>1. "actor" \in Writer /\ "cli" \in Writer \ {"actor"}
  BY DEF Writer
<1>2. /\ job'["actor"].pc = label /\ job'["actor"].who = job["actor"].who
      /\ job'["cli"] = job["cli"]
  BY <1>1, Moved
<1> QED
  BY <1>2 DEF Asker

LEMMA TailOfMailbox ==
    ASSUME TypeOK, mailbox # <<>>
    PROVE  /\ 1 \in DOMAIN mailbox /\ Head(mailbox) = mailbox[1]
           /\ \A i \in DOMAIN Tail(mailbox) : /\ i + 1 \in DOMAIN mailbox /\ i + 1 # 1
                                              /\ Tail(mailbox)[i] = mailbox[i + 1]
           /\ \A i, j \in DOMAIN Tail(mailbox) : i + 1 = j + 1 => i = j
  BY DEF TypeOK

LEMMA EndOfMailbox ==
    ASSUME TypeOK, NEW m \in Message, mailbox' = Append(mailbox, m)
    PROVE  \A i \in DOMAIN mailbox' :
              \/ i \in DOMAIN mailbox /\ mailbox'[i] = mailbox[i]
              \/ i \notin DOMAIN mailbox /\ i = Len(mailbox) + 1 /\ mailbox'[i] = m
  BY DEF TypeOK

\* What is left in the mailbox when its first command is taken out.
LEMMA RestQueued ==
    ASSUME TypeOK, CommandsInv, mailbox # <<>>, mailbox' = Tail(mailbox)
    PROVE  /\ \A i \in DOMAIN mailbox' : mailbox'[i].who \in Client =>
                 /\ client[mailbox'[i].who].pc = "waiting"
                 /\ client[mailbox'[i].who].cmd = mailbox'[i].cmd
                 /\ mailbox'[i].who # Asker
                 /\ mailbox'[i].who # Head(mailbox).who
           /\ \A i, j \in DOMAIN mailbox' :
                 mailbox'[i].who \in Client /\ mailbox'[i].who = mailbox'[j].who => i = j
  BY TailOfMailbox DEF CommandsInv, Queued

\* Nothing a client waits for changes, and no part of the index it asks for is lost.
LEMMA SameCommands ==
    ASSUME TypeOK, TypeOK', CommandsInv, UNCHANGED <<mailbox, client>>,
           job'["actor"] = job["actor"], job'["cli"].who = Nobody,
           disk <= disk', index.covers <= index'.covers
    PROVE  CommandsInv'
<1>1. Queued' /\ Served'
  BY DEF CommandsInv, Queued, Served, Asker
<1>2. AskedIsCovered'
  <2>1. disk \in Nat /\ disk' \in Nat /\ index.covers \in Nat /\ index'.covers \in Nat
        /\ \A c \in Client : client[c].asked \in Nat
    BY DEF TypeOK, Request, Answered
  <2> QED
    BY <2>1 DEF CommandsInv, AskedIsCovered, Asker
<1> QED
  BY <1>1, <1>2 DEF CommandsInv

\* The actor goes on with what it was asked for.
LEMMA GoesOn ==
    ASSUME TypeOK, CommandsInv, UNCHANGED <<mailbox, client, disk>>,
           job'["actor"].who = Asker, job'["cli"] = job["cli"],
           Asker \in Client =>
              /\ job'["actor"].pc \in {"lock", "crawl", "commit", "open", "swap"}
              /\ job'["actor"].pc = "commit" => client[Asker].asked <= job'["actor"].crawled
              /\ job'["actor"].pc = "open" => client[Asker].asked <= index'.covers
              /\ job'["actor"].pc = "swap" => client[Asker].asked <= job'["actor"].view.covers
    PROVE  CommandsInv'
  BY DEF CommandsInv, Queued, Served, AskedIsCovered, Asker

\* Who has been answered has no other command under way.
LEMMA AnswersAsker ==
    ASSUME TypeOK, CommandsInv, NEW result \in {"ok", "error"}, EndJob("actor", result),
           UNCHANGED <<mailbox, disk>>
    PROVE  CommandsInv'
<1>1. Asker' = Nobody /\ job'["cli"] = job["cli"]
  BY Ended, Jobs DEF Asker
<1>2. client' = [c \in Client |-> IF c = Asker THEN Answered(result) ELSE client[c]]
  BY DEF EndJob, Answer, Asker
<1>3. Nobody \notin Client
  BY ServiceAssumption
<1>4. Queued'
  BY <1>1, <1>2, <1>3 DEF CommandsInv, Queued
<1>5. Served'
  BY <1>1, <1>3 DEF CommandsInv, Served
<1>6. AskedIsCovered'
  <2>1. Answered(result).asked <= disk
    BY DEF Answered, TypeOK
  <2> QED
    BY <1>1, <1>2, <1>3, <2>1 DEF CommandsInv, AskedIsCovered
<1> QED
  BY <1>4, <1>5, <1>6 DEF CommandsInv

\* A command nobody waits for is posted.
LEMMA PostsForNobody ==
    ASSUME TypeOK, CommandsInv, NEW m \in Message, m.who \notin Client,
           mailbox' = Append(mailbox, m), UNCHANGED <<client, job, disk, index>>
    PROVE  CommandsInv'
<1>1. Queued'
  BY EndOfMailbox DEF CommandsInv, Queued, Asker
<1> QED
  BY <1>1 DEF CommandsInv, Served, AskedIsCovered, Asker

LEMMA CommandsReceived ==
    ASSUME TypeOK, CommandsInv,
           ReceiveReconcile \/ ReceiveMerge \/ ReceiveMergeReady \/ ReceiveUnhealthy \/ ReceiveShutdown
    PROVE  CommandsInv'
<1>0. job["actor"].pc = "recv" /\ Asker \notin Client /\ mailbox # <<>> /\ UNCHANGED disk
  BY DEF ReceiveReconcile, ReceiveMerge, ReceiveMergeReady, ReceiveUnhealthy, ReceiveShutdown,
         Receive, CommandsInv, Served
<1>1. CASE ReceiveReconcile
  <2>1. mailbox' = Tail(mailbox) /\ Head(mailbox).cmd = "reconcile" /\ UNCHANGED <<client, index>>
    BY <1>1 DEF ReceiveReconcile, Receive, store
  <2>2. /\ job'["actor"].pc = "lock" /\ Asker' = Head(mailbox).who
        /\ job'["cli"] = job["cli"]
    BY <1>1, Jobs DEF ReceiveReconcile, Job, Asker
  <2>3. Queued'
    BY <1>0, <2>1, <2>2, RestQueued DEF Queued
  <2>4. Served'
    BY <1>0, <2>1, <2>2, TailOfMailbox DEF CommandsInv, Queued, Served
  <2>5. AskedIsCovered'
    BY <1>0, <2>1, <2>2 DEF CommandsInv, AskedIsCovered
  <2> QED
    BY <2>3, <2>4, <2>5 DEF CommandsInv
<1>2. CASE ReceiveMerge
  <2>1. mailbox' = Tail(mailbox) /\ UNCHANGED <<job, index>>
        /\ client' = [c \in Client |-> IF c = Head(mailbox).who THEN Answered("ok") ELSE client[c]]
    BY <1>2 DEF ReceiveMerge, Receive, Answer, store
  <2>2. Queued'
    BY <1>0, <2>1, RestQueued DEF Queued, Asker
  <2>3. Served'
    BY <1>0, <2>1 DEF CommandsInv, Served, Asker
  <2>4. AskedIsCovered'
    <3>1. Answered("ok").asked <= disk
      BY DEF Answered, TypeOK
    <3> QED
      BY <1>0, <2>1, <3>1 DEF CommandsInv, AskedIsCovered, Asker
  <2> QED
    BY <2>2, <2>3, <2>4 DEF CommandsInv
<1>3. CASE ReceiveMergeReady \/ ReceiveUnhealthy
  <2>1. mailbox' = Tail(mailbox) /\ UNCHANGED <<client, index>>
    BY <1>3 DEF ReceiveMergeReady, ReceiveUnhealthy, Receive, store
  <2>2. Asker' = Asker /\ job'["cli"] = job["cli"]
    BY <1>3, Jobs DEF ReceiveMergeReady, ReceiveUnhealthy, Job, Asker
  <2>3. Queued'
    BY <1>0, <2>1, <2>2, RestQueued DEF Queued
  <2> QED
    BY <1>0, <2>1, <2>2, <2>3 DEF CommandsInv, Served, AskedIsCovered
<1>4. CASE ReceiveShutdown
  <2>1. mailbox' = <<>>
        /\ client' = [c \in Client |-> IF client[c].pc = "waiting" THEN Answered("error") ELSE client[c]]
    BY <1>4 DEF ReceiveShutdown
  <2>2. Asker' = Asker /\ job'["cli"] = job["cli"]
    <3>1. Goto("actor", "gone")
      BY <1>4 DEF ReceiveShutdown
    <3> QED
      BY <3>1, ActorMoved
  <2>3. Queued'
    BY <2>1 DEF Queued
  <2>4. AskedIsCovered'
    <3>1. Answered("error").asked <= disk
      BY DEF Answered, TypeOK
    <3> QED
      BY <1>0, <2>1, <2>2, <3>1 DEF CommandsInv, AskedIsCovered
  <2> QED
    BY <1>0, <2>2, <2>3, <2>4 DEF CommandsInv, Served
<1> QED
  BY <1>1, <1>2, <1>3, <1>4

LEMMA CommandsActorWrites ==
    ASSUME TypeOK, CommandsInv, CrawlIsCurrent, Write("actor") PROVE CommandsInv'
<1>0. UNCHANGED <<mailbox, disk>>
  BY DEF Write, TakeLock, LockTimeout, Crawl, CommitUpdate, CommitMerge, MergeAborts, Fail
<1>1. CASE TakeLock("actor")
  <2>1. PICK label \in {"crawl", "merge"} : /\ Goto("actor", label)
                                            /\ job["actor"].pc = "lock" => label = "crawl"
    BY <1>1 DEF TakeLock
  <2>2. /\ job'["actor"].pc = label /\ job'["actor"].who = Asker
        /\ job'["cli"] = job["cli"]
    BY <2>1, ActorMoved
  <2>3. UNCHANGED client
    BY <1>1 DEF TakeLock
  <2>4. Asker \in Client => label = "crawl"
    BY <1>1, <2>1 DEF CommandsInv, Served, TakeLock
  <2> QED
    BY <1>0, <2>2, <2>3, <2>4, GoesOn
<1>2. CASE Crawl("actor")
  <2>1. /\ job'["actor"].pc = "commit" /\ job'["actor"].who = Asker
        /\ job'["actor"].crawled = disk /\ job'["cli"] = job["cli"] /\ UNCHANGED client
    BY <1>2, Jobs DEF Crawl, Job, Asker
  <2> QED
    BY <1>0, <2>1, GoesOn DEF CommandsInv, AskedIsCovered
<1>3. CASE CommitUpdate("actor")
  <2>1. Goto("actor", "open") /\ UNCHANGED client
    BY <1>3 DEF CommitUpdate, Committed
  <2>2. /\ job'["actor"].pc = "open" /\ job'["actor"].who = Asker
        /\ job'["cli"] = job["cli"]
    BY <2>1, ActorMoved
  <2>3. index'.covers = job["actor"].crawled
    BY <1>3 DEF CommitUpdate
  <2>4. Asker \in Client => client[Asker].asked <= index'.covers
    BY <1>3, <2>3 DEF CommitUpdate, CommandsInv, AskedIsCovered
  <2> QED
    BY <1>0, <2>1, <2>2, <2>4, GoesOn
<1>4. CASE CommitMerge("actor")
  <2>1. Goto("actor", "open") /\ UNCHANGED client
    BY <1>4 DEF CommitMerge, Committed
  <2>2. job'["actor"].who = Asker /\ job'["cli"] = job["cli"]
    BY <2>1, ActorMoved
  <2>3. Asker \notin Client
    BY <1>4 DEF CommitMerge, CommandsInv, Served
  <2> QED
    BY <1>0, <2>1, <2>2, <2>3, GoesOn
<1>5. CASE LockTimeout("actor") \/ MergeAborts("actor") \/ Fail("actor")
  BY <1>0, <1>5, AnswersAsker DEF LockTimeout, MergeAborts, Fail
<1> QED
  BY <1>1, <1>2, <1>3, <1>4, <1>5 DEF Write

LEMMA CommandsRefreshed ==
    ASSUME TypeOK, CommandsInv, RefreshOpen \/ RefreshSwap \/ OpenFails PROVE CommandsInv'
<1>1. UNCHANGED <<mailbox, disk>>
  BY DEF RefreshOpen, RefreshSwap, OpenFails
<1>2. CASE RefreshOpen
  <2>1. /\ job["actor"].pc = "open" /\ UNCHANGED client
        /\ job'["actor"].pc = "swap" /\ job'["actor"].who = Asker
        /\ job'["actor"].view = Wrap(index) /\ job'["cli"] = job["cli"]
    BY <1>2, Jobs DEF RefreshOpen, Job, Asker
  <2>2. Asker \in Client => client[Asker].asked <= Wrap(index).covers
    BY <2>1 DEF CommandsInv, AskedIsCovered, Wrap
  <2> QED
    BY <1>1, <2>1, <2>2, GoesOn
<1>3. CASE RefreshSwap \/ OpenFails
  BY <1>1, <1>3, AnswersAsker DEF RefreshSwap, OpenFails
<1> QED
  BY <1>2, <1>3

\* The other process asks the actor nothing.
LEMMA CommandsCli ==
    ASSUME TypeOK, TypeOK', CommandsInv, LockHeld, CrawlIsCurrent,
           Write("cli") \/ CliStart \/ CliClear \/ CliPrepare \/ CliKilled
    PROVE  CommandsInv'
<1>1. UNCHANGED <<mailbox, disk>>
  BY DEF Write, TakeLock, LockTimeout, Crawl, CommitUpdate, CommitMerge, MergeAborts, Fail,
         CliStart, CliClear, CliPrepare, CliKilled
<1>2. job["cli"].who = Nobody /\ Nobody \notin Client
  BY ServiceAssumption DEF CommandsInv, Served
<1>3. job'["actor"] = job["actor"]
  BY Jobs, Moved, Ended, CommittedMoves
     DEF Write, TakeLock, LockTimeout, Crawl, CommitUpdate, CommitMerge, MergeAborts, Fail,
         CliStart, CliClear, CliPrepare, CliKilled, Goto
<1>4. job'["cli"].who = Nobody
  <2>1. CASE TakeLock("cli")
    <3>1. \E label \in {"crawl", "merge"} : Goto("cli", label)
      BY <2>1 DEF TakeLock
    <3> QED
      BY <1>2, <3>1, Moved, Jobs
  <2>2. CASE Crawl("cli")
    BY <1>2, <2>2, Jobs DEF Crawl, Job
  <2>3. CASE LockTimeout("cli") \/ CommitUpdate("cli") \/ CommitMerge("cli") \/ MergeAborts("cli") \/ Fail("cli")
    BY <2>3, Ended, CommittedMoves, Jobs DEF LockTimeout, CommitUpdate, CommitMerge, MergeAborts, Fail
  <2>4. CASE CliStart \/ CliClear
    <3>1. \E label \in Label : Goto("cli", label)
      BY <2>4 DEF CliStart, CliClear, Label
    <3> QED
      BY <1>2, <3>1, Moved, Jobs
  <2>5. CASE CliPrepare \/ CliKilled
    BY <1>2, <2>5, Jobs DEF CliPrepare, CliKilled, Resting, Job
  <2> QED
    BY <2>1, <2>2, <2>3, <2>4, <2>5 DEF Write
<1>5. UNCHANGED client
  <2>1. CASE \E result : Answer(Nobody, result)
    BY <1>2, <2>1 DEF Answer, TypeOK
  <2> QED
    BY <1>2, <2>1 DEF Write, TakeLock, LockTimeout, Crawl, CommitUpdate, CommitMerge, MergeAborts, Fail,
           CliStart, CliClear, CliPrepare, CliKilled, Committed, EndJob
<1>6. index.covers <= index'.covers
  <2>1. CASE CommitUpdate("cli")
    BY <2>1, Jobs DEF CommitUpdate, CrawlIsCurrent
  <2>2. index'.covers = index.covers \/ CommitUpdate("cli")
    BY DEF Write, TakeLock, LockTimeout, Crawl, CommitMerge, MergeAborts, Fail,
           CliStart, CliClear, CliPrepare, CliKilled, store
  <2> QED
    BY <2>1, <2>2 DEF TypeOK
<1>7. disk <= disk'
  BY <1>1 DEF TypeOK
<1> QED
  BY <1>1, <1>3, <1>4, <1>5, <1>6, <1>7, SameCommands

LEMMA CommandsSent ==
    ASSUME TypeOK, TypeOK', CommandsInv, NEW c \in Client,
           Send(c) \/ \E cmd \in {"reconcile", "merge"} : Ask(c, cmd)
    PROVE  CommandsInv'
<1>0. UNCHANGED <<job, disk, index>>
  BY DEF Send, Ask, store, actor
<1>1. client[c].pc # "waiting"
  BY DEF Send, Ask
<1>2. Asker # c /\ \A i \in DOMAIN mailbox : mailbox[i].who # c
  BY <1>1 DEF CommandsInv, Served, Queued
<1>3. \A d \in Client \ {c} : client'[d] = client[d]
  BY DEF Send, Ask, TypeOK
<1>4. Served'
  BY <1>0, <1>2, <1>3 DEF CommandsInv, Served, Asker
<1>5. client'[c].asked <= disk
  <2>1. CASE Send(c)
    <3>1. client'[c].asked \in {client[c].asked, 0}
      <4>1. client[c].pc = "sending" => client[c] \in [pc : {"sending", "waiting"}, cmd : {"reconcile", "merge"}, asked : 0 .. MaxDisk]
        BY DEF TypeOK, Request, Answered
      <4>2. c \in DOMAIN client
        BY DEF TypeOK
      <4> QED
        BY <2>1, <4>1, <4>2 DEF Send, Answered
    <3> QED
      BY <3>1 DEF TypeOK, CommandsInv, AskedIsCovered
  <2>2. ASSUME NEW cmd, Ask(c, cmd) PROVE client'[c].asked <= disk
    BY <2>2 DEF Ask, TypeOK
  <2> QED
    BY <2>1, <2>2
<1>6. AskedIsCovered'
  BY <1>0, <1>2, <1>3, <1>5 DEF CommandsInv, AskedIsCovered, Asker
<1>7. Queued'
  <2>1. CASE UNCHANGED mailbox
    BY <1>0, <1>2, <1>3, <2>1 DEF CommandsInv, Queued, Asker
  <2>2. CASE /\ client[c].pc = "sending"
             /\ Post(client[c].cmd, c) /\ client' = [client EXCEPT ![c].pc = "waiting"]
    <3> DEFINE m == [cmd |-> client[c].cmd, who |-> c]
    <3>1. mailbox' = Append(mailbox, m)
      BY <2>2 DEF Post
    <3>2. client'[c].pc = "waiting" /\ client'[c].cmd = client[c].cmd
      BY <2>2 DEF TypeOK, Request, Answered
    <3>3. m \in Message
      <4>1. client[c].pc = "sending"
        BY <2>2
      <4>2. client[c].cmd \in {"reconcile", "merge"}
        BY <4>1 DEF TypeOK, Request, Answered
      <4> QED
        BY <4>2 DEF Message
    <3> QED
      BY <1>0, <1>2, <1>3, <3>1, <3>2, <3>3, EndOfMailbox DEF CommandsInv, Queued, Asker
  <2> QED
    BY <2>1, <2>2 DEF Send, Ask, actor
<1> QED
  BY <1>4, <1>6, <1>7 DEF CommandsInv

LEMMA CommandsStep ==
    ASSUME TypeOK, CommandsInv, LockHeld, CrawlIsCurrent, [Next]_vars PROVE CommandsInv'
<1>0. TypeOK'
  BY TypeStep
<1>1. CASE ReceiveReconcile \/ ReceiveMerge \/ ReceiveMergeReady \/ ReceiveUnhealthy \/ ReceiveShutdown
  BY <1>1, CommandsReceived
<1>2. CASE Write("actor") \/ RefreshOpen \/ RefreshSwap \/ OpenFails
  BY <1>2, CommandsActorWrites, CommandsRefreshed
<1>3. CASE Write("cli") \/ CliStart \/ CliClear \/ CliPrepare \/ CliKilled
  BY <1>0, <1>3, CommandsCli
<1>4. CASE \E c \in Client : Send(c) \/ \E cmd \in {"reconcile", "merge"} : Ask(c, cmd)
  BY <1>0, <1>4, CommandsSent
<1>5. CASE Task \/ Watcher \/ SendShutdown
  <2>1. UNCHANGED <<client, job, disk, index>>
    BY <1>5 DEF Task, TaskClear, TaskOpen, TaskPrepare, TaskSend, Watcher, WatchStart, WatchFailed,
                Trigger, CheckStop, RecvHint, PeriodTimeout, QuietWindow, SendShutdown, store, actor
  <2>2. CASE UNCHANGED mailbox
    BY <1>0, <2>1, <2>2, SameCommands, Jobs DEF CommandsInv, Served, TypeOK
  <2>3. CASE \/ Post("merge_ready", Nobody) \/ Post("unhealthy", Nobody)
             \/ Post("shutdown", Nobody) \/ Post("reconcile", "watcher")
    <3>1. PICK m \in Message : m.who \notin Client /\ mailbox' = Append(mailbox, m)
      BY <2>3, ServiceAssumption DEF Post, Message
    <3> QED
      BY <2>1, <3>1, PostsForNobody
  <2> QED
    BY <1>5, <2>2, <2>3 DEF Task, TaskClear, TaskOpen, TaskPrepare, TaskSend, Watcher, WatchStart,
              WatchFailed, Trigger, CheckStop, RecvHint, PeriodTimeout, QuietWindow, SendShutdown, actor
<1>6. CASE Edit \/ LoseHint \/ SetStop \/ UNCHANGED vars
           \/ \E q \in Query : QueryStart(q) \/ QueryEnd(q)
  <2>1. UNCHANGED <<client, job, mailbox, index>> /\ disk <= disk'
    BY <1>6 DEF Edit, LoseHint, SetStop, QueryStart, QueryEnd, vars, store, actor, TypeOK
  <2> QED
    BY <1>0, <2>1, SameCommands, Jobs DEF CommandsInv, Served, TypeOK
<1> QED
  BY <1>1, <1>2, <1>3, <1>4, <1>5, <1>6 DEF Next, Actor, Cli

-----------------------------------------------------------------------------
(* The invariant.                                                          *)

LEMMA Parts == IInv <=> /\ TypeOK /\ LockHeld /\ CrawlIsCurrent /\ SegmentsInv
                        /\ OneMerge /\ MergingFlagHonest /\ CommandsInv
  BY DEF IInv, SegmentsInv, CommandsInv

LEMMA InitIInv == Init => IInv
<1> SUFFICES ASSUME Init PROVE IInv
  OBVIOUS
<1> USE ServiceAssumption DEF Init
<1>1. /\ job = [w \in Writer |-> Resting(w)]
      /\ \A w \in Writer : /\ job[w] \in Job /\ job[w].pc \in {"recv", "idle"}
                           /\ job[w].who = Nobody
      /\ "actor" \in Writer /\ "cli" \in Writer
  BY RestingTyped DEF Resting, Writer
<1>2. TypeOK
  <2>1. job \in [Writer -> Job]
    BY <1>1
  <2>2. index \in [generation : Nat, covers : 0 .. MaxDisk, segments : SUBSET Nat, next : Nat]
        /\ files \subseteq 0 .. (index.next - 1)
    OBVIOUS
  <2>3. live \in Snapshot /\ held \in [Query -> Snapshot]
    BY DEF Snapshot, Wrap, NoSnapshot
  <2>4. client \in [Client -> Request]
    BY DEF Request
  <2>5. mailbox \in Seq(Message) /\ Len(mailbox) <= MailboxCap
    OBVIOUS
  <2>6. task \in Preparation /\ watcher \in Step
    BY DEF NoTask, Preparation, Step
  <2>7. hint \in BOOLEAN /\ merging \in BOOLEAN /\ healthy \in BOOLEAN
    BY Zenon
  <2>8. /\ disk \in 0 .. MaxDisk /\ ops \in 0 .. MaxOps
        /\ staged \subseteq {"task", "cli"} /\ lock \in Writer \cup {Nobody}
        /\ stop \in {"no", "set", "sent"}
    OBVIOUS
  <2> HIDE DEF Init
  <2> QED
    BY <2>1, <2>2, <2>3, <2>4, <2>5, <2>6, <2>7, <2>8 DEF TypeOK
<1>3. LockHeld /\ CrawlIsCurrent /\ OneMerge
  BY <1>1 DEF LockHeld, CrawlIsCurrent, OneMerge
<1>4. Numbered /\ RetiredUnused
  BY DEF Numbered, RetiredUnused, GivenOut, Wrap, NoSnapshot
<1>5. OpenedLater
  BY <1>1 DEF OpenedLater
<1>6. GenerationsAgree /\ InForceComplete
  BY DEF GenerationsAgree, InForceComplete, Wrap
<1>7. MergingFlagHonest
  BY DEF MergingFlagHonest, NoTask
<1>8. Queued /\ Served /\ AskedIsCovered
  BY <1>1 DEF Queued, Served, AskedIsCovered, Asker, Answered
<1> QED
  BY <1>2, <1>3, <1>4, <1>5, <1>6, <1>7, <1>8 DEF IInv

LEMMA NextIInv == IInv /\ [Next]_vars => IInv'
  BY Parts, TypeStep, LockHeldStep, CrawlIsCurrentStep, SegmentsStep, OneMergeStep,
     MergingFlagStep, CommandsStep
     DEF IInv, SegmentsInv, CommandsInv

\* The invariant the theorems rest on: who works under LOCK, what crawls and
\* opens have seen, which segments are given out, retired or in force, and what
\* every command in the mailbox is for.
THEOREM Invariance == Spec => []IInv
  BY InitIInv, NextIInv, PTL DEF Spec

\* Every variable of the root has its type.
THEOREM TypeCorrect == Spec => []TypeOK
<1>1. IInv => TypeOK
  BY DEF IInv
<1> QED
  BY <1>1, Invariance, PTL

\* No drop of a snapshot and no sweep removes a file the manifest in force
\* names (LiveSegment::drop, LiveIndex::refresh, sweep).
THEOREM FilesInUse == Spec => []InForceComplete
<1>1. IInv => InForceComplete
  BY DEF IInv
<1> QED
  BY <1>1, Invariance, PTL

\* While the actor is there, merging is set exactly as long as a merge is under
\* way or its report in the mailbox (start_merge, finish_merge).
THEOREM MergingFlag == Spec => []MergingFlagHonest
<1>1. IInv => MergingFlagHonest
  BY DEF IInv
<1> QED
  BY <1>1, Invariance, PTL

\* No commit publishes what an older crawl saw over a newer one (update_index).
THEOREM NoForgetting == Spec => CoversNeverRegress
<1> DEFINE A == index'.covers >= index.covers
<1>1. IInv /\ [Next]_vars => [A]_vars
  <2> SUFFICES ASSUME IInv, Next PROVE A
    OBVIOUS
  <2>0. TypeOK /\ LockHeld /\ CrawlIsCurrent /\ index.covers \in Nat
    BY DEF IInv, TypeOK
  <2>1. ASSUME NEW w \in Writer, Write(w) PROVE A
    <3>1. CASE CommitUpdate(w)
      BY <2>0, <3>1, Jobs DEF CommitUpdate, CrawlIsCurrent, Job
    <3>2. CASE ~CommitUpdate(w)
      <4>1. index'.covers = index.covers
        BY <2>1, <3>2 DEF Write, TakeLock, LockTimeout, Crawl, CommitMerge, MergeAborts, Fail, store
      <4> QED
        BY <2>0, <4>1
    <3> QED
      BY <3>1, <3>2
  <2>2. CASE ~Write("actor") /\ ~Write("cli")
    <3>1. UNCHANGED index
      BY <2>0, <2>2, OtherSteps
    <3> QED
      BY <2>0, <3>1
  <2> QED
    BY <2>1, <2>2 DEF Writer
<1> QED
  BY <1>1, Invariance, PTL DEF Spec, CoversNeverRegress

\* From the end of its preparation to its commit nothing in the daemon removes
\* the staged files of a merge (clear_staging, commit_merges).
THEOREM StagedMergeKept == Spec => StagedKept
<1> DEFINE A == Prepared /\ "task" \in staged /\ "task" \notin staged' => job["cli"].pc = "clear"
<1>1. IInv /\ [Next]_vars => [A]_vars
  <2> SUFFICES ASSUME IInv, Next, Prepared, "task" \in staged, "task" \notin staged'
               PROVE  job["cli"].pc = "clear"
    OBVIOUS
  <2>0. TypeOK /\ OneMerge
    BY DEF IInv
  <2>1. CASE CliClear
    BY <2>1 DEF CliClear
  <2>2. CASE CliPrepare \/ CliKilled \/ CliStart
    BY <2>2 DEF CliPrepare, CliKilled, CliStart, store
  <2>3. CASE Task
    <3>1. TaskClear
      BY <2>3 DEF Task, TaskClear, TaskOpen, TaskPrepare, TaskSend, store
    <3> QED
      BY <2>0, <3>1 DEF TaskClear, Prepared, OneMerge
  <2>4. ASSUME NEW w \in Writer, Write(w) PROVE FALSE
    <3>1. Staging(w) = "task" /\ job[w].pc = "merge"
      BY <2>4 DEF Write, TakeLock, LockTimeout, Crawl, CommitUpdate, CommitMerge, MergeAborts, Fail, store
    <3>2. w = "actor"
      BY <3>1 DEF Staging
    <3> QED
      BY <2>0, <3>1, <3>2 DEF Prepared, OneMerge
  <2>5. CASE UNCHANGED staged
    BY <2>5
  <2> QED
    BY <2>1, <2>2, <2>3, <2>4, <2>5
       DEF Next, Actor, Cli, Writer, ReceiveReconcile, ReceiveMerge, ReceiveMergeReady, ReceiveUnhealthy,
           ReceiveShutdown, RefreshOpen, RefreshSwap, OpenFails, Watcher, WatchStart, WatchFailed,
           Trigger, CheckStop, RecvHint, PeriodTimeout, QuietWindow, Edit, LoseHint, SetStop,
           SendShutdown, Send, Ask, QueryStart, QueryEnd, store
<1> QED
  BY <1>1, Invariance, PTL DEF Spec, StagedKept

\* Which steps answer Ok to a client's reconcile.
LEMMA ReconcileAnswered ==
    ASSUME IInv, Next, NEW c \in Client,
           client[c].pc = "waiting", client'[c].pc = "ok", client[c].cmd = "reconcile"
    PROVE  c = Asker /\ (RefreshSwap \/ OpenFails)
<1>0. TypeOK /\ Queued /\ Served /\ Nobody \notin Client
  BY ServiceAssumption DEF IInv
<1>1. \A result : Answered(result).pc = result
  BY DEF Answered
<1>2. ASSUME NEW who, NEW result, Answer(who, result) PROVE c = who /\ result = "ok"
  BY <1>1, <1>2 DEF Answer
<1>3. ASSUME NEW w \in Writer, NEW result, EndJob(w, result) PROVE w = "actor" /\ c = Asker /\ result = "ok"
  BY <1>0, <1>2, <1>3 DEF EndJob, Served, Asker, Writer
<1>4. ~ReceiveMerge
  <2> SUFFICES ASSUME ReceiveMerge PROVE FALSE
    OBVIOUS
  <2>1. mailbox # <<>> /\ Head(mailbox).cmd = "merge" /\ c = Head(mailbox).who
    BY <1>2 DEF ReceiveMerge, Receive
  <2> QED
    BY <1>0, <2>1, TailOfMailbox DEF Queued
<1>5. ~ReceiveShutdown
  BY <1>1 DEF ReceiveShutdown
<1>6. ASSUME NEW w \in Writer PROVE ~Write(w)
  BY <1>0, <1>3 DEF Write, TakeLock, LockTimeout, Crawl, CommitUpdate, CommitMerge, MergeAborts, Fail,
                    Committed
<1>7. ASSUME NEW d \in Client, Send(d) \/ \E cmd \in {"reconcile", "merge"} : Ask(d, cmd) PROVE FALSE
  <2>1. d = c
    BY <1>0, <1>7 DEF Send, Ask, TypeOK
  <2> QED
    BY <1>7, <2>1 DEF Send, Ask
<1>8. client' # client
  OBVIOUS
<1>9. RefreshSwap \/ OpenFails
  BY <1>4, <1>5, <1>6, <1>7, <1>8
     DEF Next, Actor, Cli, Writer, ReceiveReconcile, ReceiveMergeReady, ReceiveUnhealthy,
         RefreshOpen, Task, TaskClear, TaskOpen, TaskPrepare, TaskSend, Watcher, WatchStart, WatchFailed,
         Trigger, CheckStop, RecvHint, PeriodTimeout, QuietWindow, Edit, LoseHint, SetStop,
         SendShutdown, QueryStart, QueryEnd, CliStart, CliClear, CliPrepare, CliKilled
<1> QED
  BY <1>3, <1>9 DEF RefreshSwap, OpenFails, Writer

\* A client whose reconcile is answered Ok finds its changes in what queries
\* are given from then on, unless a commit overtook the refresh (do_reconcile).
THEOREM ReadYourWritesHolds == Spec => ReadYourWrites
<1> DEFINE A == \A c \in Client :
          client[c].pc = "waiting" /\ client'[c].pc = "ok" /\ client[c].cmd = "reconcile"
          => \/ live'.covers >= client[c].asked
             \/ /\ job["actor"].pc = "swap"
                /\ index.generation > job["actor"].view.generation
<1>1. IInv /\ [Next]_vars => [A]_vars
  <2> SUFFICES ASSUME IInv, Next, NEW c \in Client,
                      client[c].pc = "waiting", client'[c].pc = "ok", client[c].cmd = "reconcile"
               PROVE  \/ live'.covers >= client[c].asked
                      \/ /\ job["actor"].pc = "swap"
                         /\ index.generation > job["actor"].view.generation
    OBVIOUS
  <2> DEFINE view == job["actor"].view
  <2>1. TypeOK /\ OpenedLater /\ AskedIsCovered
    BY DEF IInv
  <2>2. c = Asker /\ job["actor"].pc = "swap" /\ (RefreshSwap \/ OpenFails)
    BY ReconcileAnswered DEF RefreshSwap, OpenFails
  <2>3. /\ client[c].asked <= view.covers
        /\ view.generation <= index.generation
        /\ view.generation = live.generation => view.covers = live.covers
    BY <2>1, <2>2 DEF OpenedLater, AskedIsCovered
  <2>4. /\ view.generation \in Nat /\ view.covers \in Nat /\ index.generation \in Nat
        /\ client[c].asked \in Nat
    <3>1. view \in Snapshot /\ client[c] \in Request
      BY <2>1, Jobs DEF TypeOK, Job
    <3>2. client[c].asked \in Nat
      BY <3>1 DEF Request, Answered
    <3> QED
      BY <2>1, <3>1, <3>2 DEF TypeOK, Snapshot
  <2>5. CASE OpenFails
    BY <2>2, <2>3, <2>4, <2>5 DEF OpenFails
  <2>6. CASE RefreshSwap
    <3>1. live'.covers = view.covers
      BY <2>3, <2>6 DEF RefreshSwap, reading
    <3> QED
      BY <2>3, <2>4, <3>1
  <2> QED
    BY <2>2, <2>5, <2>6
<1> QED
  BY <1>1, Invariance, PTL DEF Spec, ReadYourWrites
=============================================================================
