------------------------------- MODULE Daemon -------------------------------
(***************************************************************************)
(* One daemon process between its bind and its exit: the accept loop and   *)
(* the tasks of its connections (src/daemon/server.rs), the registry of    *)
(* roots they share under a RwLock, the actor of every root with its       *)
(* bounded mailbox and its watcher (src/daemon/actor.rs), and the task     *)
(* that ends an idle daemon (src/daemon/run.rs).                           *)
(*                                                                         *)
(* What an actor does with a command is the matter of RootService; here a  *)
(* command is whoever waits for its answer.  An answer is not told from an *)
(* error, as the connection treats both alike.                             *)
(***************************************************************************)
EXTENDS Naturals, FiniteSets, Sequences

CONSTANTS Conn,        \* the connections clients open
          Root,        \* paths clients name
          MaxActors,   \* bound: the actors the daemon can spawn
          MailboxCap,  \* capacity of a mailbox (64 in the code)
          Nobody

ASSUME DaemonAssumption ==
    /\ IsFiniteSet(Conn)
    /\ MailboxCap \in Nat \ {0} /\ MaxActors \in Nat
    /\ Nobody \notin Nat \cup Conn \cup {"watcher", "shutdown"}
    /\ {"watcher", "shutdown"} \cap Conn = {}

VARIABLES task,        \* the task of each connection
          count,       \* Registry.connections
          roots,       \* Registry.roots
          writer,      \* the task that holds the write lock of roots across an await
          actor,       \* the actor of each handle, with its mailbox
          told,        \* watcher_stop of each handle
          signal,      \* Registry.shutdown_signal holds its permit
          idle,        \* the idle task: where it is, whether idle_since is set,
                       \* whether it has notified `stop`
          serve        \* the accept loop

tasks == <<task, count>>
registry == <<roots, writer>>
actors == <<actor, told>>
ending == <<signal, idle, serve>>
vars == <<tasks, registry, actors, ending>>

Actor == 1 .. MaxActors
Method == {"add_root", "remove_root", "list_roots or query", "status, reconcile or merge"}
Everything == "all roots"
NoActor == [pc |-> "unborn", serving |-> Nobody, mailbox |-> <<>>]

Fresh(pc) == [pc |-> pc, method |-> "none", root |-> Everything, todo |-> {}, actor |-> Nobody]

-----------------------------------------------------------------------------
\* Registry::new; a configured root is added as a client's is.
Init ==
    /\ task = [c \in Conn |-> Fresh("away")]
    /\ count = 0
    /\ roots = [r \in Root |-> Nobody]
    /\ writer = Nobody
    /\ actor = [a \in Actor |-> NoActor]
    /\ told = {}
    /\ signal = FALSE
    /\ idle = [pc |-> "sleep", since |-> FALSE, stop |-> FALSE]
    /\ serve = [pc |-> "accepting", todo |-> {}]

Up == serve.pc # "ended"

\* A tokio RwLock: shutdown_all reads, remove_root writes across an await;
\* every other critical section is over within one step.
CanRead == writer = Nobody
CanWrite == writer = Nobody /\ serve.pc # "telling"

Registered == {roots[r] : r \in Root} \ {Nobody}

-----------------------------------------------------------------------------
(* handle_connection: its task runs to the next read, write or await.      *)
At(c, pc) == Up /\ task[c].pc = pc
To(c, pc) == task' = [task EXCEPT ![c].pc = pc]
Rests(c, pc) == task' = [task EXCEPT ![c] = Fresh(pc)]

\* Mutant: the count stays.
EndsUncounted(c) == Rests(c, "over") /\ UNCHANGED count

\* The loop is left and the count goes down; a `?` leaves the task at once.
Ends(c) == Rests(c, "over") /\ count' = count - 1
Leaks(c) == Rests(c, "leaked") /\ UNCHANGED count

\* A client may hang up at any time, and then a write may fail.  Inside dispatch
\* that ends the loop as the end of the stream does.
Writes(c) == \/ Rests(c, "ready") /\ UNCHANGED count
             \/ Leaks(c)

\* A task that is spawned and has not run yet is not told from a connection
\* that waits to be accepted.
Accept(c) ==
    /\ serve.pc = "accepting" /\ At(c, "away")
    /\ To(c, "hello")
    /\ count' = count + 1
    /\ UNCHANGED <<registry, actors, ending>>

\* The protocol matches, or it does not and the reply says so, or the client
\* has closed the connection.
Hello(c) ==
    /\ At(c, "hello")
    /\ Writes(c) \/ Ends(c)
    /\ UNCHANGED <<registry, actors, ending>>

\* The end of the stream, a read that fails, or a line that is no request: a
\* bad one, or a second hello, gets an error.
ReadLine(c) ==
    /\ At(c, "ready")
    /\ Ends(c) \/ Writes(c)
    /\ UNCHANGED <<registry, actors, ending>>

Births == {c \in Conn : task[c].pc \in {"lookup", "build"}}
Unborn == {a \in Actor : actor[a].pc = "unborn"}

FirstStep(method) == CASE method = "add_root" -> "lookup"
                       [] method = "remove_root" -> "remove"
                       [] OTHER -> "collect"

ReadRequest(c, method, root) ==
    /\ At(c, "ready")
    /\ root = Everything => FirstStep(method) = "collect"
    /\ method = "add_root" => Cardinality(Births) < Cardinality(Unborn)
    /\ task' = [task EXCEPT ![c].pc = FirstStep(method), ![c].method = method, ![c].root = root]
    /\ UNCHANGED <<count, registry, actors, ending>>

\* The reply to a shutdown is written, then serve is notified; the task
\* returns without counting down.
ReadShutdown(c) ==
    /\ At(c, "ready")
    /\ Leaks(c)
    /\ signal' \in {TRUE, signal}
    /\ UNCHANGED <<registry, actors, idle, serve>>

-----------------------------------------------------------------------------
(* Registry::add_root: a lookup, a build that nothing excludes, an insert. *)
LookUp(c) ==
    /\ At(c, "lookup") /\ CanRead
    /\ IF roots[task[c].root] # Nobody THEN Rests(c, "ready") ELSE To(c, "build")
    /\ UNCHANGED <<count, registry, actors, ending>>

BuildFails(c) ==
    /\ At(c, "build")
    /\ Rests(c, "ready")
    /\ UNCHANGED <<count, registry, actors, ending>>

\* actor::spawn and spawn_watcher.
Spawn(c, a) ==
    /\ At(c, "build") /\ a \in Unborn /\ a - 1 \notin Unborn
    /\ actor' = [actor EXCEPT ![a].pc = "recv"]
    /\ task' = [task EXCEPT ![c].pc = "insert", ![c].actor = a]
    /\ UNCHANGED <<count, registry, told, ending>>

Insert(c) ==
    /\ At(c, "insert") /\ CanWrite
    /\ roots' = [roots EXCEPT ![task[c].root] = task[c].actor]
    /\ Rests(c, "ready")
    /\ UNCHANGED <<count, writer, actors, ending>>

-----------------------------------------------------------------------------
(* RootHandle: a send waits for room and fails once the actor is gone.     *)
Sent(a, from) ==
    \/ actor[a].pc = "gone" /\ UNCHANGED actor
    \/ /\ actor[a].pc # "gone" /\ Len(actor[a].mailbox) < MailboxCap
       /\ actor' = [actor EXCEPT ![a].mailbox = Append(@, from)]

ShutsDown(a) == told' = told \cup {a} /\ Sent(a, "shutdown")

\* Mutant: the handle is looked up and left in the registry.
RemoveGets(c) ==
    LET a == roots[task[c].root] IN
    /\ At(c, "remove") /\ CanWrite
    /\ writer' = IF a = Nobody THEN Nobody ELSE c
    /\ IF a = Nobody THEN Rests(c, "ready")
       ELSE task' = [task EXCEPT ![c] = [Fresh("stop") EXCEPT !.actor = a]]
    /\ UNCHANGED <<count, roots, actors, ending>>

\* Registry::remove_root: the guard of the write lock lives in the `if let`
\* and is held until shutdown returns.
Remove(c) ==
    LET a == roots[task[c].root] IN
    /\ At(c, "remove") /\ CanWrite
    /\ roots' = [roots EXCEPT ![task[c].root] = Nobody]
    /\ writer' = IF a = Nobody THEN Nobody ELSE c
    /\ IF a = Nobody THEN Rests(c, "ready")
       ELSE task' = [task EXCEPT ![c] = [Fresh("stop") EXCEPT !.actor = a]]
    /\ UNCHANGED <<count, actors, ending>>

StopRemoved(c) ==
    /\ At(c, "stop")
    /\ ShutsDown(task[c].actor)
    /\ writer' = Nobody
    /\ Rests(c, "ready")
    /\ UNCHANGED <<count, roots, ending>>

\* Registry::get, all and list_roots.  An unknown root is an error; a query
\* runs on the snapshots of the handles and asks no actor (handle_query).
Collect(c) ==
    LET r == task[c].root
        targets == IF r = Everything THEN Registered ELSE {roots[r]} \ {Nobody}
    IN /\ At(c, "collect") /\ CanRead
       /\ task' = [task EXCEPT ![c] =
                     IF targets = {} \/ task[c].method = "list_roots or query"
                     THEN Fresh("ready") ELSE [Fresh("send") EXCEPT !.todo = targets]]
       /\ UNCHANGED <<count, registry, actors, ending>>

\* status, reconcile and merge ask one actor after the other.
Send(c, a) ==
    /\ At(c, "send") /\ a \in task[c].todo
    /\ Sent(a, c)
    /\ task' = [task EXCEPT ![c].pc = "await", ![c].actor = a, ![c].todo = @ \ {a}]
    /\ UNCHANGED <<count, registry, told, ending>>

Resumed(c) == [task EXCEPT ![c] = IF @.todo = {} THEN Fresh("ready")
                                  ELSE [@ EXCEPT !.pc = "send", !.actor = Nobody]]

\* The oneshot of a command is dropped with the mailbox it was in.
Dropped(c) ==
    /\ At(c, "await") /\ actor[task[c].actor].pc = "gone"
    /\ task' = Resumed(c)
    /\ UNCHANGED <<count, registry, actors, ending>>

-----------------------------------------------------------------------------
(* actor::run, and the watcher thread, which waits for each reconcile it   *)
(* asks for.                                                               *)
Receive(a) ==
    LET head == Head(actor[a].mailbox) IN
    /\ Up /\ actor[a].pc = "recv" /\ actor[a].mailbox # <<>>
    /\ actor' = [actor EXCEPT ![a] =
                    IF head = "shutdown" THEN [pc |-> "gone", serving |-> Nobody, mailbox |-> <<>>]
                    ELSE [pc |-> "work", serving |-> head, mailbox |-> Tail(@.mailbox)]]
    /\ UNCHANGED <<tasks, registry, told, ending>>

\* Mutant: the command is dropped and nobody is told.
AnswerKept(a) ==
    /\ Up /\ actor[a].pc = "work"
    /\ actor' = [actor EXCEPT ![a].pc = "recv", ![a].serving = Nobody]
    /\ UNCHANGED <<tasks, registry, told, ending>>

Answer(a) ==
    LET from == actor[a].serving IN
    /\ Up /\ actor[a].pc = "work"
    /\ actor' = [actor EXCEPT ![a].pc = "recv", ![a].serving = Nobody]
    /\ task' = IF from = "watcher" THEN task ELSE Resumed(from)
    /\ UNCHANGED <<count, registry, told, ending>>

WatcherWaits(a) ==
    \/ actor[a].serving = "watcher"
    \/ \E i \in DOMAIN actor[a].mailbox : actor[a].mailbox[i] = "watcher"

WatcherAsks(a) ==
    /\ Up /\ a \notin Unborn \cup told /\ ~WatcherWaits(a)
    /\ Sent(a, "watcher")
    /\ UNCHANGED <<tasks, registry, told, ending>>

-----------------------------------------------------------------------------
(* spawn_idle_shutdown reads the count, then the registry.                 *)
IdleCount ==
    /\ Up /\ idle.pc = "sleep"
    /\ idle' = IF count = 0 THEN [idle EXCEPT !.pc = "counted"] ELSE [idle EXCEPT !.since = FALSE]
    /\ UNCHANGED <<tasks, registry, actors, signal, serve>>

\* Mutant: the clock starts again at every poll.
IdleRootsForgets ==
    /\ Up /\ idle.pc = "counted" /\ CanRead
    /\ idle' = [idle EXCEPT !.pc = "sleep", !.since = FALSE]
    /\ UNCHANGED <<tasks, registry, actors, signal, serve>>

IdleRoots ==
    /\ Up /\ idle.pc = "counted" /\ CanRead
    /\ idle' = [idle EXCEPT !.pc = "sleep", !.since = (Registered = {})]
    /\ UNCHANGED <<tasks, registry, actors, signal, serve>>

\* The timeout has passed since the first poll of the row.
IdleStop ==
    /\ Up /\ idle.pc = "counted" /\ CanRead
    /\ Registered = {} /\ idle.since
    /\ idle' = [idle EXCEPT !.pc = "done", !.stop = TRUE]
    /\ UNCHANGED <<tasks, registry, actors, signal, serve>>

-----------------------------------------------------------------------------
(* serve: both notifications end the loop the same way.                    *)
Notified ==
    /\ serve.pc = "accepting"
    /\ signal \/ idle.stop
    /\ serve' = [serve EXCEPT !.pc = "stopping"]
    /\ UNCHANGED <<tasks, registry, actors, signal, idle>>

\* shutdown_all keeps the read lock while it tells one actor after the other.
TellAll ==
    /\ serve.pc = "stopping" /\ CanRead
    /\ serve' = [pc |-> "telling", todo |-> Registered]
    /\ UNCHANGED <<tasks, registry, actors, signal, idle>>

Tell(a) ==
    /\ serve.pc = "telling" /\ a \in serve.todo
    /\ ShutsDown(a)
    /\ serve' = [serve EXCEPT !.todo = @ \ {a}]
    /\ UNCHANGED <<tasks, registry, signal, idle>>

\* serve returns, run_foreground returns, and the process ends with every
\* task, thread and actor that is left.
Exit ==
    /\ serve.pc = "telling" /\ serve.todo = {}
    /\ task' = [c \in Conn |-> Fresh("over")] /\ count' = 0
    /\ roots' = [r \in Root |-> Nobody] /\ writer' = Nobody
    /\ actor' = [a \in Actor |-> NoActor] /\ told' = {}
    /\ signal' = FALSE /\ idle' = [pc |-> "done", since |-> FALSE, stop |-> FALSE]
    /\ serve' = [serve EXCEPT !.pc = "ended"]

Ended == serve.pc = "ended" /\ UNCHANGED vars

-----------------------------------------------------------------------------
\* The steps of a connection that need nothing but the daemon.
Proceed(c) ==
    \/ Dropped(c)
    \/ LookUp(c) \/ BuildFails(c) \/ (\E a \in Actor : Spawn(c, a)) \/ Insert(c)
    \/ Remove(c) \/ StopRemoved(c) \/ Collect(c) \/ \E a \in Actor : Send(c, a)

Ask(c) ==
    \/ Accept(c) \/ Hello(c) \/ ReadLine(c) \/ ReadShutdown(c)
    \/ \E m \in Method, r \in Root \cup {Everything} :
          ReadRequest(c, m, r)

ActorStep(a) == Receive(a) \/ Answer(a)
ServeStep == Notified \/ TellAll \/ (\E a \in Actor : Tell(a)) \/ Exit

Next ==
    \/ \E c \in Conn : Proceed(c) \/ Ask(c)
    \/ \E a \in Actor : ActorStep(a) \/ WatcherAsks(a)
    \/ IdleCount \/ IdleRoots \/ IdleStop
    \/ ServeStep \/ Ended

\* Tasks, actors and threads run; the fair lock and the fair channel give a
\* waiting task its turn; the clock goes on, so that a row of idle polls is
\* long enough some time.  Nothing is assumed of clients and watchers.
Fairness ==
    /\ \A c \in Conn : SF_vars(Proceed(c))
    /\ \A a \in Actor : WF_vars(ActorStep(a))
    /\ SF_vars(ServeStep)
    /\ WF_vars(IdleCount \/ IdleRoots) /\ SF_vars(IdleStop)

Spec == Init /\ [][Next]_vars /\ Fairness

-----------------------------------------------------------------------------
Pcs == {"away", "hello", "ready", "over", "leaked", "lookup", "build",
        "insert", "remove", "stop", "collect", "send", "await"}

TaskState == [pc : Pcs, method : Method \cup {"none"}, root : Root \cup {Everything},
              todo : SUBSET Actor, actor : Actor \cup {Nobody}]
ActorState == [pc : {"unborn", "recv", "work", "gone"},
               serving : Conn \cup {Nobody, "watcher"},
               mailbox : Seq(Conn \cup {"watcher", "shutdown"})]

TypeOK ==
    /\ task \in [Conn -> TaskState]
    /\ count \in 0 .. Cardinality(Conn)
    /\ roots \in [Root -> Actor \cup {Nobody}] /\ writer \in Conn \cup {Nobody}
    /\ actor \in [Actor -> ActorState]
    /\ \A a \in Actor : Len(actor[a].mailbox) <= MailboxCap
    /\ told \subseteq Actor
    /\ signal \in BOOLEAN
    /\ idle \in [pc : {"sleep", "counted", "done"}, since : BOOLEAN, stop : BOOLEAN]
    /\ serve \in [pc : {"accepting", "stopping", "telling", "ended"}, todo : SUBSET Actor]

\* The count the idle task trusts is exactly that of the connections whose
\* task is between its two ends, and of those whose task was left by `?` or by
\* a shutdown request: it never misses a client (handle_connection).
ConnectionsCounted ==
    count = Cardinality({c \in Conn : task[c].pc \notin {"away", "over"}})

\* As long as the daemon accepts connections, the actor of a registered root
\* runs and nobody has told it to stop, although adding a root twice leaves
\* actors behind that are not registered (add_root, remove_root).
RegisteredActorsServe ==
    serve.pc \in {"accepting", "stopping"} =>
        \A a \in Registered : a \notin told /\ actor[a].pc \in {"recv", "work"}

\* "Re-adding an already-registered root just returns its existing handle"
\* (add_root).
AddIsIdempotent == [][\A r \in Root : roots[r] # Nobody => roots'[r] \in {roots[r], Nobody}]_vars

\* Every request is answered, unless its connection or the daemon ends,
\* however full mailboxes are and whoever waits with the registry locked
\* (dispatch, remove_root, shutdown_all).
Idling == {"away", "hello", "ready", "over", "leaked"}
RequestsAnswered == \A c \in Conn : []<>(task[c].pc \in Idling)

\* A daemon that is asked to stop ends, and so does one that nobody uses: no
\* connection is counted and no root registered from some time on (serve,
\* spawn_idle_shutdown).
DaemonEnds == <>[](signal \/ (count = 0 /\ Registered = {})) => <>~Up
=============================================================================
