------------------------------ MODULE Autostart ------------------------------
(***************************************************************************)
(* Command lines that find no daemon start one (src/daemon/client.rs), and *)
(* the daemons they start settle among themselves who serves               *)
(* (src/daemon/run.rs): first the instance lock, then the configured roots,*)
(* then the Unix socket (src/daemon/transport.rs), whose file outlives a   *)
(* daemon that is killed, and also one that exits.                         *)
(***************************************************************************)
EXTENDS Naturals

CONSTANTS Client, Process, Nobody

ASSUME AutostartAssumption == Nobody \notin Process

VARIABLES proc,       \* what each daemon process is doing
          lock,       \* who holds the instance lock
          socket,     \* the process that bound the file at socket_path
          client,     \* where each command line is in connect_or_spawn
          peer,       \* the process whose listener a client is connected to
          late,       \* clients whose two seconds to connect have passed
          disturbed   \* ghost: clients during whose call a daemon was killed,
                      \* stopping, or ended by an error of its own

daemons == <<proc, lock, socket>>
callers == <<client, peer, late>>
vars == <<daemons, callers, disturbed>>

\* Connections are queued from the bind on, before any is accepted.
Listening(p) == p # Nobody /\ proc[p] \in {"open", "serving", "closing"}
Starting(p) == proc[p] \in {"start", "roots", "probe", "unlink", "bind"}

\* How a call ends: a connection, or an error. NotFound or ConnectionRefused,
\* a daemon that went away before it answered, or an error that says what is
\* wrong (the spawn, the connect, or the hello is denied).
Ended == {"connected", "unreachable", "cut off", "denied"}
Calling == {c \in Client : client[c] \notin {"idle"} \cup Ended}

\* No daemon, the socket of one that was killed, or one that serves.
Init ==
    /\ \E p \in Process :
          /\ socket \in {Nobody, p}
          /\ \/ proc = [q \in Process |-> "unborn"] /\ lock = Nobody
             \/ /\ proc = [q \in Process |-> IF q = p THEN "serving" ELSE "unborn"]
                /\ lock = p /\ socket = p
    /\ client = [c \in Client |-> "idle"]
    /\ peer = [c \in Client |-> Nobody]
    /\ late = {}
    /\ disturbed = {}

-----------------------------------------------------------------------------
(* run_foreground                                                          *)
Goes(p, from, to) == proc[p] = from /\ proc' = [proc EXCEPT ![p] = to]

\* Mutant: the lock is taken whoever holds it.
TakeLockAnyway(p) ==
    /\ lock' = p /\ Goes(p, "start", "roots")
    /\ UNCHANGED <<socket, callers, disturbed>>

\* acquire_instance_lock: the loser exits quietly.
TakeLock(p) ==
    /\ \/ lock = Nobody /\ lock' = p /\ Goes(p, "start", "roots")
       \/ lock # Nobody /\ UNCHANGED lock /\ Goes(p, "start", "gone")
    /\ UNCHANGED <<socket, callers, disturbed>>

\* The configured roots are crawled and indexed before the socket is bound.
AddRoots(p) == Goes(p, "roots", "probe") /\ UNCHANGED <<lock, socket, callers, disturbed>>

\* Mutant: any file at the path is taken for a live daemon.
ProbeKeepsStale(p) ==
    /\ Goes(p, "probe", IF socket = Nobody THEN "bind" ELSE "gone")
    /\ lock' = IF socket = Nobody THEN lock ELSE Nobody
    /\ UNCHANGED <<socket, callers, disturbed>>

\* bind: a file that answers belongs to a live daemon, any other is stale.
Probe(p) ==
    /\ Goes(p, "probe", CASE socket = Nobody -> "bind"
                          [] Listening(socket) -> "gone"
                          [] OTHER -> "unlink")
    /\ lock' = IF Listening(socket) THEN Nobody ELSE lock
    /\ UNCHANGED <<socket, callers, disturbed>>

Unlink(p) ==
    /\ Goes(p, "unlink", "bind")
    /\ socket' = Nobody
    /\ UNCHANGED <<lock, callers, disturbed>>

\* A file that has appeared meanwhile makes bind fail, and the process exit.
Bind(p) ==
    /\ Goes(p, "bind", IF socket = Nobody THEN "open" ELSE "gone")
    /\ socket' = IF socket = Nobody THEN p ELSE socket
    /\ lock' = IF socket = Nobody THEN lock ELSE Nobody
    /\ UNCHANGED <<callers, disturbed>>

\* The permissions of the file are set, and serve accepts.
Serve(p) == Goes(p, "open", "serving") /\ UNCHANGED <<lock, socket, callers, disturbed>>

\* An error of its own ends the process: init_logging, Config::load or the lock
\* itself fails; the directory of the socket cannot be made, the stale file not
\* removed (bind then fails on it), the socket not bound; or its permissions
\* not set, which leaves a file behind that nobody listens at.
Quit(p) ==
    /\ proc[p] \in {"start", "unlink", "bind", "open"}
    /\ Goes(p, proc[p], "gone")
    /\ lock' = IF lock = p THEN Nobody ELSE lock
    /\ disturbed' = disturbed \cup Calling
    /\ UNCHANGED <<socket, callers>>

\* serve is notified (the matter of Daemon): it accepts no more, but its
\* listener queues connections until it returns.
Stop(p) ==
    /\ Goes(p, "serving", "closing")
    /\ disturbed' = disturbed \cup Calling
    /\ UNCHANGED <<lock, socket, callers>>

Close(p) == Goes(p, "closing", "closed") /\ UNCHANGED <<lock, socket, callers, disturbed>>

Exit(p) ==
    /\ Goes(p, "closed", "gone")
    /\ lock' = Nobody
    /\ UNCHANGED <<socket, callers, disturbed>>

Killed(p) ==
    /\ proc[p] \notin {"unborn", "gone"}
    /\ Goes(p, proc[p], "gone")
    /\ lock' = IF lock = p THEN Nobody ELSE lock
    /\ disturbed' = disturbed \cup Calling
    /\ UNCHANGED <<socket, callers>>

-----------------------------------------------------------------------------
(* connect_or_spawn                                                        *)
Moves(c, from, to) == client[c] = from /\ client' = [client EXCEPT ![c] = to]

Call(c) ==
    /\ Moves(c, "idle", "connect")
    /\ disturbed' = IF \E p \in Process : proc[p] \in {"closing", "closed"}
                    THEN disturbed \cup {c} ELSE disturbed
    /\ UNCHANGED <<daemons, peer, late>>

Reach(c, from, to) ==
    /\ Listening(socket)
    /\ Moves(c, from, to)
    /\ peer' = [peer EXCEPT ![c] = socket]

\* The first attempt reaches a listener, finds nobody running (NotFound,
\* ConnectionRefused), or fails otherwise and ends the call.
Connect(c) ==
    /\ \/ Reach(c, "connect", "hello")
       \/ ~Listening(socket) /\ Moves(c, "connect", "spawn") /\ UNCHANGED peer
       \/ Moves(c, "connect", "denied") /\ UNCHANGED peer
    /\ UNCHANGED <<daemons, late, disturbed>>

\* spawn_detached starts a process or fails, and its error ends the call.
SpawnDaemon(c) ==
    /\ \/ Moves(c, "spawn", "retry") /\ \E p \in Process : Goes(p, "unborn", "start")
       \/ Moves(c, "spawn", "denied") /\ UNCHANGED proc
    /\ UNCHANGED <<lock, socket, peer, late, disturbed>>

\* The two seconds pass.
Deadline(c) ==
    /\ client[c] \in {"retry", "hello again"} /\ c \notin late
    /\ late' = late \cup {c}
    /\ UNCHANGED <<daemons, client, peer, disturbed>>

\* Mutant: there is no deadline.
RetryForEver(c) ==
    /\ \/ Reach(c, "retry", "hello again")
       \/ Moves(c, "retry", "retry") /\ UNCHANGED peer
    /\ UNCHANGED <<daemons, late, disturbed>>

\* Every 50 ms. An attempt that fails, with whatever error, is the last one
\* once the deadline has passed; before, it changes nothing.
Retry(c) ==
    /\ \/ Reach(c, "retry", "hello again")
       \/ /\ c \in late /\ UNCHANGED peer
          /\ \/ ~Listening(socket) /\ Moves(c, "retry", "unreachable")
             \/ Moves(c, "retry", "denied")
    /\ UNCHANGED <<daemons, late, disturbed>>

\* The accept loop answers hello.
Welcomed(c) ==
    /\ client[c] \in {"hello", "hello again"} /\ proc[peer[c]] = "serving"
    /\ Moves(c, client[c], "connected")
    /\ UNCHANGED <<daemons, peer, late, disturbed>>

\* A handshake that fails ends the first attempt, and in the loop an attempt.
HandshakeFails(c, with) ==
    \/ Moves(c, "hello", with)
    \/ Moves(c, "hello again", IF c \in late THEN with ELSE "retry")

\* The daemon that serves does not take the hello: it speaks another protocol
\* version, or replies with an error or with something else.
Refused(c) ==
    /\ client[c] \in {"hello", "hello again"} /\ proc[peer[c]] = "serving"
    /\ HandshakeFails(c, "denied")
    /\ UNCHANGED <<daemons, peer, late, disturbed>>

\* The listener or its process has gone: an error, but not "not running".
CutOff(c) ==
    /\ client[c] \in {"hello", "hello again"} /\ ~Listening(peer[c])
    /\ HandshakeFails(c, "cut off")
    /\ UNCHANGED <<daemons, peer, late, disturbed>>

-----------------------------------------------------------------------------
Run(p) == \/ TakeLock(p) \/ AddRoots(p) \/ Probe(p) \/ Unlink(p) \/ Bind(p)
          \/ Serve(p) \/ Close(p) \/ Exit(p)

\* What ends a daemon: shutdown or idle timeout, an error, a signal.
End(p) == Stop(p) \/ Quit(p) \/ Killed(p)

Work(c) == \/ Connect(c) \/ SpawnDaemon(c) \/ Deadline(c) \/ Retry(c)
           \/ Welcomed(c) \/ Refused(c) \/ CutOff(c)

\* Every call has ended.
Rest == /\ \A c \in Client : client[c] \in Ended
        /\ UNCHANGED vars

Next == \/ \E p \in Process : Run(p) \/ End(p)
        \/ \E c \in Client : Call(c) \/ Work(c)
        \/ Rest

\* Processes run, command lines go on, and time passes.
Fairness == /\ \A p \in Process : WF_vars(Run(p))
            /\ \A c \in Client : WF_vars(Work(c)) /\ WF_vars(Deadline(c))

Spec == Init /\ [][Next]_vars /\ Fairness

-----------------------------------------------------------------------------
TypeOK ==
    /\ proc \in [Process -> {"unborn", "start", "roots", "probe", "unlink", "bind", "open",
                             "serving", "closing", "closed", "gone"}]
    /\ {lock, socket} \subseteq Process \cup {Nobody}
    /\ client \in [Client -> {"idle", "connect", "spawn", "retry", "hello", "hello again"}
                              \cup Ended]
    /\ peer \in [Client -> Process \cup {Nobody}]
    /\ late \subseteq Client /\ disturbed \subseteq Client

\* Of all the daemons that are started one serves, and it is the one the
\* socket leads to: no other unlinks its file, whoever is killed at whatever
\* step of its start (acquire_instance_lock before bind).
ServerOwnsSocket == \A p \in Process : Listening(p) => socket = p /\ lock = p

\* A command line that is not told what is wrong (the spawn failed, connect
\* failed with another error than "not running", the daemon refused its hello)
\* fails for one of two reasons. A daemon was killed, stopping or ended by an
\* error while it called: the only reason why it is cut off in the handshake.
\* Or nobody was running, and the daemon that won the lock has not bound its
\* socket when the deadline passes, its configured roots still being indexed.
\* Never because the daemons that were started got in each other's way: the
\* loser of the lock, or the one that finds a stale file, leaves somebody who
\* will serve (connect_or_spawn, run_foreground, bind).
FailuresExplained ==
    [][\A c \in Client :
          /\ (client[c] # "cut off" /\ client'[c] = "cut off") => c \in disturbed
          /\ (client[c] # "unreachable" /\ client'[c] = "unreachable")
                => c \in disturbed \/ \E p \in Process : Starting(p)]_vars

\* Every call ends, also one whose connection waits in the backlog of a daemon
\* that has stopped accepting (handshake has no timeout).
CallsEnd == \A c \in Client : c \in Calling ~> c \notin Calling
=============================================================================
