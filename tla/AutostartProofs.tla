--------------------------- MODULE AutostartProofs ---------------------------
(***************************************************************************)
(* One daemon serves, and it owns the socket, for any number of processes  *)
(* and clients.                                                            *)
(***************************************************************************)
EXTENDS Autostart, TLAPS

\* From the instance lock to the end of the process (run_foreground).
Holding == {"roots", "probe", "unlink", "bind", "open", "serving", "closing", "closed"}

\* ServerOwnsSocket is not inductive: that no other process unlinks or binds
\* the name while one listens rests on who may be past the lock.
LockedIn == \A p \in Process : proc[p] \in Holding => lock = p

IInv == TypeOK /\ LockedIn /\ ServerOwnsSocket

-----------------------------------------------------------------------------
\* The program may start beside a daemon that serves, or with its socket file.
LEMMA InitIInv == Init => IInv
<1> SUFFICES ASSUME Init PROVE IInv
  OBVIOUS
<1> USE AutostartAssumption
<1>1. PICK p \in Process :
        /\ socket \in {Nobody, p}
        /\ \/ proc = [q \in Process |-> "unborn"] /\ lock = Nobody
           \/ /\ proc = [q \in Process |-> IF q = p THEN "serving" ELSE "unborn"]
              /\ lock = p /\ socket = p
  BY DEF Init
<1>2. TypeOK
  BY <1>1 DEF Init, TypeOK
<1>3. LockedIn /\ ServerOwnsSocket
  BY <1>1 DEF LockedIn, ServerOwnsSocket, Listening, Holding
<1> QED
  BY <1>2, <1>3 DEF IInv

\* No step of a command line touches what the daemons rely on.
LEMMA ClientStep ==
    ASSUME IInv, NEW c \in Client, Call(c) \/ Work(c)
    PROVE  IInv'
<1> USE AutostartAssumption DEF IInv
<1>1. CASE SpawnDaemon(c)
  <2>1. client' \in [Client -> {"idle", "connect", "spawn", "retry", "hello", "hello again"} \cup Ended]
    BY <1>1 DEF SpawnDaemon, Moves, TypeOK, Ended
  <2>2. UNCHANGED proc \/ \E p \in Process : Goes(p, "unborn", "start")
    BY <1>1 DEF SpawnDaemon
  <2>3. UNCHANGED <<lock, socket, peer, late, disturbed>>
    BY <1>1 DEF SpawnDaemon
  <2>4. TypeOK'
    BY <2>1, <2>2, <2>3 DEF TypeOK, Goes
  <2>5. LockedIn' /\ ServerOwnsSocket'
    BY <2>2, <2>3 DEF TypeOK, Goes, LockedIn, ServerOwnsSocket, Listening, Holding
  <2> QED
    BY <2>4, <2>5
<1>2. CASE Call(c) \/ Connect(c) \/ Deadline(c) \/ Retry(c) \/ Welcomed(c) \/ Refused(c) \/ CutOff(c)
  <2> USE DEF Call, Connect, Deadline, Retry, Welcomed, Refused, CutOff
  <2>1. UNCHANGED daemons
    BY <1>2
  <2>2. client' \in [Client -> {"idle", "connect", "spawn", "retry", "hello", "hello again"} \cup Ended]
    BY <1>2 DEF HandshakeFails, Reach, Moves, TypeOK, Ended
  <2>3. peer' \in [Client -> Process \cup {Nobody}]
    BY <1>2 DEF Reach, TypeOK, Listening
  <2>4. late' \subseteq Client /\ disturbed' \subseteq Client
    BY <1>2 DEF TypeOK
  <2>5. TypeOK'
    BY <2>1, <2>2, <2>3, <2>4 DEF TypeOK, daemons
  <2>6. LockedIn' /\ ServerOwnsSocket'
    BY <2>1 DEF LockedIn, ServerOwnsSocket, Listening, daemons
  <2> QED
    BY <2>5, <2>6
<1> QED
  BY <1>1, <1>2 DEF Work

-----------------------------------------------------------------------------
\* Nobody is past the lock while it is free.
LEMMA FreeLock == ASSUME IInv, lock = Nobody PROVE \A p \in Process : proc[p] \notin Holding
  BY AutostartAssumption DEF IInv, LockedIn

\* The process that holds the lock is the only one that can be listening.
LEMMA OthersAreDeaf ==
    ASSUME IInv, NEW p \in Process, proc[p] \in Holding
    PROVE  \A q \in Process : q # p => proc[q] \notin Holding
  BY DEF IInv, LockedIn

LEMMA TakeLockStep == ASSUME IInv, NEW p \in Process, TakeLock(p) PROVE IInv'
<1> USE AutostartAssumption
<1>1. TypeOK'
  BY DEF IInv, TypeOK, TakeLock, Goes, callers
<1>2. LockedIn'
  <2>1. CASE lock = Nobody
    <3>1. \A q \in Process : proc[q] \notin Holding
      BY <2>1, FreeLock
    <3>2. lock' = p /\ \A q \in Process : q # p => proc'[q] = proc[q]
      BY <2>1 DEF IInv, TypeOK, TakeLock, Goes
    <3> QED
      BY <3>1, <3>2 DEF LockedIn
  <2>2. CASE lock # Nobody
    <3>1. lock' = lock /\ \A q \in Process : q # p => proc'[q] = proc[q]
      BY <2>2 DEF IInv, TypeOK, TakeLock, Goes
    <3>2. proc'[p] \notin Holding
      BY <2>2 DEF IInv, TypeOK, TakeLock, Goes, Holding
    <3> QED
      BY <3>1, <3>2 DEF IInv, LockedIn
  <2> QED
    BY <2>1, <2>2
<1>3. ServerOwnsSocket'
  BY FreeLock DEF IInv, TypeOK, TakeLock, Goes, ServerOwnsSocket, Listening, Holding
<1> QED
  BY <1>1, <1>2, <1>3 DEF IInv

\* The steps by which the holder of the lock goes on to another of its steps.
LEMMA HolderStep ==
    ASSUME IInv, NEW p \in Process,
           \/ AddRoots(p) \/ Serve(p) \/ Stop(p) \/ Close(p)
           \/ Probe(p) \/ Unlink(p) \/ Bind(p) \/ Exit(p)
    PROVE  IInv'
<1> USE AutostartAssumption
<1>1. proc[p] \in Holding /\ lock = p
  BY DEF IInv, LockedIn, AddRoots, Serve, Stop, Close, Probe, Unlink, Bind, Exit, Goes, Holding
<1>2. \A q \in Process : q # p => proc[q] \notin Holding /\ proc'[q] = proc[q]
  BY <1>1, OthersAreDeaf
     DEF IInv, TypeOK, AddRoots, Serve, Stop, Close, Probe, Unlink, Bind, Exit, Goes
<1>3. proc'[p] \in Holding \cup {"gone"} /\ (proc'[p] \in Holding => lock' = p)
  <2>1. CASE Probe(p)
    BY <1>1, <2>1 DEF IInv, TypeOK, Probe, Goes, Listening, Holding
  <2>2. CASE Bind(p)
    BY <1>1, <2>2 DEF IInv, TypeOK, Bind, Goes, Holding
  <2>3. CASE AddRoots(p) \/ Serve(p) \/ Stop(p) \/ Close(p) \/ Unlink(p) \/ Exit(p)
    BY <1>1, <2>3 DEF IInv, TypeOK, AddRoots, Serve, Stop, Close, Unlink, Exit, Goes, Holding
  <2> QED
    BY <2>1, <2>2, <2>3
<1>4. Listening(p)' => socket' = p
  BY <1>1 DEF IInv, TypeOK, AddRoots, Serve, Stop, Close, Probe, Unlink, Bind, Exit, Goes,
              ServerOwnsSocket, Listening
<1>5. TypeOK'
  <2>1. lock' \in Process \cup {Nobody} /\ socket' \in Process \cup {Nobody}
    BY DEF IInv, TypeOK, AddRoots, Serve, Stop, Close, Probe, Unlink, Bind, Exit
  <2>2. proc' \in [Process -> {"unborn", "start", "roots", "probe", "unlink", "bind", "open",
                               "serving", "closing", "closed", "gone"}]
    BY DEF IInv, TypeOK, AddRoots, Serve, Stop, Close, Probe, Unlink, Bind, Exit, Goes
  <2>3. UNCHANGED callers /\ disturbed' \subseteq Client
    BY DEF IInv, TypeOK, AddRoots, Serve, Stop, Close, Probe, Unlink, Bind, Exit, Calling
  <2> QED
    BY <2>1, <2>2, <2>3 DEF IInv, TypeOK, callers
<1>6. LockedIn'
  BY <1>2, <1>3 DEF LockedIn
<1>7. ServerOwnsSocket'
  BY <1>2, <1>3, <1>4 DEF ServerOwnsSocket, Listening, Holding
<1> QED
  BY <1>5, <1>6, <1>7 DEF IInv

\* The kernel releases the lock of a process that ends, and of no other.
LEMMA EndedStep == ASSUME IInv, NEW p \in Process, Quit(p) \/ Killed(p) PROVE IInv'
<1> USE AutostartAssumption
<1>1. TypeOK'
  <2>1. lock' \in Process \cup {Nobody} /\ socket' \in Process \cup {Nobody}
    BY DEF IInv, TypeOK, Quit, Killed
  <2>2. proc' \in [Process -> {"unborn", "start", "roots", "probe", "unlink", "bind", "open",
                               "serving", "closing", "closed", "gone"}]
    BY DEF IInv, TypeOK, Quit, Killed, Goes
  <2>3. UNCHANGED callers /\ disturbed' \subseteq Client
    BY DEF IInv, TypeOK, Quit, Killed, Calling
  <2> QED
    BY <2>1, <2>2, <2>3 DEF IInv, TypeOK, callers
<1>2. LockedIn'
  BY DEF IInv, TypeOK, Quit, Killed, Goes, LockedIn, Holding
<1>3. ServerOwnsSocket'
  BY DEF IInv, TypeOK, Quit, Killed, Goes, ServerOwnsSocket, Listening
<1> QED
  BY <1>1, <1>2, <1>3 DEF IInv

LEMMA NextIInv == IInv /\ [Next]_vars => IInv'
<1> SUFFICES ASSUME IInv, [Next]_vars PROVE IInv'
  OBVIOUS
<1>1. CASE UNCHANGED vars
  BY <1>1 DEF vars, daemons, callers, IInv, TypeOK, LockedIn, ServerOwnsSocket, Listening
<1>2. ASSUME NEW p \in Process, Run(p) \/ End(p) PROVE IInv'
  BY <1>2, TakeLockStep, HolderStep, EndedStep DEF Run, End
<1>3. ASSUME NEW c \in Client, Call(c) \/ Work(c) PROVE IInv'
  BY <1>3, ClientStep
<1> QED
  BY <1>1, <1>2, <1>3 DEF Next, Rest

-----------------------------------------------------------------------------
THEOREM Invariance == Spec => []IInv
<1> QED
  BY InitIInv, NextIInv, PTL DEF Spec

\* The type invariant, for every number of processes and clients.
THEOREM TypeCorrect == Spec => []TypeOK
<1>1. IInv => TypeOK
  BY DEF IInv
<1> QED
  BY <1>1, Invariance, PTL

\* A daemon that listens holds the instance lock and owns the socket file,
\* whatever is killed between the probe, the unlink and the bind of another
\* (acquire_instance_lock, bind).
THEOREM OneServer == Spec => []ServerOwnsSocket
<1>1. IInv => ServerOwnsSocket
  BY DEF IInv
<1> QED
  BY <1>1, Invariance, PTL

-----------------------------------------------------------------------------
(* FailuresExplained rests on who is there for a command line to meet.     *)

\* The lock is held by a process that is alive, and keeps what bind has found.
LockHeld == /\ lock # Nobody => proc[lock] \in Holding
            /\ \A p \in Process : proc[p] = "bind" => socket = Nobody

\* The socket is bound, and the daemon serves or will.
Up == {"open", "serving"}

\* Whoever calls while a daemon is on its way out counts as disturbed.
EndingDisturbs ==
    \A p \in Process : proc[p] \in {"closing", "closed"} => Calling \subseteq disturbed

\* The daemon an undisturbed client is connected to serves or is about to; one
\* that waits for a daemon waits for a process that is on its way, or serves.
ClientsMeetDaemons ==
    \A c \in Client \ disturbed :
        /\ client[c] \in {"hello", "hello again"} =>
              peer[c] \in Process /\ proc[peer[c]] \in Up
        /\ client[c] \in {"retry", "hello again"} =>
              \E p \in Process : Starting(p) \/ proc[p] \in Up

JInv == IInv /\ LockHeld /\ EndingDisturbs /\ ClientsMeetDaemons

LEMMA InitJInv == Init => JInv
<1> SUFFICES ASSUME Init PROVE JInv
  OBVIOUS
<1>1. IInv
  BY InitIInv
<1>2. LockHeld /\ EndingDisturbs
  BY AutostartAssumption DEF Init, LockHeld, EndingDisturbs, Holding
<1>3. ClientsMeetDaemons
  BY DEF Init, ClientsMeetDaemons
<1> QED
  BY <1>1, <1>2, <1>3 DEF JInv

-----------------------------------------------------------------------------
\* A start ends in serving, or early because another daemon holds the lock.
LEMMA StartsSucceed ==
    ASSUME JInv, NEW p \in Process, Run(p), Starting(p)
    PROVE  \/ Starting(p)' \/ proc'[p] \in Up
           \/ lock # Nobody /\ lock' = lock /\ \A q \in Process : q # p => proc'[q] = proc[q]
<1> USE AutostartAssumption
<1>0. proc \in [Process -> {"unborn", "start", "roots", "probe", "unlink", "bind", "open",
                          "serving", "closing", "closed", "gone"}]
  BY DEF JInv, IInv, TypeOK
<1>1. CASE TakeLock(p)
  BY <1>0, <1>1 DEF TakeLock, Goes, Starting
<1>2. CASE AddRoots(p) \/ Unlink(p)
  BY <1>0, <1>2 DEF AddRoots, Unlink, Goes, Starting
<1>3. CASE Probe(p)
  <2>1. ~Listening(socket)
    <3>1. proc[p] = "probe" /\ proc[p] \in Holding /\ socket \in Process \cup {Nobody}
      BY <1>3 DEF Probe, Goes, Holding, JInv, IInv, TypeOK
    <3> QED
      BY <3>1, OthersAreDeaf DEF JInv, Listening, Holding
  <2> QED
    BY <1>0, <1>3, <2>1 DEF Probe, Goes, Starting
<1>4. CASE Bind(p)
  BY <1>0, <1>4 DEF Bind, Goes, JInv, LockHeld, Up
<1>5. CASE Serve(p) \/ Close(p) \/ Exit(p)
  BY <1>5 DEF Serve, Close, Exit, Goes, Starting
<1> QED
  BY <1>1, <1>2, <1>3, <1>4, <1>5 DEF Run

\* A daemon step that kills and stops nobody.
LEMMA RunStep ==
    ASSUME JInv, NEW p \in Process, Run(p), IInv'
    PROVE  LockHeld' /\ EndingDisturbs' /\ ClientsMeetDaemons'
<1> USE AutostartAssumption
<1>0. proc \in [Process -> {"unborn", "start", "roots", "probe", "unlink", "bind", "open",
                          "serving", "closing", "closed", "gone"}]
  BY DEF JInv, IInv, TypeOK
<1>1. UNCHANGED <<client, peer, disturbed, Calling>>
  BY DEF Run, TakeLock, AddRoots, Probe, Unlink, Bind, Serve, Close, Exit, callers, Calling
<1>2. \A q \in Process : q # p => proc'[q] = proc[q]
  BY <1>0 DEF Run, TakeLock, AddRoots, Probe, Unlink, Bind, Serve, Close, Exit, Goes
<1>3. /\ proc[p] \in Up => proc'[p] \in Up
      /\ proc'[p] \in {"closing", "closed"} => proc[p] = "closing"
  BY <1>0 DEF Run, TakeLock, AddRoots, Probe, Unlink, Bind, Serve, Close, Exit, Goes, Up
<1>4. LockHeld'
  <2>1. (lock # Nobody => proc[lock] \in Holding)'
    <3>1. lock \in Process \cup {Nobody}
      BY DEF JInv, IInv, TypeOK
    <3>2. CASE TakeLock(p)
      BY <1>0, <1>2, <3>1, <3>2 DEF TakeLock, Goes, Holding, JInv, LockHeld
    <3>3. CASE AddRoots(p) \/ Unlink(p) \/ Serve(p) \/ Close(p) \/ Exit(p)
      BY <1>0, <1>2, <3>1, <3>3 DEF AddRoots, Unlink, Serve, Close, Exit, Goes, Holding, JInv, LockHeld
    <3>4. CASE Probe(p)
      BY <1>0, <1>2, <3>1, <3>4 DEF Probe, Goes, Holding, JInv, LockHeld, Listening
    <3>5. CASE Bind(p)
      BY <1>0, <1>2, <3>1, <3>5 DEF Bind, Goes, Holding, JInv, LockHeld
    <3> QED
      BY <3>2, <3>3, <3>4, <3>5 DEF Run
  <2>2. ASSUME NEW q \in Process, proc'[q] = "bind" PROVE socket' = Nobody
    <3>1. CASE q = p
      BY <1>0, <2>2, <3>1 DEF Run, TakeLock, AddRoots, Probe, Unlink, Bind, Serve, Close, Exit, Goes
    <3>2. CASE q # p
      <4>1. proc[q] = "bind" /\ socket = Nobody /\ proc[q] \in Holding
        BY <1>2, <2>2, <3>2 DEF JInv, LockHeld, Holding
      <4>2. proc[p] \notin Holding
        BY <3>2, <4>1, OthersAreDeaf DEF JInv
      <4>3. UNCHANGED socket
        BY <4>2 DEF Run, TakeLock, AddRoots, Probe, Unlink, Bind, Serve, Close, Exit, Goes, Holding
      <4> QED
        BY <4>1, <4>3
    <3> QED
      BY <3>1, <3>2
  <2> QED
    BY <2>1, <2>2 DEF LockHeld
<1>5. EndingDisturbs'
  BY <1>1, <1>2, <1>3 DEF JInv, EndingDisturbs
<1>6. ClientsMeetDaemons'
  <2> SUFFICES ASSUME NEW c \in Client \ disturbed
               PROVE  /\ client[c] \in {"hello", "hello again"} =>
                            peer[c] \in Process /\ proc'[peer[c]] \in Up
                      /\ client[c] \in {"retry", "hello again"} =>
                            \E q \in Process : Starting(q)' \/ proc'[q] \in Up
    BY <1>1 DEF ClientsMeetDaemons
  <2>1. ASSUME client[c] \in {"hello", "hello again"}
        PROVE  peer[c] \in Process /\ proc'[peer[c]] \in Up
    BY <1>2, <1>3, <2>1 DEF JInv, ClientsMeetDaemons
  <2>2. ASSUME client[c] \in {"retry", "hello again"}
        PROVE  \E q \in Process : Starting(q)' \/ proc'[q] \in Up
    <3>1. PICK q \in Process : Starting(q) \/ proc[q] \in Up
      BY <2>2 DEF JInv, ClientsMeetDaemons
    <3>2. CASE q # p \/ proc[q] \in Up
      BY <1>2, <1>3, <3>1, <3>2 DEF Starting
    <3>3. CASE q = p /\ Starting(p)
      <4>1. CASE Starting(p)' \/ proc'[p] \in Up
        BY <4>1
      <4>2. CASE lock # Nobody /\ lock' = lock /\ ~Starting(p)'
        <5>1. lock \in Process /\ proc[lock] \in Holding /\ proc'[lock] \in Holding
          BY <1>4, <4>2 DEF JInv, IInv, TypeOK, LockHeld
        <5>2. proc'[lock] \notin {"closing", "closed"}
          BY <1>1, <1>5, <2>2, <5>1 DEF EndingDisturbs, Calling, Ended
        <5> QED
          BY <5>1, <5>2 DEF Holding, Starting, Up
      <4> QED
        BY <3>3, <4>1, <4>2, StartsSucceed
    <3> QED
      BY <3>1, <3>2, <3>3
  <2> QED
    BY <2>1, <2>2
<1> QED
  BY <1>4, <1>5, <1>6

\* A stop, an error or a kill disturbs everyone who is calling.
LEMMA StopStep ==
    ASSUME JInv, NEW p \in Process, End(p), IInv'
    PROVE  LockHeld' /\ EndingDisturbs' /\ ClientsMeetDaemons'
<1> USE AutostartAssumption
<1>0. /\ proc \in [Process -> {"unborn", "start", "roots", "probe", "unlink", "bind", "open",
                             "serving", "closing", "closed", "gone"}]
      /\ lock \in Process \cup {Nobody}
  BY DEF JInv, IInv, TypeOK
<1>1. UNCHANGED <<client, peer, Calling>> /\ disturbed' = disturbed \cup Calling
  BY DEF End, Stop, Quit, Killed, callers, Calling
<1>2. LockHeld'
  <2>1. CASE Stop(p)
    BY <1>0, <2>1 DEF Stop, Goes, Holding, JInv, LockHeld
  <2>2. CASE Quit(p) \/ Killed(p)
    BY <1>0, <2>2 DEF Quit, Killed, Goes, Holding, JInv, LockHeld
  <2> QED
    BY <2>1, <2>2 DEF End
<1>3. EndingDisturbs'
  BY <1>1 DEF EndingDisturbs
<1>4. ClientsMeetDaemons'
  BY <1>1 DEF ClientsMeetDaemons, Calling, Ended
<1> QED
  BY <1>2, <1>3, <1>4

-----------------------------------------------------------------------------
\* A connection goes to the daemon the socket leads to; if that one is on its
\* way out, whoever calls is disturbed.
LEMMA ReachStep ==
    ASSUME JInv, NEW c \in Client \ disturbed, c \in Calling, Listening(socket)
    PROVE  socket \in Process /\ proc[socket] \in Up
BY DEF JInv, IInv, TypeOK, Listening, EndingDisturbs, Up

LEMMA CallerStep ==
    ASSUME JInv, NEW c \in Client, Call(c) \/ Work(c), IInv'
    PROVE  LockHeld' /\ EndingDisturbs' /\ ClientsMeetDaemons'
<1> USE AutostartAssumption
<1>0. /\ client \in [Client -> {"idle", "connect", "spawn", "retry", "hello", "hello again"} \cup Ended]
      /\ peer \in [Client -> Process \cup {Nobody}]
      /\ proc \in [Process -> {"unborn", "start", "roots", "probe", "unlink", "bind", "open",
                             "serving", "closing", "closed", "gone"}]
  BY DEF JInv, IInv, TypeOK
<1>1. CASE SpawnDaemon(c) /\ UNCHANGED proc
  <2>1. /\ UNCHANGED <<lock, socket, peer, disturbed>>
        /\ client' \in [Client -> {"idle", "connect", "spawn", "retry", "hello", "hello again"} \cup Ended]
        /\ client[c] = "spawn" /\ client' = [client EXCEPT ![c] = client'[c]]
        /\ client'[c] = "denied" \/ client'[c] = "retry"
    BY <1>0, <1>1 DEF SpawnDaemon, Moves, Ended
  <2>2. client'[c] = "denied"
    BY <1>0, <1>1, <2>1 DEF SpawnDaemon, Moves, Goes
  <2>3. Calling' \subseteq Calling
    BY <1>0, <2>1 DEF Calling, Ended
  <2>4. LockHeld' /\ EndingDisturbs'
    BY <1>1, <2>1, <2>3 DEF JInv, LockHeld, EndingDisturbs
  <2>5. ClientsMeetDaemons'
    BY <1>0, <1>1, <2>1, <2>2 DEF JInv, ClientsMeetDaemons, Starting
  <2> QED
    BY <2>4, <2>5
<1>2. CASE SpawnDaemon(c) /\ ~UNCHANGED proc
  <2>1. PICK p \in Process : Goes(p, "unborn", "start")
    BY <1>2 DEF SpawnDaemon
  <2>2. /\ UNCHANGED <<lock, socket, peer, disturbed>>
        /\ client[c] = "spawn" /\ client' = [client EXCEPT ![c] = "retry"]
    BY <1>2 DEF SpawnDaemon, Moves
  <2>3. Calling' = Calling
    BY <1>0, <2>2 DEF Calling, Ended
  <2>4. LockHeld' /\ EndingDisturbs'
    <3>1. /\ proc' = [proc EXCEPT ![p] = "start"] /\ proc[p] = "unborn"
          /\ lock \in Process \cup {Nobody}
      BY <2>1 DEF Goes, JInv, IInv, TypeOK
    <3>2. LockHeld'
      BY <1>0, <2>2, <3>1 DEF Holding, JInv, LockHeld
    <3>3. EndingDisturbs'
      BY <1>0, <2>2, <2>3, <3>1 DEF JInv, EndingDisturbs
    <3> QED
      BY <3>2, <3>3
  <2>5. Starting(p)' /\ \A q \in Process : proc[q] \in Up => proc'[q] \in Up
    BY <1>0, <2>1 DEF Goes, Starting, Up
  <2>6. ASSUME NEW q \in Process, Starting(q) PROVE Starting(q)'
    BY <1>0, <2>1, <2>6 DEF Goes, Starting
  <2>7. ClientsMeetDaemons'
    BY <1>0, <2>2, <2>5, <2>6 DEF JInv, ClientsMeetDaemons
  <2> QED
    BY <2>4, <2>7
<1>3. CASE Call(c)
  <2>1. /\ UNCHANGED <<proc, lock, socket, peer>>
        /\ client[c] = "idle" /\ client' = [client EXCEPT ![c] = "connect"]
        /\ disturbed' = IF \E p \in Process : proc[p] \in {"closing", "closed"}
                        THEN disturbed \cup {c} ELSE disturbed
    BY <1>3 DEF Call, Moves, daemons
  <2>2. Calling' = Calling \cup {c}
    BY <1>0, <2>1 DEF Calling, Ended
  <2>3. LockHeld'
    BY <2>1 DEF JInv, LockHeld
  <2>4. EndingDisturbs'
    <3> SUFFICES ASSUME NEW p \in Process, proc[p] \in {"closing", "closed"}
                 PROVE  Calling' \subseteq disturbed'
      BY <2>1 DEF EndingDisturbs
    <3>1. Calling \subseteq disturbed /\ disturbed' = disturbed \cup {c}
      BY <2>1 DEF JInv, EndingDisturbs
    <3> QED
      BY <2>2, <3>1
  <2>5. ClientsMeetDaemons'
    BY <1>0, <2>1 DEF JInv, ClientsMeetDaemons, Starting
  <2> QED
    BY <2>3, <2>4, <2>5
<1>4. CASE Connect(c) \/ Deadline(c) \/ Retry(c) \/ Welcomed(c) \/ Refused(c) \/ CutOff(c)
  <2>1. UNCHANGED <<proc, lock, socket, disturbed>>
    BY <1>4 DEF Connect, Deadline, Retry, Welcomed, Refused, CutOff, daemons
  <2>2. /\ \A d \in Client : d # c => client'[d] = client[d] /\ peer'[d] = peer[d]
        /\ c \in Calling
    BY <1>0, <1>4 DEF Connect, Deadline, Retry, Welcomed, Refused, CutOff, HandshakeFails,
                      Reach, Moves, Calling, Ended
  <2>3. Calling' \subseteq Calling
    BY <2>2 DEF Calling
  <2>4. LockHeld' /\ EndingDisturbs'
    BY <2>1, <2>3 DEF JInv, LockHeld, EndingDisturbs
  <2>5. ASSUME c \notin disturbed
        PROVE  /\ client'[c] \in {"hello", "hello again"} =>
                     peer'[c] \in Process /\ proc[peer'[c]] \in Up
               /\ client'[c] \in {"retry", "hello again"} =>
                     \E p \in Process : Starting(p) \/ proc[p] \in Up
    <3>1. CASE Connect(c) \/ Retry(c)
      <4>1. CASE Listening(socket) /\ client'[c] \in {"hello", "hello again"}
        <5>1. socket \in Process /\ proc[socket] \in Up
          BY <2>2, <2>5, <4>1, ReachStep
        <5>2. peer'[c] = socket
          BY <1>0, <3>1, <4>1 DEF Connect, Retry, Reach, Moves
        <5> QED
          BY <5>1, <5>2
      <4>2. CASE client'[c] \notin {"hello", "hello again"}
        <5>1. client'[c] \in {"spawn", "unreachable", "denied"}
          BY <1>0, <3>1, <4>2 DEF Connect, Retry, Reach, Moves
        <5> QED
          BY <5>1
      <4>3. Listening(socket) \/ client'[c] \notin {"hello", "hello again"}
        BY <1>0, <3>1 DEF Connect, Retry, Reach, Moves
      <4> QED
        BY <4>1, <4>2, <4>3
    <3>2. CASE Welcomed(c)
      <4>1. client'[c] = "connected"
        BY <1>0, <3>2 DEF Welcomed, Moves
      <4> QED
        BY <4>1
    <3>3. CASE Refused(c)
      <4>1. /\ client'[c] \in {"denied", "retry"}
            /\ client[c] \in {"hello", "hello again"} /\ proc[peer[c]] = "serving"
        BY <1>0, <3>3 DEF Refused, HandshakeFails, Moves
      <4>2. peer[c] \in Process
        BY <2>5, <4>1 DEF JInv, ClientsMeetDaemons
      <4> QED
        BY <4>1, <4>2 DEF Up
    <3>4. CASE CutOff(c)
      <4>1. peer[c] \in Process /\ proc[peer[c]] \in Up /\ ~Listening(peer[c])
        BY <2>5, <3>4 DEF CutOff, JInv, ClientsMeetDaemons
      <4> QED
        BY <4>1 DEF Listening, Up
    <3>5. CASE Deadline(c)
      BY <2>5, <3>5 DEF Deadline, JInv, ClientsMeetDaemons
    <3> QED
      BY <1>4, <3>1, <3>2, <3>3, <3>4, <3>5
  <2>6. ClientsMeetDaemons'
    BY <2>1, <2>2, <2>5 DEF JInv, ClientsMeetDaemons, Starting
  <2> QED
    BY <2>4, <2>6
<1> QED
  BY <1>1, <1>2, <1>3, <1>4 DEF Work

LEMMA NextJInv == JInv /\ [Next]_vars => JInv'
<1> SUFFICES ASSUME JInv, [Next]_vars PROVE JInv'
  OBVIOUS
<1>1. IInv'
  BY NextIInv DEF JInv
<1>2. CASE UNCHANGED vars
  BY <1>1, <1>2 DEF vars, daemons, callers, JInv, LockHeld, EndingDisturbs,
                    ClientsMeetDaemons, Calling, Starting
<1>3. ASSUME NEW p \in Process, Run(p) \/ End(p) PROVE JInv'
  BY <1>1, <1>3, RunStep, StopStep DEF JInv
<1>4. ASSUME NEW c \in Client, Call(c) \/ Work(c) PROVE JInv'
  BY <1>1, <1>4, CallerStep DEF JInv
<1> QED
  BY <1>2, <1>3, <1>4 DEF Next, Rest

-----------------------------------------------------------------------------
\* A command line that fails without being told what is wrong was disturbed, or
\* a daemon was on its way: none is cut off in the handshake, and none finds
\* nobody running at its deadline, because daemons raced (connect_or_spawn).
THEOREM FailuresAreExplained == Spec => FailuresExplained
<1> DEFINE Explained ==
      \A c \in Client :
          /\ (client[c] # "cut off" /\ client'[c] = "cut off") => c \in disturbed
          /\ (client[c] # "unreachable" /\ client'[c] = "unreachable")
                => c \in disturbed \/ \E p \in Process : Starting(p)
<1>1. JInv /\ [Next]_vars => [Explained]_vars
  <2> SUFFICES ASSUME JInv, Next, NEW c \in Client, c \notin disturbed,
                      client'[c] # client[c], client'[c] \in {"cut off", "unreachable"}
               PROVE  client'[c] = "unreachable" /\ \E p \in Process : Starting(p)
    OBVIOUS
  <2>0. client \in [Client -> {"idle", "connect", "spawn", "retry", "hello", "hello again"} \cup Ended]
    BY DEF JInv, IInv, TypeOK
  <2>1. ASSUME NEW p \in Process, Run(p) \/ End(p) PROVE FALSE
    BY <2>1 DEF Run, TakeLock, AddRoots, Probe, Unlink, Bind, Serve, Close, Exit,
                End, Stop, Quit, Killed, callers
  <2>2. PICK d \in Client : Call(d) \/ Work(d)
    BY <2>1 DEF Next, Rest, vars, callers
  <2>3. c = d
    BY <2>0, <2>2 DEF Call, Work, Connect, SpawnDaemon, Deadline, Retry, Welcomed, Refused,
                      CutOff, HandshakeFails, Reach, Moves
  <2>4. ~CutOff(c)
    BY AutostartAssumption DEF CutOff, JInv, ClientsMeetDaemons, Listening, Up
  <2>5. Retry(c) /\ client[c] = "retry" /\ client'[c] = "unreachable" /\ ~Listening(socket)
    BY <2>0, <2>2, <2>3, <2>4
       DEF Call, Work, Connect, SpawnDaemon, Deadline, Retry, Welcomed, Refused,
           HandshakeFails, Reach, Moves
  <2>6. PICK p \in Process : Starting(p) \/ proc[p] \in Up
    BY <2>5 DEF JInv, ClientsMeetDaemons
  <2>7. CASE proc[p] \in Up
    BY <2>5, <2>7, AutostartAssumption DEF JInv, IInv, ServerOwnsSocket, Listening, Up
  <2> QED
    BY <2>5, <2>6, <2>7
<1> QED
  BY <1>1, InitJInv, NextJInv, PTL DEF Spec, FailuresExplained
=============================================================================
