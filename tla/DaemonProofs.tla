---------------------------- MODULE DaemonProofs ----------------------------
(***************************************************************************)
(* What one daemon guarantees for any number of connections, roots and     *)
(* actors, any mailbox and any order in which tasks run between their      *)
(* awaits: the idle task's count of connections is exact, and the actor of *)
(* a registered root is there to serve it.                                 *)
(***************************************************************************)
EXTENDS Daemon, FiniteSetTheorems, TLAPS

-----------------------------------------------------------------------------
(* Requests under way.                                                     *)

\* A request that names one root, and a request that changes the registry.
NamesRoot == \A c \in Conn :
    task[c].pc \in {"lookup", "build", "insert", "remove"} => task[c].root \in Root

\* An actor that is not running has nothing to do, and one that works does so
\* for somebody.
Resting == \A a \in Actor :
    /\ actor[a].pc \in {"unborn", "gone"} => actor[a].mailbox = <<>>
    /\ actor[a].pc = "work" <=> actor[a].serving # Nobody

Awaits(c, a) == task[c].pc = "await" /\ task[c].actor = a

\* Whatever an actor does or will do for a connection, that connection waits
\* for this one command and for nothing else.
Queued == \A a \in Actor :
    /\ actor[a].serving \in Conn => Awaits(actor[a].serving, a)
    /\ \A i \in DOMAIN actor[a].mailbox : actor[a].mailbox[i] \in Conn =>
          Awaits(actor[a].mailbox[i], a) /\ actor[a].mailbox[i] # actor[a].serving
    /\ \A i, j \in DOMAIN actor[a].mailbox :
          actor[a].mailbox[i] \in Conn /\ actor[a].mailbox[i] = actor[a].mailbox[j] => i = j

-----------------------------------------------------------------------------
(* Handles.                                                                *)

\* A task between spawn and insert, or between the removal and the shutdown,
\* has a handle that is not in the registry.
Holds(c) == task[c].pc \in {"insert", "stop"}

\* Whoever has a handle has one of an actor that was spawned.
HandlesBorn ==
    /\ \A c \in Conn : task[c].todo \cap Unborn = {}
    /\ \A c \in Conn : Holds(c) => task[c].actor \in Actor \ Unborn
    /\ Registered \cap Unborn = {}
    /\ told \cap Unborn = {}
    /\ serve.todo \cap Unborn = {}

\* There is one handle of an actor: of one root, or of one task.
OneHandle ==
    /\ \A r, s \in Root : roots[r] = roots[s] /\ roots[r] # Nobody => r = s
    /\ \A c \in Conn : Holds(c) => task[c].actor \notin Registered
    /\ \A c, d \in Conn : Holds(c) /\ Holds(d) /\ task[c].actor = task[d].actor => c = d

\* Only those are told to stop that are out of the registry, and only those
\* that are told find a Shutdown in their mailbox.
ToldToStop ==
    /\ serve.pc \in {"accepting", "stopping"} =>
          /\ Registered \cap told = {}
          /\ \A c \in Conn : task[c].pc = "insert" => task[c].actor \notin told
    /\ \A a \in Actor \ told :
          /\ actor[a].pc # "gone"
          /\ \A i \in DOMAIN actor[a].mailbox : actor[a].mailbox[i] # "shutdown"

IInv == /\ TypeOK /\ ConnectionsCounted
        /\ NamesRoot /\ Resting /\ Queued
        /\ HandlesBorn /\ OneHandle /\ ToldToStop

-----------------------------------------------------------------------------
(* What the steps of a connection make of its task.                        *)

LEMMA Tasks == ASSUME TypeOK, NEW c \in Conn
               PROVE  /\ task \in [Conn -> TaskState] /\ task[c] \in TaskState
                      /\ task[c].root \in Root \cup {Everything}
                      /\ task[c].todo \in SUBSET Actor
                      /\ task[c].actor \in Actor \cup {Nobody}
  BY DEF TypeOK, TaskState

LEMMA FreshTyped == \A pc \in Pcs : Fresh(pc) \in TaskState
  BY DEF Fresh, TaskState

\* c has turned from what it was doing to what new says.
Turns(c, new) == new \in TaskState /\ task' = [task EXCEPT ![c] = new]

LEMMA RestsTurns == ASSUME TypeOK, NEW c \in Conn, NEW pc \in Pcs, Rests(c, pc)
                    PROVE  Turns(c, Fresh(pc))
  BY FreshTyped DEF Rests, Turns

LEMMA ToTurns ==
    ASSUME TypeOK, NEW c \in Conn, NEW pc \in Pcs, To(c, pc)
    PROVE  \E new : /\ Turns(c, new) /\ new.pc = pc
                    /\ new.root = task[c].root /\ new.todo = task[c].todo
                    /\ new.actor = task[c].actor
<1> DEFINE new == [task[c] EXCEPT !.pc = pc]
<1>1. /\ new \in TaskState /\ new.pc = pc /\ new.root = task[c].root
      /\ new.todo = task[c].todo /\ new.actor = task[c].actor
  BY Tasks DEF TaskState
<1>2. task' = [task EXCEPT ![c] = new]
  BY DEF To
<1> QED
  BY <1>1, <1>2 DEF Turns

\* A step that has nothing to do with handles and sends no command.
Ordinary(c) == Accept(c) \/ Hello(c) \/ ReadLine(c) \/ ReadShutdown(c) \/ LookUp(c)
               \/ BuildFails(c) \/ Collect(c) \/ Dropped(c)
               \/ \E m \in Method, r \in Root \cup {Everything} : ReadRequest(c, m, r)

LEMMA ResumedTurns ==
    ASSUME TypeOK, NEW c \in Conn, task' = Resumed(c)
    PROVE  \E new : /\ Turns(c, new) /\ new.pc \in {"ready", "send"}
                    /\ new.todo \subseteq task[c].todo
<1> DEFINE new == IF task[c].todo = {} THEN Fresh("ready")
                  ELSE [task[c] EXCEPT !.pc = "send", !.actor = Nobody]
<1>1. CASE task[c].todo = {}
  <2>1. /\ Fresh("ready") \in TaskState /\ Fresh("ready").pc = "ready"
        /\ Fresh("ready").todo = {}
    BY FreshTyped DEF Fresh, Pcs
  <2>2. task' = [task EXCEPT ![c] = Fresh("ready")]
    BY <1>1 DEF Resumed
  <2> QED
    BY <2>1, <2>2 DEF Turns
<1>2. CASE task[c].todo # {}
  <2>1. new \in TaskState /\ new.pc = "send" /\ new.todo = task[c].todo
    BY <1>2, Tasks DEF TaskState, Pcs
  <2>2. task' = [task EXCEPT ![c] = new]
    BY <1>2 DEF Resumed
  <2> QED
    BY <2>1, <2>2 DEF Turns
<1> QED
  BY <1>1, <1>2

LEMMA FreshParts ==
    ASSUME NEW pc \in Pcs
    PROVE  /\ Fresh(pc) \in TaskState /\ Fresh(pc).pc = pc /\ Fresh(pc).todo = {}
  BY FreshTyped DEF Fresh

\* What any ordinary step of a connection makes of its task.
OrdinaryTask(c, new) ==
    /\ Turns(c, new)
    /\ new.pc \notin {"insert", "stop", "await"}
    /\ new.pc \in {"lookup", "build", "remove"} => new.root \in Root
    /\ new.todo \cap Unborn = {}

LEMMA RestsOrdinary ==
    ASSUME TypeOK, NEW c \in Conn, NEW pc \in {"ready", "over", "leaked"}, Rests(c, pc)
    PROVE  \E new : OrdinaryTask(c, new) /\ new.pc = pc
<1>1. pc \in Pcs
  BY DEF Pcs
<1> QED
  BY <1>1, RestsTurns, FreshParts DEF OrdinaryTask

\* A connection is counted from its accept to the end of its loop.
Uncounted == {"away", "over"}
CountMoves(c, new) ==
    \/ task[c].pc = "away" /\ new.pc \notin Uncounted /\ count' = count + 1
    \/ task[c].pc \notin Uncounted /\ new.pc = "over" /\ count' = count - 1
    \/ task[c].pc \notin Uncounted /\ new.pc \notin Uncounted /\ count' = count

LEMMA OrdinaryTurns ==
    ASSUME TypeOK, NamesRoot, HandlesBorn, NEW c \in Conn, Ordinary(c)
    PROVE  \E new : OrdinaryTask(c, new) /\ CountMoves(c, new)
<1> USE DEF At
<1>1. CASE Accept(c)
  <2>1. To(c, "hello") /\ "hello" \in Pcs
    BY <1>1 DEF Accept, Pcs
  <2>2. task[c].pc = "away" /\ count' = count + 1
    BY <1>1 DEF Accept
  <2> QED
    BY <2>1, <2>2, ToTurns DEF OrdinaryTask, HandlesBorn, CountMoves, Uncounted
<1>2. CASE Hello(c) \/ ReadLine(c) \/ ReadShutdown(c) \/ BuildFails(c)
  <2>1. \E pc \in {"ready", "over", "leaked"} :
           Rests(c, pc) /\ count' = (IF pc = "over" THEN count - 1 ELSE count)
    BY <1>2 DEF Hello, ReadLine, ReadShutdown, BuildFails, Writes, Ends, Leaks
  <2>2. task[c].pc \in {"hello", "ready", "build"}
    BY <1>2 DEF Hello, ReadLine, ReadShutdown, BuildFails
  <2> QED
    BY <2>1, <2>2, RestsOrdinary DEF CountMoves, Uncounted
<1>3. CASE LookUp(c)
  <2>0. task[c].pc = "lookup" /\ count' = count
    BY <1>3 DEF LookUp
  <2>1. CASE Rests(c, "ready")
    BY <2>0, <2>1, RestsOrdinary DEF CountMoves, Uncounted
  <2>2. CASE To(c, "build")
    <3>1. task[c].root \in Root /\ "build" \in Pcs
      BY <2>0 DEF NamesRoot, Pcs
    <3> QED
      BY <2>0, <2>2, <3>1, ToTurns DEF OrdinaryTask, HandlesBorn, CountMoves, Uncounted
  <2> QED
    BY <1>3, <2>1, <2>2 DEF LookUp
<1>4. CASE Collect(c)
  <2>0. task[c].pc = "collect" /\ count' = count
    BY <1>4 DEF Collect
  <2>1. CASE task' = [task EXCEPT ![c] = Fresh("ready")]
    BY <2>0, <2>1, RestsOrdinary DEF Rests, CountMoves, Uncounted
  <2>2. CASE task' # [task EXCEPT ![c] = Fresh("ready")]
    <3>1. PICK targets \in SUBSET Registered : task' = [task EXCEPT ![c] = [Fresh("send") EXCEPT !.todo = targets]]
      <4>1. task[c].root # Everything => {roots[task[c].root]} \ {Nobody} \subseteq Registered
        BY Tasks DEF Registered
      <4> QED
        BY <1>4, <2>2, <4>1 DEF Collect
    <3>2. targets \subseteq Actor /\ targets \cap Unborn = {}
      BY DEF TypeOK, Registered, HandlesBorn
    <3> DEFINE new == [Fresh("send") EXCEPT !.todo = targets]
    <3>3. new \in TaskState /\ new.pc = "send" /\ new.todo = targets
      BY <3>2 DEF Fresh, TaskState, Pcs
    <3> QED
      BY <2>0, <3>1, <3>2, <3>3 DEF OrdinaryTask, Turns, CountMoves, Uncounted
  <2> QED
    BY <2>1, <2>2
<1>5. CASE Dropped(c)
  <2>1. task[c].pc = "await" /\ count' = count /\ task' = Resumed(c)
    BY <1>5 DEF Dropped
  <2> QED
    BY <2>1, ResumedTurns DEF OrdinaryTask, HandlesBorn, CountMoves, Uncounted
<1>6. ASSUME NEW m \in Method, NEW r \in Root \cup {Everything}, ReadRequest(c, m, r)
      PROVE  \E new : OrdinaryTask(c, new) /\ CountMoves(c, new)
  <2> DEFINE new == [task[c] EXCEPT !.pc = FirstStep(m), !.method = m, !.root = r]
  <2>1. FirstStep(m) \in {"lookup", "remove", "collect"} /\ (FirstStep(m) # "collect" => r \in Root)
    BY <1>6 DEF FirstStep, ReadRequest
  <2>2. new \in TaskState /\ new.pc = FirstStep(m) /\ new.root = r /\ new.todo = task[c].todo
    BY <2>1, Tasks DEF TaskState, Pcs
  <2>3. task' = [task EXCEPT ![c] = new] /\ task[c].pc = "ready" /\ count' = count
    BY <1>6 DEF ReadRequest
  <2> QED
    BY <2>1, <2>2, <2>3 DEF OrdinaryTask, Turns, HandlesBorn, CountMoves, Uncounted
<1> QED
  BY <1>1, <1>2, <1>3, <1>4, <1>5, <1>6 DEF Ordinary

LEMMA OrdinaryKeeps ==
    ASSUME TypeOK, NEW c \in Conn, Ordinary(c)
    PROVE  /\ UNCHANGED <<roots, writer, actor, told, idle, serve>>
           /\ signal' \in {TRUE, signal}
           /\ ~Holds(c)
           /\ task[c].pc = "await" => actor[task[c].actor].pc = "gone"
  BY DEF Ordinary, Accept, Hello, ReadLine, ReadShutdown, LookUp, BuildFails, Collect, Dropped,
         ReadRequest, At, Holds, registry, actors, ending

LEMMA SpawnTurns ==
    ASSUME TypeOK, NEW c \in Conn, NEW a \in Actor, Spawn(c, a)
    PROVE  \E new : /\ Turns(c, new) /\ new.pc = "insert" /\ new.actor = a
                    /\ new.todo = task[c].todo /\ new.root = task[c].root
<1> DEFINE new == [task[c] EXCEPT !.pc = "insert", !.actor = a]
<1>1. /\ new \in TaskState /\ new.pc = "insert" /\ new.actor = a
      /\ new.todo = task[c].todo /\ new.root = task[c].root
  BY Tasks DEF TaskState, Pcs
<1>2. task' = [task EXCEPT ![c] = new]
  BY DEF Spawn
<1> QED
  BY <1>1, <1>2 DEF Turns

LEMMA RemoveTurns ==
    ASSUME TypeOK, NamesRoot, NEW c \in Conn, Remove(c)
    PROVE  \E new : /\ Turns(c, new) /\ new.todo = {}
                    /\ \/ new.pc = "ready" /\ UNCHANGED roots
                       \/ /\ new.pc = "stop" /\ new.actor = roots[task[c].root]
                          /\ new.actor # Nobody
<1> DEFINE a == roots[task[c].root]
<1>0. task[c].root \in Root /\ a \in Actor \cup {Nobody}
  BY DEF Remove, At, NamesRoot, TypeOK
<1>1. CASE a = Nobody
  <2>1. UNCHANGED roots
    BY <1>0, <1>1 DEF Remove, TypeOK
  <2>2. Turns(c, Fresh("ready")) /\ Fresh("ready").todo = {} /\ Fresh("ready").pc = "ready"
    BY <1>1, RestsTurns, FreshParts DEF Remove, Pcs
  <2> QED
    BY <2>1, <2>2
<1>2. CASE a # Nobody
  <2> DEFINE new == [Fresh("stop") EXCEPT !.actor = a]
  <2>1. new \in TaskState /\ new.todo = {} /\ new.pc = "stop" /\ new.actor = a
    BY <1>0 DEF Fresh, TaskState, Pcs
  <2>2. task' = [task EXCEPT ![c] = new]
    BY <1>2 DEF Remove
  <2> QED
    BY <1>2, <2>1, <2>2 DEF Turns
<1> QED
  BY <1>1, <1>2

LEMMA SendTurns ==
    ASSUME TypeOK, NEW c \in Conn, NEW a \in Actor, Send(c, a)
    PROVE  \E new : /\ Turns(c, new) /\ new.pc = "await" /\ new.actor = a
                    /\ new.todo = task[c].todo \ {a}
<1> DEFINE new == [task[c] EXCEPT !.pc = "await", !.actor = a, !.todo = @ \ {a}]
<1>1. task[c].todo \ {a} \in SUBSET Actor
  BY Tasks
<1>2. /\ new \in TaskState /\ new.pc = "await" /\ new.actor = a
      /\ new.todo = task[c].todo \ {a}
  BY <1>1, Tasks DEF TaskState, Pcs
<1>3. task' = [task EXCEPT ![c] = new]
  BY DEF Send
<1> QED
  BY <1>2, <1>3 DEF Turns

-----------------------------------------------------------------------------
(* What sending makes of an actor.                                         *)

Sender == Conn \cup {"watcher", "shutdown"}

LEMMA Actors == ASSUME TypeOK, NEW a \in Actor
                PROVE  /\ actor[a] \in ActorState
                       /\ actor[a].mailbox \in Seq(Sender)
                       /\ Len(actor[a].mailbox) <= MailboxCap
  BY DEF TypeOK, ActorState, Sender

LEMMA SentEffect ==
    ASSUME TypeOK, NEW a \in Actor, NEW from \in Sender, Sent(a, from)
    PROVE  /\ actor' \in [Actor -> ActorState]
           /\ \A b \in Actor : /\ actor'[b].pc = actor[b].pc
                               /\ actor'[b].serving = actor[b].serving
                               /\ Len(actor'[b].mailbox) <= MailboxCap
                               /\ \/ actor'[b].mailbox = actor[b].mailbox
                                  \/ /\ b = a /\ actor[b].pc # "gone"
                                     /\ actor'[b].mailbox = Append(actor[b].mailbox, from)
<1>1. CASE UNCHANGED actor
  BY <1>1 DEF TypeOK
<1>2. CASE /\ actor[a].pc # "gone" /\ Len(actor[a].mailbox) < MailboxCap
           /\ actor' = [actor EXCEPT ![a].mailbox = Append(@, from)]
  <2> DEFINE box == Append(actor[a].mailbox, from)
  <2>1. box \in Seq(Sender) /\ Len(box) <= MailboxCap
    BY <1>2, Actors, DaemonAssumption
  <2> DEFINE new == [actor[a] EXCEPT !.mailbox = box]
  <2>2. /\ new \in ActorState /\ new.mailbox = box
        /\ new.pc = actor[a].pc /\ new.serving = actor[a].serving
    BY <2>1, Actors DEF ActorState, Sender
  <2>3. actor' = [actor EXCEPT ![a] = new] /\ actor \in [Actor -> ActorState]
    BY <1>2 DEF TypeOK
  <2> HIDE DEF new, box
  <2>4. \A b \in Actor : actor'[b] = (IF b = a THEN new ELSE actor[b])
    BY <2>3
  <2>5. actor' \in [Actor -> ActorState]
    BY <2>2, <2>3
  <2> QED
    BY <1>2, <2>1, <2>2, <2>4, <2>5, Actors DEF box
<1> QED
  BY <1>1, <1>2 DEF Sent

LEMMA SpawnEffect ==
    ASSUME TypeOK, NEW c \in Conn, NEW a \in Actor, Spawn(c, a)
    PROVE  /\ actor' \in [Actor -> ActorState]
           /\ actor[a].pc = "unborn" /\ actor'[a].pc = "recv"
           /\ actor'[a].serving = actor[a].serving /\ actor'[a].mailbox = actor[a].mailbox
           /\ \A b \in Actor \ {a} : actor'[b] = actor[b]
<1> DEFINE new == [actor[a] EXCEPT !.pc = "recv"]
<1>1. /\ new \in ActorState /\ new.pc = "recv"
      /\ new.serving = actor[a].serving /\ new.mailbox = actor[a].mailbox
  BY Actors DEF ActorState
<1>2. actor' = [actor EXCEPT ![a] = new] /\ actor \in [Actor -> ActorState]
      /\ actor[a].pc = "unborn"
  BY DEF TypeOK, Spawn, Unborn
<1> QED
  BY <1>1, <1>2

LEMMA ReceiveEffect ==
    ASSUME TypeOK, NEW a \in Actor, Receive(a)
    PROVE  LET box == actor[a].mailbox IN
           /\ actor' \in [Actor -> ActorState]
           /\ \A b \in Actor \ {a} : actor'[b] = actor[b]
           /\ actor[a].pc = "recv" /\ box # <<>>
           /\ \/ /\ Head(box) = "shutdown" /\ actor'[a].pc = "gone"
                 /\ actor'[a].serving = Nobody /\ actor'[a].mailbox = <<>>
              \/ /\ Head(box) # "shutdown" /\ actor'[a].pc = "work"
                 /\ actor'[a].serving = Head(box) /\ actor'[a].mailbox = Tail(box)
           /\ Len(actor'[a].mailbox) <= MailboxCap
<1> DEFINE box == actor[a].mailbox
           new == IF Head(box) = "shutdown" THEN [pc |-> "gone", serving |-> Nobody, mailbox |-> <<>>]
                  ELSE [pc |-> "work", serving |-> Head(box), mailbox |-> Tail(box)]
<1>1. /\ actor' = [actor EXCEPT ![a] = new] /\ actor \in [Actor -> ActorState]
      /\ actor[a].pc = "recv" /\ box # <<>>
  BY DEF Receive, TypeOK
<1>2. Head(box) \in Sender /\ Tail(box) \in Seq(Sender) /\ Len(Tail(box)) <= MailboxCap
  BY <1>1, Actors, DaemonAssumption
<1>3. new \in ActorState
  <2>1. CASE Head(box) = "shutdown"
    BY <2>1 DEF ActorState
  <2>2. CASE Head(box) # "shutdown"
    BY <1>2, <2>2 DEF ActorState, Sender
  <2> QED
    BY <2>1, <2>2
<1>4. actor'[a] = new /\ \A b \in Actor \ {a} : actor'[b] = actor[b]
  BY <1>1
<1>5. Len(<<>>) <= MailboxCap
  BY DaemonAssumption
<1> QED
  BY <1>1, <1>2, <1>3, <1>4, <1>5

LEMMA AnswerEffect ==
    ASSUME TypeOK, NEW a \in Actor, Answer(a)
    PROVE  /\ actor' \in [Actor -> ActorState]
           /\ \A b \in Actor \ {a} : actor'[b] = actor[b]
           /\ actor[a].pc = "work" /\ actor'[a].pc = "recv" /\ actor'[a].serving = Nobody
           /\ actor'[a].mailbox = actor[a].mailbox
<1> DEFINE new == [actor[a] EXCEPT !.pc = "recv", !.serving = Nobody]
<1>1. new \in ActorState /\ new.pc = "recv" /\ new.serving = Nobody /\ new.mailbox = actor[a].mailbox
  BY Actors DEF ActorState
<1>2. actor' = [actor EXCEPT ![a] = new] /\ actor \in [Actor -> ActorState] /\ actor[a].pc = "work"
  BY DEF Answer, TypeOK
<1> QED
  BY <1>1, <1>2

\* Who is answered was waiting for it, and goes on to the next actor or is done.
LEMMA AnswerTurns ==
    ASSUME TypeOK, Resting, Queued, NEW a \in Actor, Answer(a)
    PROVE  \/ actor[a].serving = "watcher" /\ UNCHANGED task
           \/ LET c == actor[a].serving IN
              /\ c \in Conn /\ Awaits(c, a)
              /\ \E new : /\ Turns(c, new) /\ new.pc \in {"ready", "send"}
                          /\ new.todo \subseteq task[c].todo
<1> DEFINE c == actor[a].serving
<1>1. actor[a].pc = "work"
  BY DEF Answer
<1>2. c # Nobody /\ c \in Conn \cup {Nobody, "watcher"}
  BY <1>1, Actors DEF Resting, ActorState
<1>3. CASE c = "watcher"
  BY <1>3 DEF Answer
<1>4. CASE c # "watcher"
  <2>1. c \in Conn /\ Awaits(c, a) /\ task' = Resumed(c)
    BY <1>2, <1>4 DEF Answer, Queued
  <2> QED
    BY <2>1, ResumedTurns
<1> QED
  BY <1>3, <1>4

-----------------------------------------------------------------------------
(* Every variable keeps its type.                                          *)

LEMMA TurnsTyped == ASSUME TypeOK, NEW c \in Conn, NEW new, Turns(c, new)
                    PROVE  /\ task' \in [Conn -> TaskState] /\ task'[c] = new
                           /\ \A d \in Conn \ {c} : task'[d] = task[d]
  BY DEF TypeOK, Turns

LEMMA CountStays ==
    ASSUME TypeOK, ConnectionsCounted, UNCHANGED count,
           \A c \in Conn : task'[c].pc \in Uncounted <=> task[c].pc \in Uncounted
    PROVE  ConnectionsCounted'
<1>1. {c \in Conn : task'[c].pc \notin Uncounted} = {c \in Conn : task[c].pc \notin Uncounted}
  OBVIOUS
<1> QED
  BY <1>1 DEF ConnectionsCounted, Uncounted

LEMMA CountChanges ==
    ASSUME TypeOK, ConnectionsCounted, NEW c \in Conn, NEW new, Turns(c, new), CountMoves(c, new)
    PROVE  ConnectionsCounted'
<1> DEFINE Counted == {d \in Conn : task[d].pc \notin Uncounted}
           Counted2 == {d \in Conn : task'[d].pc \notin Uncounted}
<1>1. task'[c] = new /\ \A d \in Conn \ {c} : task'[d] = task[d]
  BY TurnsTyped
<1>2. Counted \subseteq Conn /\ IsFiniteSet(Counted) /\ Cardinality(Counted) \in Nat
  BY DaemonAssumption, FS_Subset, FS_CardinalityType
<1>3. count = Cardinality(Counted)
  BY DEF ConnectionsCounted, Uncounted
<1>4. count' = Cardinality(Counted2)
  <2>1. CASE task[c].pc = "away" /\ new.pc \notin Uncounted /\ count' = count + 1
    <3>1. Counted2 = Counted \cup {c} /\ c \notin Counted
      BY <1>1, <2>1 DEF Uncounted
    <3> QED
      BY <1>2, <1>3, <2>1, <3>1, FS_AddElement
  <2>2. CASE task[c].pc \notin Uncounted /\ new.pc = "over" /\ count' = count - 1
    <3>1. Counted2 = Counted \ {c} /\ c \in Counted
      BY <1>1, <2>2 DEF Uncounted
    <3> QED
      BY <1>2, <1>3, <2>2, <3>1, FS_RemoveElement
  <2>3. CASE task[c].pc \notin Uncounted /\ new.pc \notin Uncounted /\ count' = count
    <3>1. Counted2 = Counted
      BY <1>1, <2>3
    <3> QED
      BY <1>3, <2>3, <3>1
  <2> QED
    BY <2>1, <2>2, <2>3 DEF CountMoves
<1> QED
  BY <1>4 DEF ConnectionsCounted, Uncounted

LEMMA CountStep ==
    ASSUME TypeOK, NamesRoot, Resting, Queued, HandlesBorn, ConnectionsCounted, Next
    PROVE  ConnectionsCounted'
<1> USE DEF At
<1>1. ASSUME NEW c \in Conn, Ordinary(c) PROVE ConnectionsCounted'
  BY <1>1, OrdinaryTurns, CountChanges DEF OrdinaryTask
<1>2. ASSUME NEW c \in Conn, NEW a \in Actor, Spawn(c, a) \/ Send(c, a) PROVE ConnectionsCounted'
  <2>1. task[c].pc \notin Uncounted /\ count' = count
    BY <1>2 DEF Spawn, Send, Uncounted
  <2>2. \E new : Turns(c, new) /\ new.pc \notin Uncounted
    BY <1>2, SpawnTurns, SendTurns DEF Uncounted
  <2> QED
    BY <2>1, <2>2, CountChanges DEF CountMoves
<1>3. ASSUME NEW c \in Conn, Insert(c) \/ StopRemoved(c) \/ Remove(c) PROVE ConnectionsCounted'
  <2>1. task[c].pc \notin Uncounted /\ count' = count
    BY <1>3 DEF Insert, StopRemoved, Remove, Uncounted
  <2>2. CASE Rests(c, "ready")
    BY <2>1, <2>2, RestsTurns, FreshParts, CountChanges DEF CountMoves, Uncounted, Pcs
  <2>3. CASE Remove(c)
    <3>1. \E new : Turns(c, new) /\ new.pc \notin Uncounted
      BY <2>3, RemoveTurns DEF Uncounted
    <3> QED
      BY <2>1, <3>1, CountChanges DEF CountMoves
  <2> QED
    BY <1>3, <2>2, <2>3 DEF Insert, StopRemoved
<1>4. ASSUME NEW a \in Actor, Answer(a) PROVE ConnectionsCounted'
  <2>1. count' = count
    BY <1>4 DEF Answer
  <2>2. CASE UNCHANGED task
    BY <2>1, <2>2, CountStays
  <2>3. ASSUME NEW c \in Conn, Awaits(c, a), NEW new, Turns(c, new), new.pc \in {"ready", "send"}
        PROVE  ConnectionsCounted'
    BY <2>1, <2>3, CountChanges DEF CountMoves, Uncounted, Awaits
  <2> QED
    BY <1>4, <2>2, <2>3, AnswerTurns
<1>5. CASE UNCHANGED <<task, count>>
  BY <1>5, CountStays
<1>6. CASE Exit
  <2>1. {c \in Conn : task'[c].pc \notin {"away", "over"}} = {} /\ count' = 0
    BY <1>6 DEF Exit, Fresh
  <2> QED
    BY <2>1, FS_EmptySet DEF ConnectionsCounted
<1>7. ASSUME NEW c \in Conn, Proceed(c) \/ Ask(c) PROVE ConnectionsCounted'
  BY <1>1, <1>2, <1>3, <1>7 DEF Proceed, Ask, Ordinary
<1> QED
  BY <1>4, <1>5, <1>6, <1>7
     DEF Next, ActorStep, ServeStep, Receive, WatcherAsks, IdleCount, IdleRoots, IdleStop,
         Notified, TellAll, Tell, Ended, vars, tasks

LEMMA CountTyped == \A S \in SUBSET Conn : Cardinality(S) \in 0 .. Cardinality(Conn)
<1> SUFFICES ASSUME NEW S \in SUBSET Conn PROVE Cardinality(S) \in 0 .. Cardinality(Conn)
  OBVIOUS
<1>1. IsFiniteSet(Conn) /\ IsFiniteSet(S)
  BY DaemonAssumption, FS_Subset
<1>2. Cardinality(S) \in Nat /\ Cardinality(Conn) \in Nat /\ Cardinality(S) <= Cardinality(Conn)
  BY <1>1, FS_Subset, FS_CardinalityType
<1> QED
  BY <1>2

LEMMA TypeStep ==
    ASSUME TypeOK, NamesRoot, Resting, Queued, HandlesBorn, Next, count' \in 0 .. Cardinality(Conn)
    PROVE  TypeOK'
<1> DEFINE Others == /\ roots' \in [Root -> Actor \cup {Nobody}] /\ writer' \in Conn \cup {Nobody}
                     /\ told' \subseteq Actor /\ signal' \in BOOLEAN
                     /\ idle' \in [pc : {"sleep", "counted", "done"}, since : BOOLEAN, stop : BOOLEAN]
                     /\ serve' \in [pc : {"accepting", "stopping", "telling", "ended"}, todo : SUBSET Actor]
           TaskTyped == task' \in [Conn -> TaskState]
           ActorTyped == /\ actor' \in [Actor -> ActorState]
                         /\ \A a \in Actor : Len(actor'[a].mailbox) <= MailboxCap
<1> SUFFICES TaskTyped /\ ActorTyped /\ Others
  BY DEF TypeOK
<1>0. /\ UNCHANGED actor => ActorTyped
      /\ UNCHANGED task => TaskTyped
      /\ UNCHANGED <<roots, writer, told, signal, idle, serve>> => Others
  BY DEF TypeOK
<1>1. ASSUME NEW c \in Conn, Ordinary(c) PROVE TaskTyped /\ ActorTyped /\ Others
  <2>1. TaskTyped
    BY <1>1, OrdinaryTurns, TurnsTyped DEF OrdinaryTask
  <2>2. UNCHANGED <<roots, writer, actor, told, idle, serve>> /\ signal' \in {TRUE, signal}
    BY <1>1, OrdinaryKeeps
  <2> QED
    BY <1>0, <2>1, <2>2 DEF TypeOK
<1>2. ASSUME NEW c \in Conn, NEW a \in Actor, Spawn(c, a) PROVE TaskTyped /\ ActorTyped /\ Others
  <2>1. TaskTyped
    BY <1>2, SpawnTurns, TurnsTyped
  <2>2. ActorTyped
    BY <1>2, SpawnEffect, Actors
  <2> QED
    BY <1>0, <1>2, <2>1, <2>2 DEF Spawn, registry, ending
<1>3. ASSUME NEW c \in Conn, Insert(c) PROVE TaskTyped /\ ActorTyped /\ Others
  <2>1. TaskTyped
    BY <1>3, RestsTurns, TurnsTyped DEF Insert, Pcs
  <2>2. roots' \in [Root -> Actor \cup {Nobody}]
    BY <1>3, Tasks DEF Insert, TypeOK
  <2> QED
    BY <1>0, <1>3, <2>1, <2>2 DEF Insert, actors, ending, TypeOK
<1>4. ASSUME NEW c \in Conn, Remove(c) PROVE TaskTyped /\ ActorTyped /\ Others
  <2>1. TaskTyped
    BY <1>4, RemoveTurns, TurnsTyped
  <2>2. roots' \in [Root -> Actor \cup {Nobody}] /\ writer' \in Conn \cup {Nobody}
    BY <1>4 DEF Remove, TypeOK
  <2> QED
    BY <1>0, <1>4, <2>1, <2>2 DEF Remove, actors, ending, TypeOK
<1>5. ASSUME NEW c \in Conn, StopRemoved(c), task[c].actor \in Actor PROVE TaskTyped /\ ActorTyped /\ Others
  <2>1. TaskTyped
    BY <1>5, RestsTurns, TurnsTyped DEF StopRemoved, Pcs
  <2>2. ActorTyped
    BY <1>5, SentEffect DEF StopRemoved, ShutsDown, Sender
  <2> QED
    BY <1>0, <1>5, <2>1, <2>2 DEF StopRemoved, ShutsDown, ending, TypeOK
<1>6. ASSUME NEW c \in Conn, NEW a \in Actor, Send(c, a) PROVE TaskTyped /\ ActorTyped /\ Others
  <2>1. TaskTyped
    BY <1>6, SendTurns, TurnsTyped
  <2>2. ActorTyped
    BY <1>6, SentEffect DEF Send, Sender
  <2> QED
    BY <1>0, <1>6, <2>1, <2>2 DEF Send, registry, ending
<1>7. ASSUME NEW a \in Actor, Receive(a) PROVE TaskTyped /\ ActorTyped /\ Others
  <2>1. ActorTyped
    BY <1>7, ReceiveEffect, Actors
  <2> QED
    BY <1>0, <1>7, <2>1 DEF Receive, tasks, registry, ending
<1>8. ASSUME NEW a \in Actor, Answer(a) PROVE TaskTyped /\ ActorTyped /\ Others
  <2>1. ActorTyped
    BY <1>8, AnswerEffect, Actors
  <2>2. TaskTyped
    BY <1>0, <1>8, AnswerTurns, TurnsTyped
  <2> QED
    BY <1>0, <1>8, <2>1, <2>2 DEF Answer, registry, ending
<1>9. ASSUME NEW a \in Actor, WatcherAsks(a) PROVE TaskTyped /\ ActorTyped /\ Others
  <2>1. ActorTyped
    BY <1>9, SentEffect DEF WatcherAsks, Sender
  <2> QED
    BY <1>0, <1>9, <2>1 DEF WatcherAsks, tasks, registry, ending
<1>10. CASE IdleCount \/ IdleRoots \/ IdleStop
  <2>1. idle' \in [pc : {"sleep", "counted", "done"}, since : BOOLEAN, stop : BOOLEAN]
    <3>1. CASE IdleCount
      BY <3>1 DEF IdleCount, TypeOK
    <3>2. CASE IdleRoots
      BY <3>2 DEF IdleRoots, TypeOK
    <3>3. CASE IdleStop
      BY <3>3 DEF IdleStop, TypeOK
    <3> QED
      BY <1>10, <3>1, <3>2, <3>3
  <2> QED
    BY <1>0, <1>10, <2>1 DEF IdleCount, IdleRoots, IdleStop, tasks, registry, actors, TypeOK
<1>11. CASE Notified \/ TellAll
  <2>1. Registered \subseteq Actor
    BY DEF Registered, TypeOK
  <2>2. serve' \in [pc : {"accepting", "stopping", "telling", "ended"}, todo : SUBSET Actor]
    BY <1>11, <2>1 DEF Notified, TellAll, TypeOK
  <2> QED
    BY <1>0, <1>11, <2>2 DEF Notified, TellAll, tasks, registry, actors, TypeOK
<1>12. ASSUME NEW a \in Actor, Tell(a) PROVE TaskTyped /\ ActorTyped /\ Others
  <2>1. ActorTyped
    BY <1>12, SentEffect DEF Tell, ShutsDown, Sender
  <2>2. serve' \in [pc : {"accepting", "stopping", "telling", "ended"}, todo : SUBSET Actor]
    BY <1>12 DEF Tell, TypeOK
  <2> QED
    BY <1>0, <1>12, <2>1, <2>2 DEF Tell, ShutsDown, tasks, registry, TypeOK
<1>13. CASE Exit
  <2>1. TaskTyped
    BY <1>13, FreshTyped DEF Exit, Pcs
  <2>2. ActorTyped
    BY <1>13, DaemonAssumption DEF Exit, NoActor, ActorState
  <2>3. serve' \in [pc : {"accepting", "stopping", "telling", "ended"}, todo : SUBSET Actor]
    BY <1>13 DEF Exit, TypeOK
  <2>4. roots' \in [Root -> Actor \cup {Nobody}] /\ writer' \in Conn \cup {Nobody} /\ told' \subseteq Actor
    BY <1>13 DEF Exit
  <2>5. signal' \in BOOLEAN
    BY <1>13, Zenon DEF Exit
  <2>6. idle' \in [pc : {"sleep", "counted", "done"}, since : BOOLEAN, stop : BOOLEAN]
    BY <1>13 DEF Exit
  <2> QED
    BY <2>1, <2>2, <2>3, <2>4, <2>5, <2>6
<1>14. CASE Ended
  <2>1. UNCHANGED <<task, actor, roots, writer, told, signal, idle, serve>>
    BY <1>14 DEF Ended, vars, tasks, registry, actors, ending
  <2> HIDE DEF TaskTyped, ActorTyped, Others
  <2> QED
    BY <1>0, <2>1
<1>15. \A c \in Conn : StopRemoved(c) => task[c].actor \in Actor
  BY DEF HandlesBorn, Holds, StopRemoved, At
<1> HIDE DEF TaskTyped, ActorTyped, Others
<1>16. ASSUME NEW c \in Conn, Proceed(c) \/ Ask(c) PROVE TaskTyped /\ ActorTyped /\ Others
  BY <1>1, <1>2, <1>3, <1>4, <1>5, <1>6, <1>15, <1>16 DEF Proceed, Ask, Ordinary
<1>17. ASSUME NEW a \in Actor, ActorStep(a) \/ WatcherAsks(a) PROVE TaskTyped /\ ActorTyped /\ Others
  BY <1>7, <1>8, <1>9, <1>17 DEF ActorStep
<1>18. CASE ServeStep
  BY <1>11, <1>12, <1>13, <1>18 DEF ServeStep
<1> QED
  BY <1>10, <1>14, <1>16, <1>17, <1>18 DEF Next

-----------------------------------------------------------------------------
(* Commands and handles: one lemma per action.                             *)

HandlesInv == NamesRoot /\ Resting /\ Queued /\ HandlesBorn /\ OneHandle /\ ToldToStop

\* Nobody has a command of a connection that does not wait.
LEMMA NotInHand ==
    ASSUME TypeOK, Resting, Queued, NEW c \in Conn,
           task[c].pc = "await" => actor[task[c].actor].pc = "gone"
    PROVE  \A a \in Actor : /\ actor[a].serving # c
                            /\ \A i \in DOMAIN actor[a].mailbox : actor[a].mailbox[i] # c
<1> SUFFICES ASSUME NEW a \in Actor,
                    actor[a].serving = c \/ \E i \in DOMAIN actor[a].mailbox : actor[a].mailbox[i] = c
             PROVE  FALSE
  OBVIOUS
<1>1. Awaits(c, a)
  BY DEF Queued
<1>2. actor[a].pc = "gone"
  BY <1>1 DEF Awaits
<1>3. actor[a].mailbox = <<>> /\ actor[a].serving = Nobody
  BY <1>2 DEF Resting
<1> QED
  BY <1>3, DaemonAssumption

\* A task turns to something else and the actors do not move.
LEMMA QueuedTurns ==
    ASSUME TypeOK, Resting, Queued, NEW c \in Conn, NEW new, Turns(c, new), UNCHANGED actor,
           task[c].pc = "await" => actor[task[c].actor].pc = "gone"
    PROVE  Queued' /\ Resting'
<1>1. Resting'
  BY DEF Resting
<1>2. \A d \in Conn, a \in Actor : d # c /\ Awaits(d, a) => Awaits(d, a)'
  BY TurnsTyped DEF Awaits
<1>3. Queued'
  BY <1>2, NotInHand DEF Queued
<1> QED
  BY <1>1, <1>3

LEMMA NamesRootTurns ==
    ASSUME TypeOK, NamesRoot, NEW c \in Conn, NEW new, Turns(c, new),
           new.pc \in {"lookup", "build", "insert", "remove"} => new.root \in Root
    PROVE  NamesRoot'
  BY TurnsTyped DEF NamesRoot

LEMMA HandlesOrdinary ==
    ASSUME TypeOK, HandlesInv, NEW c \in Conn, Ordinary(c) PROVE HandlesInv'
<1> USE DEF HandlesInv
<1>1. PICK new : OrdinaryTask(c, new)
  BY OrdinaryTurns
<1>2. task'[c] = new /\ \A d \in Conn \ {c} : task'[d] = task[d]
  BY <1>1, TurnsTyped DEF OrdinaryTask
<1>3. /\ UNCHANGED <<roots, actor, told, serve>> /\ ~Holds(c)
      /\ task[c].pc = "await" => actor[task[c].actor].pc = "gone"
      /\ Registered' = Registered /\ Unborn' = Unborn
  BY OrdinaryKeeps DEF Registered, Unborn
<1>4. NamesRoot'
  BY <1>1, NamesRootTurns DEF OrdinaryTask
<1>5. Queued' /\ Resting'
  BY <1>1, <1>3, QueuedTurns DEF OrdinaryTask
<1>6. \A d \in Conn : Holds(d)' => Holds(d) /\ task'[d] = task[d]
  BY <1>1, <1>2 DEF OrdinaryTask, Holds
<1>7. HandlesBorn'
  BY <1>1, <1>2, <1>3, <1>6 DEF OrdinaryTask, HandlesBorn
<1>8. OneHandle'
  BY <1>3, <1>6 DEF OneHandle
<1>9. ToldToStop'
  BY <1>3, <1>6 DEF ToldToStop, Holds
<1> QED
  BY <1>4, <1>5, <1>7, <1>8, <1>9

\* The new actor is nobody's yet.
LEMMA HandlesSpawn ==
    ASSUME TypeOK, HandlesInv, NEW c \in Conn, NEW a \in Actor, Spawn(c, a) PROVE HandlesInv'
<1> USE DEF HandlesInv
<1>1. PICK new : /\ Turns(c, new) /\ new.pc = "insert" /\ new.actor = a
                 /\ new.todo = task[c].todo /\ new.root = task[c].root
  BY SpawnTurns
<1>2. task'[c] = new /\ \A d \in Conn \ {c} : task'[d] = task[d]
  BY <1>1, TurnsTyped
<1>3. /\ UNCHANGED <<roots, told, serve>> /\ task[c].pc = "build"
      /\ Registered' = Registered /\ Unborn' = Unborn \ {a} /\ a \in Unborn
  <2>1. /\ UNCHANGED <<roots, told, serve>> /\ task[c].pc = "build" /\ a \in Unborn
    BY DEF Spawn, At, registry, ending
  <2>2. actor'[a].pc # "unborn" /\ \A b \in Actor \ {a} : actor'[b].pc = actor[b].pc
    BY SpawnEffect
  <2> QED
    BY <2>1, <2>2 DEF Registered, Unborn
<1>4. NamesRoot'
  BY <1>1, <1>3, NamesRootTurns DEF NamesRoot
<1>5. Resting'
  BY SpawnEffect DEF Resting
<1>6. Queued'
  <2>1. \A d \in Conn, b \in Actor : Awaits(d, b) => Awaits(d, b)'
    BY <1>2, <1>3 DEF Awaits
  <2>2. \A b \in Actor : actor'[b].serving = actor[b].serving /\ actor'[b].mailbox = actor[b].mailbox
    BY SpawnEffect
  <2> QED
    BY <2>1, <2>2 DEF Queued
<1>7. \A d \in Conn \ {c} : Holds(d)' = Holds(d)
  BY <1>2 DEF Holds
<1>8. HandlesBorn'
  BY <1>1, <1>2, <1>3, <1>7 DEF HandlesBorn
<1>9. a \notin Registered /\ a \notin told /\ \A d \in Conn \ {c} : Holds(d) => task[d].actor # a
  BY <1>3 DEF HandlesBorn
<1>10. OneHandle'
  BY <1>1, <1>2, <1>3, <1>7, <1>9 DEF OneHandle
<1>11. ToldToStop'
  BY <1>1, <1>2, <1>3, <1>9, SpawnEffect DEF ToldToStop
<1> QED
  BY <1>4, <1>5, <1>6, <1>8, <1>10, <1>11

LEMMA HandlesInsert ==
    ASSUME TypeOK, HandlesInv, NEW c \in Conn, Insert(c) PROVE HandlesInv'
<1> USE DEF HandlesInv
<1>1. Turns(c, Fresh("ready")) /\ Fresh("ready").pc = "ready" /\ Fresh("ready").todo = {}
  BY RestsTurns, FreshParts DEF Insert, Pcs
<1>2. task'[c] = Fresh("ready") /\ \A d \in Conn \ {c} : task'[d] = task[d]
  BY <1>1, TurnsTyped
<1>3. /\ UNCHANGED <<actor, told, serve>> /\ task[c].pc = "insert" /\ Unborn' = Unborn
  BY DEF Insert, At, Unborn, actors, ending
<1> DEFINE r == task[c].root
           a == task[c].actor
<1>4. /\ r \in Root /\ Holds(c) /\ a \in Actor \ Unborn
      /\ roots' = [roots EXCEPT ![r] = a] /\ roots \in [Root -> Actor \cup {Nobody}]
  BY <1>3 DEF NamesRoot, Insert, TypeOK, Holds, HandlesBorn
<1>5. Registered' \subseteq Registered \cup {a}
  BY <1>4 DEF Registered
<1>6. \A d \in Conn : Holds(d)' => Holds(d) /\ d # c /\ task'[d] = task[d]
  BY <1>1, <1>2 DEF Holds
<1>7. NamesRoot' /\ Queued' /\ Resting'
  BY <1>1, <1>3, NamesRootTurns, QueuedTurns
<1>8. HandlesBorn'
  BY <1>1, <1>2, <1>3, <1>4, <1>5, <1>6 DEF HandlesBorn
<1>9. OneHandle'
  <2>1. \A s \in Root : roots[s] # a
    BY <1>4, DaemonAssumption DEF OneHandle, Registered, Actor
  <2>2. \A q, s \in Root : roots'[q] = roots'[s] /\ roots'[q] # Nobody => q = s
    BY <1>4, <2>1 DEF OneHandle
  <2>3. \A d \in Conn : Holds(d)' => task'[d].actor \notin Registered'
    BY <1>4, <1>5, <1>6 DEF OneHandle
  <2>4. \A d, e \in Conn : Holds(d)' /\ Holds(e)' /\ task'[d].actor = task'[e].actor => d = e
    BY <1>6 DEF OneHandle
  <2> QED
    BY <2>2, <2>3, <2>4 DEF OneHandle
<1>10. ToldToStop'
  <2>1. \A d \in Conn : task'[d].pc = "insert" => task[d].pc = "insert" /\ task'[d] = task[d]
    BY <1>1, <1>2
  <2>2. ASSUME serve.pc \in {"accepting", "stopping"}
        PROVE  /\ Registered' \cap told = {}
               /\ \A d \in Conn : task'[d].pc = "insert" => task'[d].actor \notin told
    BY <1>3, <1>5, <2>1, <2>2 DEF ToldToStop
  <2> QED
    BY <1>3, <2>2 DEF ToldToStop
<1> QED
  BY <1>7, <1>8, <1>9, <1>10

LEMMA HandlesRemove ==
    ASSUME TypeOK, HandlesInv, NEW c \in Conn, Remove(c) PROVE HandlesInv'
<1> USE DEF HandlesInv
<1> DEFINE r == task[c].root
           a == roots[r]
<1>1. PICK new : /\ Turns(c, new) /\ new.todo = {}
                 /\ \/ new.pc = "ready" /\ UNCHANGED roots
                    \/ new.pc = "stop" /\ new.actor = a /\ a # Nobody
  BY RemoveTurns
<1>2. task'[c] = new /\ \A d \in Conn \ {c} : task'[d] = task[d]
  BY <1>1, TurnsTyped
<1>3. /\ UNCHANGED <<actor, told, serve>> /\ task[c].pc = "remove" /\ Unborn' = Unborn
  BY DEF Remove, At, Unborn, actors, ending
<1>4. /\ r \in Root /\ roots \in [Root -> Actor \cup {Nobody}]
      /\ roots' = [roots EXCEPT ![r] = Nobody]
  BY <1>3 DEF NamesRoot, Remove, TypeOK
<1>5. Registered' \subseteq Registered
  BY <1>4 DEF Registered
<1>6. \A d \in Conn \ {c} : Holds(d)' = Holds(d)
  BY <1>2 DEF Holds
<1>7. NamesRoot' /\ Queued' /\ Resting'
  BY <1>1, <1>3, NamesRootTurns, QueuedTurns
<1>8. Holds(c)' => a \in Registered /\ a \notin Registered' /\ task'[c].actor = a
  <2> SUFFICES ASSUME Holds(c)' PROVE a \in Registered /\ a \notin Registered' /\ new.actor = a
    BY <1>2
  <2>1. new.actor = a /\ a # Nobody
    BY <1>1, <1>2 DEF Holds
  <2>2. a \in Registered
    BY <1>4, <2>1 DEF Registered
  <2>3. \A s \in Root : roots'[s] # a
    BY <1>4, <2>1 DEF OneHandle
  <2> QED
    BY <2>1, <2>2, <2>3 DEF Registered
<1>9. HandlesBorn'
  <2>1. \A d \in Conn : task'[d].todo \cap Unborn = {}
    BY <1>1, <1>2 DEF HandlesBorn
  <2>2. a \in Registered => a \in Actor \ Unborn
    BY DEF HandlesBorn, Registered, TypeOK
  <2>3. \A d \in Conn : Holds(d)' => task'[d].actor \in Actor \ Unborn
    BY <1>2, <1>6, <1>8, <2>2 DEF HandlesBorn
  <2> QED
    BY <1>3, <1>5, <2>1, <2>3 DEF HandlesBorn
<1>10. OneHandle'
  <2>1. \A q, s \in Root : roots'[q] = roots'[s] /\ roots'[q] # Nobody => q = s
    BY <1>4 DEF OneHandle
  <2>2. \A d \in Conn : Holds(d)' => task'[d].actor \notin Registered'
    BY <1>2, <1>5, <1>6, <1>8 DEF OneHandle
  <2>3. \A d, e \in Conn : Holds(d)' /\ Holds(e)' /\ task'[d].actor = task'[e].actor => d = e
    BY <1>2, <1>6, <1>8 DEF OneHandle
  <2> QED
    BY <2>1, <2>2, <2>3 DEF OneHandle
<1>11. ToldToStop'
  <2>1. \A d \in Conn : task'[d].pc = "insert" => task[d].pc = "insert" /\ task'[d] = task[d]
    BY <1>1, <1>2
  <2> QED
    BY <1>3, <1>5, <2>1 DEF ToldToStop
<1> QED
  BY <1>7, <1>9, <1>10, <1>11

-----------------------------------------------------------------------------
LEMMA EndOfBox ==
    ASSUME NEW S, NEW box \in Seq(S), NEW from \in S
    PROVE  \A i \in DOMAIN Append(box, from) :
              \/ i \in DOMAIN box /\ Append(box, from)[i] = box[i]
              \/ i \notin DOMAIN box /\ i = Len(box) + 1 /\ Append(box, from)[i] = from
  OBVIOUS

\* A command joins the queue of an actor that was spawned.
LEMMA SentKeeps ==
    ASSUME TypeOK, Resting, NEW a \in Actor \ Unborn, NEW from \in Sender, Sent(a, from)
    PROVE  Resting' /\ Unborn' = Unborn
<1>1. Unborn' = Unborn
  BY SentEffect DEF Unborn
<1>2. Resting'
  <2> SUFFICES ASSUME NEW b \in Actor
               PROVE  /\ actor'[b].pc \in {"unborn", "gone"} => actor'[b].mailbox = <<>>
                      /\ actor'[b].pc = "work" <=> actor'[b].serving # Nobody
    BY DEF Resting
  <2>1. actor'[b].pc = actor[b].pc /\ actor'[b].serving = actor[b].serving
    BY SentEffect
  <2>2. actor[b].pc \in {"unborn", "gone"} => actor'[b].mailbox = actor[b].mailbox
    BY SentEffect DEF Unborn
  <2> QED
    BY <2>1, <2>2 DEF Resting
<1> QED
  BY <1>1, <1>2

LEMMA SentQueued ==
    ASSUME TypeOK, Queued, NEW a \in Actor, NEW from \in Sender, Sent(a, from),
           \A d \in Conn, b \in Actor : Awaits(d, b) => Awaits(d, b)',
           from \in Conn => /\ Awaits(from, a)'
                            /\ actor[a].serving # from
                            /\ \A i \in DOMAIN actor[a].mailbox : actor[a].mailbox[i] # from
    PROVE  Queued'
<1> DEFINE Waits(d, b) == task'[d].pc = "await" /\ task'[d].actor = b
<1>0. /\ \A d \in Conn, b \in Actor : Awaits(d, b) => Waits(d, b)
      /\ from \in Conn => Waits(from, a)
  BY DEF Awaits
<1> HIDE DEF Waits
<1>1. ASSUME NEW b \in Actor
      PROVE  LET box == actor'[b].mailbox
                 serving == actor'[b].serving IN
             /\ serving \in Conn => Waits(serving, b)
             /\ \A i \in DOMAIN box : box[i] \in Conn => Waits(box[i], b) /\ box[i] # serving
             /\ \A i, j \in DOMAIN box : box[i] \in Conn /\ box[i] = box[j] => i = j
  <2> DEFINE box == actor'[b].mailbox
             old == actor[b].mailbox
  <2>1. actor'[b].serving = actor[b].serving
    BY SentEffect
  <2>2. \/ box = old
        \/ /\ b = a
           /\ \A i \in DOMAIN box : \/ i \in DOMAIN old /\ box[i] = old[i]
                                    \/ i \notin DOMAIN old /\ i = Len(old) + 1 /\ box[i] = from
    <3>1. box = old \/ (b = a /\ box = Append(old, from))
      BY SentEffect
    <3>2. old \in Seq(Sender)
      BY Actors
    <3> HIDE DEF box, old
    <3> QED
      BY <3>1, <3>2, EndOfBox
  <2>3. /\ actor[b].serving \in Conn => Waits(actor[b].serving, b)
        /\ \A i \in DOMAIN old : old[i] \in Conn => Waits(old[i], b) /\ old[i] # actor[b].serving
        /\ \A i, j \in DOMAIN old : old[i] \in Conn /\ old[i] = old[j] => i = j
    BY <1>0 DEF Queued
  <2>4. b = a /\ from \in Conn => /\ actor[b].serving # from
                                 /\ \A i \in DOMAIN old : old[i] # from
    OBVIOUS
  <2> HIDE DEF box, old
  <2>5. \A i \in DOMAIN box : box[i] \in Conn => Waits(box[i], b) /\ box[i] # actor[b].serving
    BY <1>0, <2>2, <2>3, <2>4
  <2>6. \A i, j \in DOMAIN box : box[i] \in Conn /\ box[i] = box[j] => i = j
    BY <2>2, <2>3, <2>4
  <2> QED
    BY <2>1, <2>3, <2>5, <2>6 DEF box
<1> QED
  BY <1>1 DEF Queued, Awaits, Waits

LEMMA SentTold ==
    ASSUME TypeOK, ToldToStop, NEW a \in Actor, NEW from \in Sender, Sent(a, from),
           told \subseteq told', from = "shutdown" => a \in told'
    PROVE  \A b \in Actor \ told' :
              /\ actor'[b].pc # "gone"
              /\ \A i \in DOMAIN actor'[b].mailbox : actor'[b].mailbox[i] # "shutdown"
<1> SUFFICES ASSUME NEW b \in Actor \ told'
             PROVE  /\ actor'[b].pc # "gone"
                    /\ \A i \in DOMAIN actor'[b].mailbox : actor'[b].mailbox[i] # "shutdown"
  OBVIOUS
<1>0. /\ b \in Actor /\ b \notin told
      /\ actor[b].pc # "gone"
      /\ \A i \in DOMAIN actor[b].mailbox : actor[b].mailbox[i] # "shutdown"
  BY DEF ToldToStop
<1>1. actor'[b].pc # "gone"
  BY <1>0, SentEffect
<1>2. CASE actor'[b].mailbox = actor[b].mailbox
  BY <1>0, <1>1, <1>2
<1>3. CASE b = a /\ actor'[b].mailbox = Append(actor[b].mailbox, from)
  <2>1. \A i \in DOMAIN actor'[b].mailbox :
           \/ i \in DOMAIN actor[b].mailbox /\ actor'[b].mailbox[i] = actor[b].mailbox[i]
           \/ actor'[b].mailbox[i] = from
    BY <1>0, <1>3, Actors, EndOfBox
  <2>2. from # "shutdown"
    BY <1>3
  <2> QED
    BY <1>0, <1>1, <2>1, <2>2
<1> QED
  BY <1>0, <1>2, <1>3, SentEffect

LEMMA HandlesStop ==
    ASSUME TypeOK, HandlesInv, NEW c \in Conn, StopRemoved(c) PROVE HandlesInv'
<1> USE DEF HandlesInv
<1> DEFINE a == task[c].actor
<1>1. Turns(c, Fresh("ready")) /\ Fresh("ready").pc = "ready" /\ Fresh("ready").todo = {}
  BY RestsTurns, FreshParts DEF StopRemoved, Pcs
<1>2. task'[c] = Fresh("ready") /\ \A d \in Conn \ {c} : task'[d] = task[d]
  BY <1>1, TurnsTyped
<1>3. /\ UNCHANGED <<roots, serve>> /\ task[c].pc = "stop" /\ Registered' = Registered
      /\ told' = told \cup {a} /\ Sent(a, "shutdown")
  BY DEF StopRemoved, ShutsDown, At, Registered, ending
<1>4. Holds(c) /\ a \in Actor \ Unborn /\ "shutdown" \in Sender
  BY <1>3 DEF Holds, HandlesBorn, Sender
<1>5. \A d \in Conn : Holds(d)' => Holds(d) /\ d # c /\ task'[d] = task[d]
  BY <1>1, <1>2 DEF Holds
<1>6. NamesRoot'
  BY <1>1, NamesRootTurns
<1>7. Resting' /\ Unborn' = Unborn
  BY <1>3, <1>4, SentKeeps
<1>8. Queued'
  <2>1. \A d \in Conn, b \in Actor : Awaits(d, b) => Awaits(d, b)'
    BY <1>2, <1>3 DEF Awaits
  <2>2. "shutdown" \notin Conn
    BY DaemonAssumption
  <2> QED
    BY <1>3, <1>4, <2>1, <2>2, SentQueued
<1>9. HandlesBorn'
  BY <1>1, <1>2, <1>3, <1>4, <1>5, <1>7 DEF HandlesBorn
<1>10. OneHandle'
  BY <1>3, <1>5 DEF OneHandle
<1>11. ToldToStop'
  <2>1. a \notin Registered /\ \A d \in Conn : Holds(d)' => task'[d].actor # a
    BY <1>4, <1>5 DEF OneHandle
  <2>2. \A d \in Conn : task'[d].pc = "insert" => task[d].pc = "insert" /\ task'[d] = task[d] /\ Holds(d)'
    BY <1>1, <1>2 DEF Holds
  <2>3. serve.pc \in {"accepting", "stopping"} =>
           /\ Registered' \cap told' = {}
           /\ \A d \in Conn : task'[d].pc = "insert" => task'[d].actor \notin told'
    BY <1>3, <2>1, <2>2 DEF ToldToStop
  <2>4. \A b \in Actor \ told' :
           /\ actor'[b].pc # "gone"
           /\ \A i \in DOMAIN actor'[b].mailbox : actor'[b].mailbox[i] # "shutdown"
    BY <1>3, <1>4, SentTold
  <2> QED
    BY <1>3, <2>3, <2>4 DEF ToldToStop
<1> QED
  BY <1>6, <1>7, <1>8, <1>9, <1>10, <1>11

LEMMA HandlesSend ==
    ASSUME TypeOK, HandlesInv, NEW c \in Conn, NEW a \in Actor, Send(c, a) PROVE HandlesInv'
<1> USE DEF HandlesInv
<1>1. PICK new : /\ Turns(c, new) /\ new.pc = "await" /\ new.actor = a
                 /\ new.todo = task[c].todo \ {a}
  BY SendTurns
<1>2. task'[c] = new /\ \A d \in Conn \ {c} : task'[d] = task[d]
  BY <1>1, TurnsTyped
<1>3. /\ UNCHANGED <<roots, told, serve>> /\ task[c].pc = "send" /\ Registered' = Registered
      /\ Sent(a, c) /\ a \in task[c].todo
  BY DEF Send, At, Registered, registry, ending
<1>4. a \in Actor \ Unborn /\ c \in Sender
  BY <1>3 DEF HandlesBorn, Sender
<1>5. \A d \in Conn : Holds(d)' => Holds(d) /\ task'[d] = task[d]
  BY <1>1, <1>2 DEF Holds
<1>6. NamesRoot'
  BY <1>1, NamesRootTurns
<1>7. Resting' /\ Unborn' = Unborn
  BY <1>3, <1>4, SentKeeps
<1>8. Queued'
  <2>1. \A d \in Conn, b \in Actor : Awaits(d, b) => Awaits(d, b)'
    BY <1>2, <1>3 DEF Awaits
  <2>2. Awaits(c, a)'
    BY <1>1, <1>2 DEF Awaits
  <2>3. /\ actor[a].serving # c
        /\ \A i \in DOMAIN actor[a].mailbox : actor[a].mailbox[i] # c
    BY <1>3, NotInHand
  <2> QED
    BY <1>3, <1>4, <2>1, <2>2, <2>3, SentQueued
<1>9. HandlesBorn'
  BY <1>1, <1>2, <1>3, <1>5, <1>7 DEF HandlesBorn
<1>10. OneHandle'
  BY <1>3, <1>5 DEF OneHandle
<1>11. ToldToStop'
  <2>1. \A d \in Conn : task'[d].pc = "insert" => task[d].pc = "insert" /\ task'[d] = task[d]
    BY <1>1, <1>2
  <2>2. c # "shutdown"
    BY DaemonAssumption
  <2>3. \A b \in Actor \ told' :
           /\ actor'[b].pc # "gone"
           /\ \A i \in DOMAIN actor'[b].mailbox : actor'[b].mailbox[i] # "shutdown"
    BY <1>3, <1>4, <2>2, SentTold
  <2> QED
    BY <1>3, <2>1, <2>3 DEF ToldToStop
<1> QED
  BY <1>6, <1>7, <1>8, <1>9, <1>10, <1>11

\* The watcher of an actor, or shutdown_all, sends; no task moves.
LEMMA HandlesSent ==
    ASSUME TypeOK, HandlesInv, NEW a \in Actor, WatcherAsks(a) \/ Tell(a) PROVE HandlesInv'
<1> USE DEF HandlesInv
<1>1. /\ UNCHANGED <<task, roots>> /\ Registered' = Registered
      /\ \A d \in Conn : Holds(d)' = Holds(d)
  BY DEF WatcherAsks, Tell, tasks, registry, Registered, Holds
<1>2. PICK from \in {"watcher", "shutdown"} :
         Sent(a, from) /\ told \subseteq told' /\ (from = "shutdown" => a \in told')
  BY DEF WatcherAsks, Tell, ShutsDown
<1>3. a \in Actor \ Unborn /\ serve'.todo \subseteq serve.todo /\ told' \subseteq told \cup {a}
  BY DEF WatcherAsks, Tell, ShutsDown, HandlesBorn, ending, TypeOK
<1>4. from \in Sender /\ from \notin Conn
  BY DaemonAssumption DEF Sender
<1>5. NamesRoot' /\ OneHandle'
  BY <1>1 DEF NamesRoot, OneHandle
<1>6. Resting' /\ Unborn' = Unborn
  BY <1>2, <1>3, <1>4, SentKeeps
<1>7. Queued'
  <2>1. \A d \in Conn, b \in Actor : Awaits(d, b) => Awaits(d, b)'
    BY <1>1 DEF Awaits
  <2> QED
    BY <1>2, <1>3, <1>4, <2>1, SentQueued
<1>8. HandlesBorn'
  BY <1>1, <1>3, <1>6 DEF HandlesBorn
<1>9. ToldToStop'
  <2>1. \A b \in Actor \ told' :
           /\ actor'[b].pc # "gone"
           /\ \A i \in DOMAIN actor'[b].mailbox : actor'[b].mailbox[i] # "shutdown"
    BY <1>2, <1>3, <1>4, SentTold
  <2>2. CASE WatcherAsks(a)
    BY <1>1, <2>1, <2>2 DEF ToldToStop, WatcherAsks, ending
  <2>3. CASE Tell(a)
    <3>1. serve'.pc = "telling"
      BY <2>3 DEF Tell, TypeOK
    <3> QED
      BY <2>1, <3>1 DEF ToldToStop
  <2> QED
    BY <2>2, <2>3
<1> QED
  BY <1>5, <1>6, <1>7, <1>8, <1>9

LEMMA HandlesReceive ==
    ASSUME TypeOK, HandlesInv, NEW a \in Actor, Receive(a) PROVE HandlesInv'
<1> USE DEF HandlesInv
<1> DEFINE box == actor[a].mailbox
<1>1. /\ UNCHANGED <<task, roots, told, serve>> /\ Registered' = Registered
      /\ \A d \in Conn : Holds(d)' = Holds(d)
  BY DEF Receive, tasks, registry, ending, Registered, Holds
<1>2. /\ \A b \in Actor \ {a} : actor'[b] = actor[b]
      /\ actor[a].pc = "recv" /\ box # <<>>
      /\ \/ /\ Head(box) = "shutdown" /\ actor'[a].pc = "gone"
            /\ actor'[a].serving = Nobody /\ actor'[a].mailbox = <<>>
         \/ /\ Head(box) # "shutdown" /\ actor'[a].pc = "work"
            /\ actor'[a].serving = Head(box) /\ actor'[a].mailbox = Tail(box)
  BY ReceiveEffect
<1>3. /\ 1 \in DOMAIN box /\ Head(box) = box[1] /\ Head(box) \in Sender
      /\ \A i \in DOMAIN Tail(box) : /\ i + 1 \in DOMAIN box /\ i + 1 # 1
                                     /\ Tail(box)[i] = box[i + 1]
      /\ \A i, j \in DOMAIN Tail(box) : i + 1 = j + 1 => i = j
  BY <1>2, Actors
<1>4. Unborn' = Unborn
  BY <1>2 DEF Unborn
<1>5. NamesRoot' /\ OneHandle'
  BY <1>1 DEF NamesRoot, OneHandle
<1>6. HandlesBorn'
  BY <1>1, <1>4 DEF HandlesBorn
<1>7. Resting'
  <2>1. Head(box) # "shutdown" => Head(box) # Nobody
    BY <1>3, DaemonAssumption DEF Sender
  <2> QED
    BY <1>2, <2>1 DEF Resting
<1>8. Queued'
  <2>1. /\ \A i \in DOMAIN box : box[i] \in Conn => Awaits(box[i], a)
        /\ \A i, j \in DOMAIN box : box[i] \in Conn /\ box[i] = box[j] => i = j
    BY DEF Queued
  <2>2. CASE Head(box) = "shutdown"
    <3>1. actor'[a].serving \notin Conn /\ actor'[a].mailbox = <<>>
      BY <1>2, <2>2, DaemonAssumption
    <3> QED
      BY <1>1, <1>2, <3>1 DEF Queued, Awaits
  <2>3. CASE Head(box) # "shutdown"
    <3>1. /\ box[1] \in Conn => Awaits(box[1], a)
          /\ \A i \in DOMAIN Tail(box) : Tail(box)[i] \in Conn =>
                Awaits(Tail(box)[i], a) /\ Tail(box)[i] # box[1]
          /\ \A i, j \in DOMAIN Tail(box) :
                Tail(box)[i] \in Conn /\ Tail(box)[i] = Tail(box)[j] => i = j
      BY <1>3, <2>1
    <3>2. actor'[a].serving = box[1] /\ actor'[a].mailbox = Tail(box)
      BY <1>2, <1>3, <2>3
    <3>3. \A b \in Actor \ {a} : actor'[b].serving = actor[b].serving /\ actor'[b].mailbox = actor[b].mailbox
      BY <1>2
    <3>4. task' = task
      BY <1>1
    <3> DEFINE Fair(b) == LET old == actor'[b].mailbox
                              serving == actor'[b].serving IN
             /\ serving \in Conn => Awaits(serving, b)
             /\ \A i \in DOMAIN old : old[i] \in Conn => Awaits(old[i], b) /\ old[i] # serving
             /\ \A i, j \in DOMAIN old : old[i] \in Conn /\ old[i] = old[j] => i = j
    <3>5. Fair(a)
      BY <3>1, <3>2
    <3>6. \A b \in Actor \ {a} : Fair(b)
      BY <3>3 DEF Queued
    <3>7. \A b \in Actor : Fair(b)
      BY <3>5, <3>6
    <3> QED
      BY <3>4, <3>7 DEF Queued, Awaits
  <2> QED
    BY <2>2, <2>3
<1>9. ToldToStop'
  <2>1. Head(box) = "shutdown" => a \in told
    BY <1>3 DEF ToldToStop
  <2>2. ASSUME NEW b \in Actor, b \notin told
        PROVE  /\ actor'[b].pc # "gone"
               /\ \A i \in DOMAIN actor'[b].mailbox : actor'[b].mailbox[i] # "shutdown"
    <3>1. /\ actor[b].pc # "gone"
          /\ \A i \in DOMAIN actor[b].mailbox : actor[b].mailbox[i] # "shutdown"
      BY <2>2 DEF ToldToStop
    <3>2. CASE b # a
      BY <1>2, <3>1, <3>2
    <3>3. CASE b = a
      <4>1. actor'[b].pc = "work" /\ actor'[b].mailbox = Tail(box)
        BY <1>2, <2>1, <2>2, <3>3
      <4> QED
        BY <1>3, <3>1, <3>3, <4>1
    <3> QED
      BY <3>2, <3>3
  <2> QED
    BY <1>1, <2>2 DEF ToldToStop
<1> QED
  BY <1>5, <1>6, <1>7, <1>8, <1>9

LEMMA HandlesAnswer ==
    ASSUME TypeOK, HandlesInv, NEW a \in Actor, Answer(a) PROVE HandlesInv'
<1> USE DEF HandlesInv
<1> DEFINE c == actor[a].serving
<1>1. /\ UNCHANGED <<roots, told, serve>> /\ Registered' = Registered
      /\ \A b \in Actor \ {a} : actor'[b] = actor[b]
      /\ actor[a].pc = "work" /\ actor'[a].pc = "recv" /\ actor'[a].serving = Nobody
      /\ actor'[a].mailbox = actor[a].mailbox
  <2>1. UNCHANGED <<roots, told, serve>>
    BY DEF Answer, registry, ending
  <2>2. Registered' = Registered
    BY <2>1 DEF Registered
  <2> QED
    BY <2>1, <2>2, AnswerEffect
<1>2. Unborn' = Unborn
  BY <1>1 DEF Unborn
<1>3. /\ \A d \in Conn : /\ Holds(d)' <=> Holds(d)
                         /\ Holds(d) => task'[d] = task[d]
                         /\ task'[d].pc = "insert" <=> task[d].pc = "insert"
                         /\ task'[d].todo \subseteq task[d].todo
      /\ \A d \in Conn \ {c} : task'[d] = task[d]
      /\ NamesRoot'
  <2>1. CASE UNCHANGED task
    BY <2>1 DEF Holds, NamesRoot
  <2>2. CASE /\ c \in Conn /\ Awaits(c, a)
             /\ \E new : /\ Turns(c, new) /\ new.pc \in {"ready", "send"}
                         /\ new.todo \subseteq task[c].todo
    <3>1. PICK new : /\ Turns(c, new) /\ new.pc \in {"ready", "send"}
                     /\ new.todo \subseteq task[c].todo
      BY <2>2
    <3>2. task'[c] = new /\ (\A d \in Conn \ {c} : task'[d] = task[d]) /\ task[c].pc = "await"
      BY <2>2, <3>1, TurnsTyped DEF Awaits
    <3>3. NamesRoot'
      BY <2>2, <3>1, NamesRootTurns
    <3> HIDE DEF c
    <3> QED
      BY <3>1, <3>2, <3>3 DEF Holds
  <2> QED
    BY <2>1, <2>2, AnswerTurns
<1>4. Resting'
  BY <1>1 DEF Resting
<1>5. Queued'
  <2>1. \A d \in Conn \ {c}, b \in Actor : Awaits(d, b) => Awaits(d, b)'
    BY <1>3 DEF Awaits
  <2>2. \A b \in Actor : \A i \in DOMAIN actor[b].mailbox : actor[b].mailbox[i] \in Conn =>
           actor[b].mailbox[i] # c
    BY DEF Queued, Awaits
  <2>3. \A b \in Actor \ {a} : actor[b].serving \in Conn => actor[b].serving # c
    BY DEF Queued, Awaits
  <2>4. Nobody \notin Conn
    BY DaemonAssumption
  <2>5. \A b \in Actor : /\ actor'[b].mailbox = actor[b].mailbox
                         /\ actor'[b].serving = (IF b = a THEN Nobody ELSE actor[b].serving)
    BY <1>1
  <2> HIDE DEF c
  <2> QED
    BY <2>1, <2>2, <2>3, <2>4, <2>5 DEF Queued
<1>6. HandlesBorn'
  BY <1>1, <1>2, <1>3 DEF HandlesBorn
<1>7. OneHandle'
  BY <1>1, <1>3 DEF OneHandle
<1>8. ToldToStop'
  <2>1. \A d \in Conn : task'[d].pc = "insert" => task'[d] = task[d]
    BY <1>3 DEF Holds
  <2>2. \A b \in Actor : actor'[b].pc = "gone" => actor[b].pc = "gone"
    BY <1>1
  <2>3. \A b \in Actor : actor'[b].mailbox = actor[b].mailbox
    BY <1>1
  <2> QED
    BY <1>1, <1>3, <2>1, <2>2, <2>3 DEF ToldToStop
<1> QED
  BY <1>3, <1>4, <1>5, <1>6, <1>7, <1>8

\* Neither the idle task nor the accept loop touches tasks, handles or actors;
\* shutdown_all begins with those that are registered.
LEMMA HandlesServe ==
    ASSUME TypeOK, HandlesInv, IdleCount \/ IdleRoots \/ IdleStop \/ Notified \/ TellAll \/ Ended
    PROVE  HandlesInv'
<1> USE DEF HandlesInv
<1>1. UNCHANGED <<task, roots, actor, told>>
  BY DEF IdleCount, IdleRoots, IdleStop, Notified, TellAll, Ended, vars, tasks, registry, actors
<1>2. /\ serve'.todo \subseteq serve.todo \cup Registered
      /\ serve'.pc \in {"accepting", "stopping"} => serve.pc \in {"accepting", "stopping"}
  BY DEF IdleCount, IdleRoots, IdleStop, Notified, TellAll, Ended, vars, ending, TypeOK
<1>3. /\ Registered' = Registered /\ Unborn' = Unborn /\ \A c \in Conn : Holds(c)' = Holds(c)
  BY <1>1 DEF Registered, Unborn, Holds
<1>4. NamesRoot' /\ Resting' /\ Queued'
  BY <1>1 DEF NamesRoot, Resting, Queued, Awaits
<1>5. HandlesBorn' /\ OneHandle' /\ ToldToStop'
  BY <1>1, <1>2, <1>3 DEF HandlesBorn, OneHandle, ToldToStop
<1> QED
  BY <1>4, <1>5

LEMMA HandlesExit == ASSUME TypeOK, HandlesInv, Exit PROVE HandlesInv'
<1> USE DEF HandlesInv
<1>1. /\ \A c \in Conn : task'[c].pc = "over" /\ task'[c].todo = {}
      /\ \A a \in Actor : /\ actor'[a].pc = "unborn" /\ actor'[a].serving = Nobody
                          /\ actor'[a].mailbox = <<>>
      /\ \A r \in Root : roots'[r] = Nobody
      /\ told' = {}
  BY DEF Exit, Fresh, NoActor
<1>2. serve'.pc = "ended" /\ serve'.todo = {}
  BY DEF Exit, TypeOK
<1>3. Registered' = {} /\ \A c \in Conn : ~Holds(c)'
  BY <1>1 DEF Registered, Holds
<1>4. NamesRoot' /\ Resting' /\ Queued'
  BY <1>1, DaemonAssumption DEF NamesRoot, Resting, Queued
<1>5. HandlesBorn' /\ OneHandle' /\ ToldToStop'
  BY <1>1, <1>2, <1>3 DEF HandlesBorn, OneHandle, ToldToStop
<1> QED
  BY <1>4, <1>5

LEMMA HandlesStep == ASSUME TypeOK, HandlesInv, Next PROVE HandlesInv'
<1>1. ASSUME NEW c \in Conn, Proceed(c) \/ Ask(c) PROVE HandlesInv'
  BY <1>1, HandlesOrdinary, HandlesSpawn, HandlesInsert, HandlesRemove, HandlesStop, HandlesSend
     DEF Proceed, Ask, Ordinary
<1>2. ASSUME NEW a \in Actor, ActorStep(a) \/ WatcherAsks(a) PROVE HandlesInv'
  BY <1>2, HandlesReceive, HandlesAnswer, HandlesSent DEF ActorStep
<1>3. CASE ServeStep
  BY <1>3, HandlesServe, HandlesSent, HandlesExit DEF ServeStep
<1> QED
  BY <1>1, <1>2, <1>3, HandlesServe DEF Next

-----------------------------------------------------------------------------
LEMMA InitIInv == Init => IInv
<1> SUFFICES ASSUME Init PROVE IInv
  OBVIOUS
<1> USE DEF Init
<1>1. /\ \A c \in Conn : task[c] = Fresh("away") /\ task[c].pc = "away" /\ task[c].todo = {}
      /\ \A a \in Actor : /\ actor[a] = NoActor /\ actor[a].pc = "unborn"
                          /\ actor[a].serving = Nobody /\ actor[a].mailbox = <<>>
      /\ Registered = {} /\ told = {} /\ serve.todo = {}
  BY DEF Fresh, NoActor, Registered
<1>2. ConnectionsCounted
  <2>1. {c \in Conn : task[c].pc \notin {"away", "over"}} = {}
    BY <1>1
  <2> QED
    BY <2>1, FS_EmptySet DEF ConnectionsCounted
<1>3. TypeOK
  <2>1. task \in [Conn -> TaskState]
    BY FreshTyped DEF Pcs
  <2>2. count \in 0 .. Cardinality(Conn)
    BY <1>2, CountTyped, {c \in Conn : task[c].pc \notin {"away", "over"}} \in SUBSET Conn
       DEF ConnectionsCounted
  <2>3. roots \in [Root -> Actor \cup {Nobody}] /\ writer \in Conn \cup {Nobody} /\ told \subseteq Actor
    OBVIOUS
  <2>4. actor \in [Actor -> ActorState]
    BY DEF NoActor, ActorState
  <2>5. \A a \in Actor : Len(actor[a].mailbox) <= MailboxCap
    BY <1>1, DaemonAssumption
  <2>6. signal \in BOOLEAN
    BY Zenon
  <2>7. idle \in [pc : {"sleep", "counted", "done"}, since : BOOLEAN, stop : BOOLEAN]
    OBVIOUS
  <2>8. serve \in [pc : {"accepting", "stopping", "telling", "ended"}, todo : SUBSET Actor]
    OBVIOUS
  <2> HIDE DEF Init
  <2> QED
    BY <2>1, <2>2, <2>3, <2>4, <2>5, <2>6, <2>7, <2>8 DEF TypeOK
<1> HIDE DEF Init
<1>4. NamesRoot /\ Resting /\ Queued
  BY <1>1, DaemonAssumption DEF NamesRoot, Resting, Queued
<1>5. HandlesBorn /\ ToldToStop
  BY <1>1 DEF HandlesBorn, ToldToStop, Holds
<1>6. OneHandle
  <2>1. \A r \in Root : roots[r] = Nobody
    BY DEF Init
  <2> QED
    BY <1>1, <2>1 DEF OneHandle, Holds
<1> QED
  BY <1>2, <1>3, <1>4, <1>5, <1>6 DEF IInv

LEMMA NextIInv == IInv /\ [Next]_vars => IInv'
<1>1. ASSUME IInv, Next PROVE IInv'
  <2>1. HandlesInv'
    BY <1>1, HandlesStep DEF IInv, HandlesInv
  <2>2. ConnectionsCounted'
    BY <1>1, CountStep DEF IInv
  <2>3. count' \in 0 .. Cardinality(Conn)
    BY <2>2, CountTyped, {c \in Conn : task'[c].pc \notin {"away", "over"}} \in SUBSET Conn
       DEF ConnectionsCounted
  <2>4. TypeOK'
    BY <1>1, <2>3, TypeStep DEF IInv
  <2> QED
    BY <2>1, <2>2, <2>4 DEF IInv, HandlesInv
<1>2. ASSUME IInv, UNCHANGED vars PROVE IInv'
  <2>1. UNCHANGED <<task, count, roots, writer, actor, told, signal, idle, serve>>
    BY <1>2 DEF vars, tasks, registry, actors, ending
  <2>2. TypeOK' /\ ConnectionsCounted'
    <3>1. TypeOK /\ ConnectionsCounted
      BY <1>2 DEF IInv
    <3>2. ConnectionsCounted'
      BY <2>1, <3>1 DEF ConnectionsCounted
    <3>3. TypeOK'
      BY <2>1, <3>1 DEF TypeOK
    <3> QED
      BY <3>2, <3>3
  <2>3. HandlesInv'
    BY <1>2, <2>1 DEF IInv, HandlesInv, NamesRoot, Resting, Queued, Awaits, HandlesBorn, OneHandle,
                      ToldToStop, Holds, Registered, Unborn
  <2> QED
    BY <2>2, <2>3 DEF IInv, HandlesInv
<1> QED
  BY <1>1, <1>2

\* The invariant the theorems rest on: connections are counted, whoever has a
\* command in hand answers one that waits for it, and an actor has one handle.
THEOREM Invariance == Spec => []IInv
  BY InitIInv, NextIInv, PTL DEF Spec

\* Every variable of the daemon has its type, and no mailbox overflows.
THEOREM TypeCorrect == Spec => []TypeOK
<1>1. IInv => TypeOK
  BY DEF IInv
<1> QED
  BY <1>1, Invariance, PTL

\* The count the idle task trusts never misses a connection that is served
\* (handle_connection).
THEOREM CountIsExact == Spec => []ConnectionsCounted
<1>1. IInv => ConnectionsCounted
  BY DEF IInv
<1> QED
  BY <1>1, Invariance, PTL

\* As long as the daemon accepts, the actor of a registered root runs and has
\* not been told to stop (add_root, remove_root, shutdown_all).
THEOREM RegisteredServe == Spec => []RegisteredActorsServe
<1>1. IInv => RegisteredActorsServe
  <2> SUFFICES ASSUME IInv, serve.pc \in {"accepting", "stopping"}, NEW a \in Registered
               PROVE  a \notin told /\ actor[a].pc \in {"recv", "work"}
    BY DEF RegisteredActorsServe
  <2>1. a \in Actor /\ a \notin Unborn /\ a \notin told
    BY DEF IInv, HandlesBorn, ToldToStop, Registered, TypeOK
  <2>2. actor[a].pc \in {"unborn", "recv", "work", "gone"} /\ actor[a].pc # "unborn"
    BY <2>1, Actors DEF IInv, ActorState, Unborn
  <2> QED
    BY <2>1, <2>2 DEF IInv, ToldToStop
<1> QED
  BY <1>1, Invariance, PTL
=============================================================================
