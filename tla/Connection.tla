----------------------------- MODULE Connection -----------------------------
(***************************************************************************)
(* One client's connection while the server runs: Connection                *)
(* (src/src/connection.cpp), the Protocol bound to it (protocol.cpp,        *)
(* protocolgame.cpp) and the messages of OutputMessagePool                  *)
(* (outputmessage.cpp) that are addressed to it.                            *)
(*                                                                          *)
(* The io thread runs the handlers of asynchronous operations in the order  *)
(* in which these complete; the dispatcher's thread runs tasks in the order *)
(* in which they were added (module TaskQueue) and sendAll after each.  A   *)
(* step is one critical section of m_connectionLock together with what its  *)
(* thread does before or after it that the other cannot see.  The functions *)
(* that start an asynchronous operation are taken not to throw.             *)
(***************************************************************************)
EXTENDS Naturals, Sequences, FiniteSets, SequencesExt

CONSTANTS Messages,  \* the OutputMessages of the pool
          NoMsg,     \* nullptr
          MaxTasks   \* bound: the protocol's own tasks in the dispatcher's queue

(* login: ProtocolGame::login; proto: another task bound to the protocol    *)
(* itself (onConnect, logout, disconnectClient, getCharacterList); connect: *)
(* ProtocolGame::connect; close: closeConnectionTask; a message:            *)
(* internalReleaseMessage of it.                                            *)
OtherTasks == {"login", "proto", "connect", "close", "releaseConnection",
               "releaseProtocol"}

Tasks == OtherTasks \cup Messages

ASSUME MessageAssumption == NoMsg \notin Messages /\ OtherTasks \cap Messages = {}
ASSUME BoundAssumption == MaxTasks \in Nat \ {0}

VARIABLES
  conn,          \* m_connectionState
  registered,    \* is the connection in ConnectionManager::m_connections?
  socket,        \* m_socket: open, closed, or deleted and set to nullptr
  receivedFirst, \* m_receivedFirst
  readError,     \* m_readError
  writeError,    \* m_writeError
  pendingRead,   \* m_pendingRead
  pendingWrite,  \* m_pendingWrite
  refC,          \* m_refCount of the connection
  bound,         \* is m_protocol of the connection set?
  proto,         \* the Protocol object
  protoConn,     \* is m_connection of the protocol set?
  refP,          \* m_refCount of the protocol
  client,        \* is there a player whose client is this protocol?
  buffer,        \* m_outputBuffer of the protocol
  autoSend,      \* m_autoSendOutputMessages
  toAdd,         \* m_toAddQueue
  reading,       \* the asynchronous read that has not completed
  writing,       \* the messages whose asynchronous write has not completed
  readTimer,     \* is m_readTimer waiting?
  writeTimer,    \* is m_writeTimer waiting?
  ioQueue,       \* the completed operations whose handlers are to run
  dropping,      \* the message that a handler which has returned still holds
  tasks,         \* the tasks in the dispatcher's queue
  running,       \* the task the dispatcher's thread runs, if it is not in sendAll
  events         \* the scheduler's events

flags   == <<registered, receivedFirst, readError, writeError>>
pending == <<socket, pendingRead, pendingWrite>>
ops     == <<reading, writing>>
sock    == <<pending, ops>>
timers  == <<readTimer, writeTimer>>
io      == <<sock, timers, ioQueue, dropping>>
counts  == <<refC, refP>>
owner   == <<bound, proto, protoConn, client>>
pool    == <<buffer, autoSend, toAdd>>
objects == <<counts, owner, pool>>
thread  == <<running, events>>
vars    == <<conn, flags, io, objects, tasks, thread>>

ConnectionState == {"OPEN", "REQUEST_CLOSE", "CLOSING", "CLOSED"}

Completions == [op : {"header", "body"}, ok : BOOLEAN]
                 \cup [op : {"write"}, msg : Messages, ok : BOOLEAN]
                 \cup [op : {"readTimer", "writeTimer", "stop"}]

TypeOK ==
  /\ conn \in ConnectionState
  /\ socket \in {"open", "closed", "deleted"}
  /\ {registered, receivedFirst, readError, writeError, bound, protoConn, client,
      readTimer, writeTimer} \subseteq BOOLEAN
  /\ {pendingRead, pendingWrite} \subseteq {0, 1}
  /\ {refC, refP} \subseteq Nat
  /\ proto \in {"none", "alive", "releasing", "deleted"}
  /\ {buffer, dropping} \subseteq Messages \cup {NoMsg}
  /\ {autoSend, toAdd} \subseteq Seq(Messages)
  /\ reading \in {"none", "header", "body"}
  /\ writing \subseteq Messages
  /\ ioQueue \in Seq(Completions)
  /\ tasks \in Seq(Tasks)
  /\ running \in {"none", "game", "login", "proto", "connect", "done"}
  /\ events \subseteq {"connect", "releaseConnection", "releaseProtocol"}

(* acceptConnection: the first header is being read.  On a port whose       *)
(* service talks first the protocol exists and its onConnect is queued.     *)
Init ==
  /\ conn = "OPEN" /\ registered = TRUE /\ socket = "open"
  /\ receivedFirst = FALSE /\ readError = FALSE /\ writeError = FALSE
  /\ pendingRead = 1 /\ pendingWrite = 0 /\ refC = 0 /\ refP = 0
  /\ bound \in BOOLEAN
  /\ proto = (IF bound THEN "alive" ELSE "none")
  /\ protoConn = bound
  /\ tasks = (IF bound THEN <<"proto">> ELSE <<>>)
  /\ client = FALSE /\ buffer = NoMsg
  /\ autoSend = <<>> /\ toAdd = <<>>
  /\ reading = "header" /\ writing = {}
  /\ readTimer = TRUE /\ writeTimer = FALSE
  /\ ioQueue = <<>> /\ dropping = NoMsg
  /\ running = "none" /\ events = {}

-----------------------------------------------------------------------------
(* Where a message is, and how long the connection object lives.            *)

QueuedFree == Messages \cap Range(tasks)

Written == {ioQueue[i].msg : i \in {j \in DOMAIN ioQueue : ioQueue[j].op = "write"}}

Used == Range(autoSend) \cup Range(toAdd) \cup writing \cup Written \cup QueuedFree
          \cup ({dropping} \cap Messages)

Free == Messages \ Used

(* A shared_ptr to the connection exists: in m_connections, in the protocol,*)
(* in a message, or in the handler of a read or of a write.                 *)
ConnectionExists ==
  \/ registered
  \/ protoConn
  \/ Used # {}
  \/ reading # "none"
  \/ \E i \in DOMAIN ioQueue : ioQueue[i].op \in {"header", "body"}

-----------------------------------------------------------------------------
(* What several handlers of Connection call.                                *)

(* Mutant: a request to close is repeated.                                  *)
CloseConnectionAgain(more) ==
  IF conn \in {"OPEN", "REQUEST_CLOSE"}
    THEN conn' = "REQUEST_CLOSE" /\ tasks' = (tasks \o more) \o <<"close">>
    ELSE UNCHANGED conn /\ tasks' = tasks \o more

(* closeConnection(), whose caller also adds the tasks in more.             *)
CloseConnection(more) ==
  IF conn = "OPEN"
    THEN conn' = "REQUEST_CLOSE" /\ tasks' = (tasks \o more) \o <<"close">>
    ELSE UNCHANGED conn /\ tasks' = tasks \o more

Failed == (IF reading = "none" THEN <<>> ELSE <<[op |-> reading, ok |-> FALSE]>>)
            \o SetToSeq({[op |-> "write", msg |-> m, ok |-> FALSE] : m \in writing})

(* closeSocket(): what has not completed fails.  The io queue is before when*)
(* it is called, and its caller posts after.                                *)
CloseSocket(before, after) ==
  IF socket = "open"
    THEN /\ socket' = "closed"
         /\ pendingRead' = 0
         /\ pendingWrite' = 0
         /\ ioQueue' = before \o Failed \o after
         /\ reading' = "none"
         /\ writing' = {}
    ELSE /\ ioQueue' = before \o after
         /\ UNCHANGED <<sock>>

(* Mutant: only the protocol counts its messages.                           *)
ConfigureForProtocol(m) ==
  /\ m \in Free
  /\ refP' = refP + 1
  /\ UNCHANGED refC

(* configureOutputMessage: the message refers to protocol and connection.    *)
Configure(m) ==
  /\ m \in Free
  /\ refP' = refP + 1
  /\ refC' = refC + 1

(* getOutputBuffer, when the protocol has no buffer or a full one.          *)
NewBuffer(m) ==
  /\ Configure(m)
  /\ autoSend' = Append(autoSend, m)
  /\ buffer' = m

-----------------------------------------------------------------------------
(* The network and the clock.                                               *)

(* The header or the body that was asked for arrives, or the read fails.    *)
ReadCompletes(ok) ==
  /\ reading # "none"
  /\ ioQueue' = Append(ioQueue, [op |-> reading, ok |-> ok])
  /\ reading' = "none"
  /\ UNCHANGED <<conn, flags, pending, writing, timers, dropping, objects, tasks,
                 thread>>

WriteCompletes(m, ok) ==
  /\ m \in writing
  /\ ioQueue' = Append(ioQueue, [op |-> "write", msg |-> m, ok |-> ok])
  /\ writing' = writing \ {m}
  /\ UNCHANGED <<conn, flags, pending, reading, timers, dropping, objects, tasks,
                 thread>>

(* Bound: a timer that was set again expires only after the handler of its  *)
(* last expiration has run (30 seconds are longer than the io queue).       *)
NotLate(timer) == \A i \in DOMAIN ioQueue : ioQueue[i].op # timer

ReadTimerExpires ==
  /\ readTimer
  /\ NotLate("readTimer")
  /\ readTimer' = FALSE
  /\ ioQueue' = Append(ioQueue, [op |-> "readTimer"])
  /\ UNCHANGED <<conn, flags, sock, writeTimer, dropping, objects, tasks, thread>>

WriteTimerExpires ==
  /\ writeTimer
  /\ NotLate("writeTimer")
  /\ writeTimer' = FALSE
  /\ ioQueue' = Append(ioQueue, [op |-> "writeTimer"])
  /\ UNCHANGED <<conn, flags, sock, readTimer, dropping, objects, tasks, thread>>

-----------------------------------------------------------------------------
(* The io thread.                                                           *)

Runs(op) == dropping = NoMsg /\ ioQueue # <<>> /\ Head(ioQueue).op = op

(* Mutant: the state of the connection is not tested.                       *)
ReadFailedOnly == readError \/ ~Head(ioQueue).ok

ReadFailed == conn # "OPEN" \/ readError \/ ~Head(ioQueue).ok

(* parseHeader or parsePacket gives up: a read error, a size out of range,  *)
(* too many packets per second, or a connection that is not open anymore.   *)
AbandonRead(op) ==
  /\ Runs(op)
  /\ readError' \in {readError \/ ~Head(ioQueue).ok} \cup (IF op = "header" THEN {TRUE} ELSE {})
  /\ op = "body" => ReadFailed
  /\ CloseConnection(<<>>)
  /\ readTimer' = FALSE
  /\ ioQueue' = Tail(ioQueue)
  /\ UNCHANGED <<registered, receivedFirst, writeError, sock, writeTimer,
                 dropping, objects, thread>>

(* parseHeader: read the body.                                              *)
ParseHeader ==
  /\ Runs("header")
  /\ ~ReadFailed
  /\ ioQueue' = Tail(ioQueue)
  /\ reading' = "body"
  /\ readTimer' = TRUE
  /\ UNCHANGED <<conn, flags, pending, writing, writeTimer, dropping, objects,
                 tasks, thread>>

(* parsePacket hands the packet on and reads the next header.               *)
ParsePacket ==
  /\ Runs("body")
  /\ ~ReadFailed
  /\ ioQueue' = Tail(ioQueue)
  /\ reading' = "header"
  /\ readTimer' = TRUE
  /\ UNCHANGED <<registered, readError, writeError, pending, writing, writeTimer,
                 dropping, client, toAdd, thread>>

(* make_protocol finds no service for the first packet: no read follows.    *)
NoProtocol ==
  /\ Runs("body")
  /\ ~ReadFailed
  /\ ~receivedFirst
  /\ ~bound
  /\ receivedFirst' = TRUE
  /\ CloseConnection(<<>>)
  /\ readTimer' = FALSE
  /\ ioQueue' = Tail(ioQueue)
  /\ UNCHANGED <<registered, readError, writeError, sock, writeTimer, dropping,
                 objects, thread>>

TasksFit == Cardinality({i \in DOMAIN tasks : tasks[i] \in {"login", "proto"}}) < MaxTasks

(* onRecvFirstMessage: the protocol is created if it was not; it then closes*)
(* the connection, or adds its login or disconnectClient, after it may have *)
(* put a greeting (of an OTClient) into its output buffer.                  *)
FirstPacket ==
  /\ ParsePacket
  /\ ~receivedFirst
  /\ receivedFirst' = TRUE
  /\ bound' = TRUE
  /\ proto' = (IF bound THEN proto ELSE "alive")
  /\ protoConn' = (bound => protoConn)
  /\ \/ \E m \in Free : NewBuffer(m)
     \/ UNCHANGED <<counts, buffer, autoSend>>
  /\ \/ CloseConnection(<<>>)
     \/ /\ TasksFit
        /\ \E task \in {"login", "proto"} : tasks' = Append(tasks, task)
        /\ UNCHANGED conn

(* onRecvMessage: the protocol closes the connection, adds a task of its    *)
(* own (logout), or does neither (what it adds for the player is Game's).   *)
NextPacket ==
  /\ ParsePacket
  /\ receivedFirst
  /\ \/ CloseConnection(<<>>)
     \/ TasksFit /\ tasks' = Append(tasks, "proto") /\ UNCHANGED conn
     \/ UNCHANGED <<conn, tasks>>
  /\ UNCHANGED <<receivedFirst, counts, bound, proto, protoConn, buffer, autoSend>>

(* onReadTimeout and onWriteTimeout, of a connection that still exists.     *)
OnTimeout(timer, due) ==
  /\ Runs(timer)
  /\ IF ConnectionExists /\ due
       THEN CloseSocket(Tail(ioQueue), <<>>) /\ CloseConnection(<<>>)
       ELSE /\ ioQueue' = Tail(ioQueue)
            /\ UNCHANGED <<conn, sock, tasks>>
  /\ UNCHANGED <<flags, timers, dropping, objects, thread>>

HandleReadTimeout == OnTimeout("readTimer", pendingRead > 0 \/ readError)

HandleWriteTimeout == OnTimeout("writeTimer", pendingWrite > 0 \/ writeError)

(* onWriteOperation; the handler drops its message when it has returned.    *)
OnWriteOperation ==
  /\ Runs("write")
  /\ writeTimer' = FALSE
  /\ dropping' = Head(ioQueue).msg
  /\ writeError' = (writeError \/ ~Head(ioQueue).ok)
  /\ IF conn # "OPEN" \/ writeError'
       THEN CloseSocket(Tail(ioQueue), <<>>) /\ CloseConnection(<<>>)
       ELSE /\ pendingWrite' = pendingWrite - 1
            /\ ioQueue' = Tail(ioQueue)
            /\ UNCHANGED <<conn, socket, pendingRead, ops, tasks>>
  /\ UNCHANGED <<registered, receivedFirst, readError, readTimer, objects, thread>>

(* The last shared_ptr to the message: releaseMessage adds the task.        *)
DropMessage ==
  /\ dropping # NoMsg
  /\ tasks' = Append(tasks, dropping)
  /\ dropping' = NoMsg
  /\ UNCHANGED <<conn, flags, sock, timers, ioQueue, objects, thread>>

(* (The socket was closed by closeConnectionTask.)                          *)
OnStopOperation ==
  /\ Runs("stop")
  /\ readTimer' = FALSE
  /\ writeTimer' = FALSE
  /\ socket' = "deleted"
  /\ registered' = FALSE
  /\ ioQueue' = Tail(ioQueue)
  /\ UNCHANGED <<conn, receivedFirst, readError, writeError, pendingRead,
                 pendingWrite, ops, dropping, objects, tasks, thread>>

-----------------------------------------------------------------------------
(* What Connection::send does on the dispatcher's thread.                   *)

CanSend == conn = "OPEN" /\ ~writeError

(* Mutant: the buffer is kept.                                              *)
KeepsBuffer(m) == UNCHANGED buffer

(* onSendMessage: the message is ready; it is nobody's buffer any longer.   *)
OnSendMessage(m) == buffer' = IF buffer = m THEN NoMsg ELSE buffer

(* Mutant: a write starts whether or not another is under way.              *)
SendWithoutWaiting(m) ==
  \/ /\ CanSend
     /\ OnSendMessage(m)
     /\ pendingWrite' = 1
     /\ writeTimer' = TRUE
     /\ writing' = writing \cup {m}
     /\ UNCHANGED <<toAdd, tasks>>
  \/ /\ ~CanSend
     /\ OnSendMessage(m)
     /\ tasks' = Append(tasks, m)
     /\ UNCHANGED <<pendingWrite, writing, writeTimer, toAdd>>

(* A write may start, or the message waits for the one under way; if the    *)
(* connection is closing (or in error state) the message is released.       *)
Send(m) ==
  \/ /\ CanSend
     /\ pendingWrite = 0
     /\ OnSendMessage(m)
     /\ pendingWrite' = pendingWrite + 1
     /\ writeTimer' = TRUE
     /\ writing' = writing \cup {m}
     /\ UNCHANGED <<toAdd, tasks>>
  \/ /\ CanSend
     /\ pendingWrite # 0
     /\ toAdd' = Append(toAdd, m)
     /\ UNCHANGED <<pendingWrite, writing, writeTimer, buffer, tasks>>
  \/ /\ ~CanSend
     /\ OnSendMessage(m)
     /\ tasks' = Append(tasks, m)
     /\ UNCHANGED <<pendingWrite, writing, writeTimer, toAdd>>

-----------------------------------------------------------------------------
(* The dispatcher's thread: tasks that may touch this connection.           *)

Takes(task) == running = "none" /\ tasks # <<>> /\ Head(tasks) = task

(* A task bound to the protocol starts.                                     *)
StartTask(task) ==
  /\ Takes(task)
  /\ tasks' = Tail(tasks)
  /\ running' = task
  /\ UNCHANGED <<conn, flags, io, objects, events>>

(* A task of Game, of which there always are some: it reaches the protocol  *)
(* only as the client of its player, and sendAll follows.  (If there is no  *)
(* client and no message, nothing happens here.)                            *)
StartGameTask ==
  /\ running = "none"
  /\ client \/ autoSend # <<>> \/ toAdd # <<>>
  /\ running' = "game"
  /\ UNCHANGED <<conn, flags, io, objects, tasks, events>>

UsesProtocol == running \in {"login", "proto", "connect"} \/ (running = "game" /\ client)

(* It writes into the output buffer; a buffer that is not full is kept.     *)
GetOutputBuffer(m) ==
  /\ UsesProtocol
  /\ protoConn
  /\ NewBuffer(m)
  /\ UNCHANGED <<conn, flags, io, owner, toAdd, tasks, thread>>

(* It gets a message of its own and sends it at once.                       *)
SendAtOnce(m) ==
  /\ UsesProtocol
  /\ running # "game"
  /\ protoConn
  /\ Configure(m)
  /\ Send(m)
  /\ UNCHANGED <<conn, flags, socket, pendingRead, reading, readTimer, ioQueue,
                 dropping, owner, autoSend, thread>>

(* disconnect(), logout(), a kick.                                          *)
Disconnect ==
  /\ UsesProtocol
  /\ protoConn
  /\ CloseConnection(<<>>)
  /\ UNCHANGED <<flags, io, objects, thread>>

(* eventConnect # 0: ProtocolGame::connect is still to run.                 *)
Appointed == "connect" \in events \cup Range(tasks)

(* login: a new player, or one that is logged in and has a client, whose    *)
(* place is taken over a second later.                                      *)
NewPlayer ==
  /\ running = "login"
  /\ ~client
  /\ ~Appointed
  /\ client' = TRUE
  /\ UNCHANGED <<conn, flags, io, counts, bound, proto, protoConn, pool, tasks,
                 thread>>

ConnectLater ==
  /\ running = "login"
  /\ ~client
  /\ ~Appointed
  /\ refP' = refP + 1
  /\ events' = events \cup {"connect"}
  /\ UNCHANGED <<conn, flags, io, refC, owner, pool, tasks, running>>

(* connect: the player is taken over, or (gone, or taken) the client is     *)
(* disconnected.                                                            *)
Connect ==
  /\ Takes("connect")
  /\ tasks' = Tail(tasks)
  /\ refP' = refP - 1
  /\ client' \in BOOLEAN
  /\ running' = "connect"
  /\ UNCHANGED <<conn, flags, io, refC, bound, proto, protoConn, pool, events>>

(* login and connect leave a player, an appointment, or a closed connection.*)
Handled == running \in {"login", "connect"} =>
             client \/ Appointed \/ conn # "OPEN" \/ ~protoConn

-----------------------------------------------------------------------------
(* The dispatcher's thread: closing and releasing.                          *)

(* Mutant: releaseX() does not try again.                                   *)
NoRetry(task, count) == {}

(* releaseProtocol() and releaseConnection() try again SCHEDULER_MINTICKS   *)
(* later while messages (or the event of connect) refer to the object.      *)
Retry(task, count) == IF count > 0 THEN {task} ELSE {}

(* Mutant: the protocol is deleted although messages refer to it.           *)
ReleaseProtocolNow == client' = FALSE /\ proto' = "deleted"

ReleaseProtocol ==
  /\ client' = FALSE
  /\ proto' = IF refP > 0 THEN "releasing" ELSE "deleted"

(* Mutant: onStopOperation is posted although messages refer to the         *)
(* connection.                                                              *)
PostStopNow == <<[op |-> "stop"]>>

(* deleteConnectionTask() posts onStopOperation to the io thread.           *)
PostStop == IF refC > 0 THEN <<>> ELSE <<[op |-> "stop"]>>

(* Is nothing being written that onWriteOperation would report?             *)
NothingPending == pendingWrite = 0 \/ writeError

(* (The task finds REQUEST_CLOSE: CloseRequested.)                          *)
(* After closeConnectionTask the connection is CLOSED and about to be       *)
(* released, or CLOSING and left to the handlers of the pending write.      *)
CloseConnectionTask ==
  /\ Takes("close")
  /\ conn = "REQUEST_CLOSE"
  /\ tasks' = Tail(tasks)
  /\ running' = "done"
  /\ protoConn' = FALSE
  /\ bound' = FALSE
  /\ IF bound THEN ReleaseProtocol ELSE UNCHANGED <<proto, client>>
  /\ IF NothingPending
       THEN /\ CloseSocket(ioQueue, PostStop)
            /\ conn' = "CLOSED"
            /\ events' = events \cup Retry("releaseConnection", refC)
                                \cup (IF bound THEN Retry("releaseProtocol", refP) ELSE {})
       ELSE /\ conn' = "CLOSING"
            /\ events' = events \cup (IF bound THEN Retry("releaseProtocol", refP) ELSE {})
            /\ UNCHANGED <<sock, ioQueue>>
  /\ UNCHANGED <<flags, timers, dropping, counts, pool>>

ReleaseConnectionAgain ==
  /\ Takes("releaseConnection")
  /\ tasks' = Tail(tasks)
  /\ running' = "done"
  /\ ioQueue' = ioQueue \o PostStop
  /\ events' = events \cup Retry("releaseConnection", refC)
  /\ UNCHANGED <<conn, flags, sock, timers, dropping, objects>>

ReleaseProtocolAgain ==
  /\ Takes("releaseProtocol")
  /\ tasks' = Tail(tasks)
  /\ running' = "done"
  /\ ReleaseProtocol
  /\ events' = events \cup Retry("releaseProtocol", refP)
  /\ UNCHANGED <<conn, flags, io, counts, bound, protoConn, pool>>

InternalReleaseMessage(m) ==
  /\ Takes(m)
  /\ tasks' = Tail(tasks)
  /\ running' = "done"
  /\ refP' = refP - 1
  /\ refC' = refC - 1
  /\ UNCHANGED <<conn, flags, io, owner, pool, events>>

(* The time of an event has come: the scheduler adds it as a task.          *)
EventFires(e) ==
  /\ e \in events
  /\ events' = events \ {e}
  /\ tasks' = Append(tasks, e)
  /\ UNCHANGED <<conn, flags, io, objects, running>>

-----------------------------------------------------------------------------
(* The dispatcher's thread: OutputMessagePool::sendAll after each task.     *)

(* The messages of kept in the order in which they wait.                    *)
InTurn(kept) ==
  {s \in SetToSeqs(kept) : \A i, j \in DOMAIN s : i < j =>
     \E k, l \in DOMAIN toAdd : k < l /\ toAdd[k] = s[i] /\ toAdd[l] = s[j]}

(* The task has returned.  Messages that waited come back into the list,    *)
(* one after the other: those older than 10 ms to its front, the others to  *)
(* its end; those that waited more than 10 seconds are dropped.             *)
SendAll ==
  /\ running # "none"
  /\ Handled
  /\ running' = "none"
  /\ \E dropped \in SUBSET Range(toAdd) : \E old \in SUBSET (Range(toAdd) \ dropped) :
       \E d \in InTurn(dropped), o \in InTurn(old),
          y \in InTurn(Range(toAdd) \ (dropped \cup old)) :
         /\ autoSend' = (Reverse(o) \o autoSend) \o y
         /\ buffer' = IF buffer \in dropped THEN NoMsg ELSE buffer
         /\ tasks' = tasks \o d
  /\ toAdd' = <<>>
  /\ UNCHANGED <<conn, flags, io, counts, owner, events>>

(* A message older than 10 ms is sent.  The first that is younger ends      *)
(* sendAll: then the next task is taken.                                    *)
SendNext ==
  /\ running = "none"
  /\ autoSend # <<>>
  /\ autoSend' = Tail(autoSend)
  /\ Send(Head(autoSend))
  /\ UNCHANGED <<conn, flags, socket, pendingRead, reading, readTimer, ioQueue,
                 dropping, counts, owner, thread>>

-----------------------------------------------------------------------------

IoSteps == \/ \E op \in {"header", "body"} : AbandonRead(op)
           \/ ParseHeader \/ NoProtocol \/ FirstPacket \/ NextPacket
           \/ HandleReadTimeout \/ HandleWriteTimeout
           \/ OnWriteOperation \/ DropMessage \/ OnStopOperation

Body == \/ \E m \in Messages : GetOutputBuffer(m) \/ SendAtOnce(m)
        \/ Disconnect \/ NewPlayer \/ ConnectLater

(* A task is taken from the queue and, unless it has a body, done with.      *)
TakeTask == \/ \E task \in {"login", "proto"} : StartTask(task)
            \/ Connect \/ CloseConnectionTask
            \/ ReleaseConnectionAgain \/ ReleaseProtocolAgain
            \/ \E m \in Messages : InternalReleaseMessage(m)

Environment == \/ \E ok \in BOOLEAN : \/ ReadCompletes(ok)
                                      \/ \E m \in Messages : WriteCompletes(m, ok)
               \/ ReadTimerExpires \/ WriteTimerExpires
               \/ \E e \in events : EventFires(e)

Next == \/ IoSteps \/ StartGameTask \/ TakeTask \/ Body \/ SendAll \/ SendNext
        \/ Environment

Spec == Init /\ [][Next]_vars

(* Both threads run, tasks return and leave the queue in their order, so a  *)
(* queued one has its turn whatever Game does; time passes.  The peer owes  *)
(* us nothing, but a write that does not complete runs into its timer.      *)
Fairness == /\ WF_vars(IoSteps)
            /\ SF_vars(TakeTask)
            /\ WF_vars(SendAll \/ (~Handled /\ Disconnect))
            /\ SF_vars(SendNext)
            /\ WF_vars(ReadTimerExpires \/ WriteTimerExpires)
            /\ \A e \in {"connect", "releaseConnection", "releaseProtocol"} :
                 WF_vars(EventFires(e))

FairSpec == Spec /\ Fairness

-----------------------------------------------------------------------------
(* Properties.                                                              *)

(* Every message in use is in one place only: a list of the pool, a write,  *)
(* or on its way back to the pool; and both counters say how many there are *)
(* (an appointment for connect counts for the protocol as well).            *)
MessagesOK ==
  /\ IsInjective(autoSend) /\ IsInjective(toAdd)
  /\ Range(autoSend) \cap Range(toAdd) = {}
  /\ (Range(autoSend) \cup Range(toAdd)) \cap (writing \cup Written \cup QueuedFree) = {}
  /\ (writing \cup Written) \cap QueuedFree = {}
  /\ \A m \in Messages : Cardinality({i \in DOMAIN tasks : tasks[i] = m}) <= 1
  /\ refC = Cardinality(Used)
  /\ refP = refC + (IF Appointed THEN 1 ELSE 0)

(* closeConnectionTask reports an error when it finds another state.        *)
CloseRequested ==
  conn = "REQUEST_CLOSE" <=> Cardinality({i \in DOMAIN tasks : tasks[i] = "close"}) = 1

Consistent == TypeOK /\ MessagesOK /\ CloseRequested

(* Boost.Asio forbids a second async_write on a socket before the first has *)
(* completed: m_pendingWrite is what keeps them apart, and it is reset by   *)
(* closeSocket() while a write may still be under way.                      *)
OneWrite ==
  /\ Cardinality(writing \cup Written) <= 1
  /\ conn = "OPEN" => pendingWrite = Cardinality(writing \cup Written)

(* The output buffer of a protocol still waits in a list of the pool: what  *)
(* is written into it will be sent, and nothing is appended to a message    *)
(* that was encrypted and given to the socket, or to one of another owner.  *)
BufferWaits == buffer # NoMsg => buffer \in Range(autoSend) \cup Range(toAdd)

(* The tasks that handlers of the io thread bind to a raw Protocol pointer   *)
(* run before closeConnectionTask takes the connection away from it:        *)
(* "getConnection()->closeConnection()" in login relies on that.            *)
TasksFindProtocol ==
  ("login" \in Range(tasks) \/ "proto" \in Range(tasks) \/ running \in {"login", "proto"})
    => proto = "alive" /\ protoConn

(* A protocol is deleted only when no message, no event and no player       *)
(* refers to it.                                                            *)
ProtocolUnreferenced ==
  proto \in {"none", "deleted"} =>
    /\ refP = 0
    /\ Used = {}
    /\ ~client
    /\ buffer = NoMsg
    /\ UsesProtocol => running = "none"
    /\ "releaseProtocol" \notin events \cup Range(tasks)

(* The handler of a completed operation dereferences m_socket only ...      *)
NeedsSocket(c) ==
  CASE c.op = "header" -> conn = "OPEN" /\ ~readError
    [] c.op = "body" -> conn = "OPEN" /\ ~readError
    [] c.op = "write" -> TRUE
    [] c.op = "readTimer" -> ConnectionExists /\ (pendingRead > 0 \/ readError)
    [] c.op = "writeTimer" -> ConnectionExists /\ (pendingWrite > 0 \/ writeError)
    [] c.op = "stop" -> TRUE

(* ... while it is there: onStopOperation, which deletes it, comes after    *)
(* every handler that still needs it, late timers included, and once.       *)
SocketNotNull ==
  socket = "deleted" =>
    /\ \A i \in DOMAIN ioQueue : ~NeedsSocket(ioQueue[i])
    /\ ~CanSend
    /\ conn # "REQUEST_CLOSE"
    /\ ~protoConn

(* closeConnectionTask, releaseConnection and onStopOperation are bound to  *)
(* a raw Connection pointer: the object outlives them.                      *)
ConnectionOutlives ==
  \/ registered
  \/ /\ "close" \notin Range(tasks)
     /\ "releaseConnection" \notin events \cup Range(tasks)
     /\ \A i \in DOMAIN ioQueue : ioQueue[i].op # "stop"

(* A connection that was closed, from either side and in either thread,     *)
(* ends: its socket is closed, its protocol deleted, its messages are back  *)
(* in the pool, and unless it was left CLOSING it is out of the manager.    *)
Ended == /\ socket # "open"
         /\ proto \in {"none", "deleted"}
         /\ Used = {}
         /\ conn = "CLOSING" \/ (conn = "CLOSED" /\ ~registered)

ClosedConnectionEnds == conn # "OPEN" ~> Ended

(* closeConnectionTask: a connection that still writes "will be closed by   *)
(* onWriteOperation/handleWriteTimeout/handleReadTimeout instead".          *)
ClosingIsClosed == conn = "CLOSING" ~> conn = "CLOSED"
=============================================================================
