------------------------------ MODULE Scheduler ------------------------------
(***************************************************************************)
(* g_scheduler (src/src/scheduler.cpp, scheduler.h): a thread that hands    *)
(* each event to the dispatcher when its time has come, and the addEvent,   *)
(* stopEvent, stop and shutdown that other threads call.                    *)
(*                                                                          *)
(* A step is one critical section of m_eventLock, one notification of       *)
(* m_eventSignal or one statement between them.  m_eventLock is never held  *)
(* from one step to the next.  The clock (system_clock) is taken to go      *)
(* forward only.  m_threadState, read without the lock by the loop's test,  *)
(* is read as it is at that moment.                                         *)
(***************************************************************************)
EXTENDS Naturals

CONSTANTS Clients,    \* the threads that add and stop events
          Events,     \* the SchedulerTasks, each created and added once
          MinTicks,   \* SCHEDULER_MINTICKS
          MaxId,      \* the largest value of the uint32_t m_lastEventId
          Delays,     \* the delays that callers ask for (ticks)
          MaxTime,    \* bound: the clock stops there
          NoEvent,    \* nullptr
          Never       \* the deadline of a wait without one

ASSUME EventAssumption == NoEvent \notin Events
ASSUME NumberAssumption ==
  /\ MinTicks \in Nat
  /\ MaxId \in Nat \ {0}
  /\ Delays \subseteq Nat
  /\ MaxTime \in Nat
  /\ Never \notin Nat

VARIABLES
  now,          \* the system clock
  eventList,    \* m_eventList: the events in the priority queue
  eventIds,     \* m_eventIds: the ids of the events that were not stopped
  lastEventId,  \* m_lastEventId
  threadState,  \* m_threadState
  cycle,        \* getCycle() of each event
  eventId,      \* getEventId() of each event
  status,       \* what has become of each event
  pc,           \* where the scheduler's thread is
  deadline,     \* until when it waits
  task,         \* the event it popped, or NoEvent
  runTask,      \* runTask
  adding,       \* the event a client is adding, or NoEvent
  step          \* where the client is in addEvent

sched == <<pc, deadline, task, runTask>>
calls == <<adding, step>>
data  == <<cycle, eventId>>
vars  == <<now, eventList, eventIds, lastEventId, threadState, data, status,
           sched, calls>>

SchedulerState == {"RUNNING", "CLOSING", "TERMINATED"}

(* created: not yet added; popped: in the hands of the scheduler's thread;  *)
(* dispatched: handed to g_dispatcher; done: and deleted after that;        *)
(* deleted: popped after it was stopped; refused: by addEvent;              *)
(* discarded: by shutdown().                                                *)
Status == {"new", "created", "queued", "popped", "dispatched", "done", "deleted",
           "refused", "discarded"}

TypeOK ==
  /\ now \in 0..MaxTime
  /\ eventList \subseteq Events
  /\ eventIds \subseteq 1..MaxId
  /\ lastEventId \in 0..MaxId
  /\ threadState \in SchedulerState
  /\ cycle \in [Events -> Nat]
  /\ eventId \in [Events -> 0..MaxId]
  /\ status \in [Events -> Status]
  /\ pc \in {"test", "lock", "wait", "woken", "send", "ended"}
  /\ deadline \in Nat \cup {Never}
  /\ task \in Events \cup {NoEvent}
  /\ runTask \in BOOLEAN
  /\ adding \in [Clients -> Events \cup {NoEvent}]
  /\ step \in [Clients -> {"idle", "called", "signal", "return"}]

Init ==
  /\ now = 0
  /\ eventList = {}
  /\ eventIds = {}
  /\ lastEventId = 0
  /\ threadState = "RUNNING"
  /\ cycle = [e \in Events |-> 0]
  /\ eventId = [e \in Events |-> 0]
  /\ status = [e \in Events |-> "new"]
  /\ pc = "test"
  /\ deadline = Never
  /\ task = NoEvent
  /\ runTask = FALSE
  /\ adding = [c \in Clients |-> NoEvent]
  /\ step = [c \in Clients |-> "idle"]

Tick == /\ now < MaxTime
        /\ now' = now + 1
        /\ UNCHANGED <<eventList, eventIds, lastEventId, threadState, data, status,
                       sched, calls>>

-----------------------------------------------------------------------------
(* addEvent, in any thread.                                                 *)

(* std::max(delay, SCHEDULER_MINTICKS)                                      *)
Delay(d) == IF d < MinTicks THEN MinTicks ELSE d

(* createSchedulerTask, whose result is passed to addEvent.                 *)
CallAddEvent(c, e, d) ==
  /\ step[c] = "idle"
  /\ status[e] = "new"
  /\ now + Delay(d) <= MaxTime
  /\ cycle' = [cycle EXCEPT ![e] = now + Delay(d)]
  /\ status' = [status EXCEPT ![e] = "created"]
  /\ adding' = [adding EXCEPT ![c] = e]
  /\ step' = [step EXCEPT ![c] = "called"]
  /\ UNCHANGED <<now, eventList, eventIds, lastEventId, threadState, eventId, sched>>

(* Mutant: the id 0 is not skipped when the counter wraps.                  *)
NextIdOrZero == IF lastEventId = MaxId THEN 0 ELSE lastEventId + 1

(* ++m_lastEventId wraps to 0, which is no id.                              *)
NextId == IF lastEventId = MaxId THEN 1 ELSE lastEventId + 1

(* Bound: while an event is in the queue, at most MaxId - 1 others are      *)
(* added, so that ids wrap but never meet an event that still carries them. *)
IdIsFree == \A e \in eventList : eventId[e] # NextId

(* Mutant: nobody is told of an event that comes before the others.         *)
DoSignalIfEmpty(e) == eventList = {}

(* Mutant: nobody is ever told.                                             *)
NoSignal(e) == FALSE

(* The event is at the top of the queue only if all others are later.       *)
DoSignal(e) == \A f \in eventList : cycle[e] < cycle[f]

AddEvent(c) ==
  LET e == adding[c] IN
  /\ step[c] = "called"
  /\ threadState = "RUNNING"
  /\ IdIsFree
  /\ lastEventId' = NextId
  /\ eventId' = [eventId EXCEPT ![e] = NextId]
  /\ eventIds' = eventIds \cup {NextId}
  /\ eventList' = eventList \cup {e}
  /\ status' = [status EXCEPT ![e] = "queued"]
  /\ step' = [step EXCEPT ![c] = IF DoSignal(e) THEN "signal" ELSE "return"]
  /\ UNCHANGED <<now, threadState, cycle, sched, adding>>

(* The scheduler is not running: the task is deleted, 0 returned.           *)
RefuseEvent(c) ==
  /\ step[c] = "called"
  /\ threadState # "RUNNING"
  /\ status' = [status EXCEPT ![adding[c]] = "refused"]
  /\ adding' = [adding EXCEPT ![c] = NoEvent]
  /\ step' = [step EXCEPT ![c] = "idle"]
  /\ UNCHANGED <<now, eventList, eventIds, lastEventId, threadState, data, sched>>

(* m_eventSignal.notify_one(), after the lock was released.                 *)
Notify(c) ==
  /\ step[c] = "signal"
  /\ step' = [step EXCEPT ![c] = "return"]
  /\ pc' = IF pc = "wait" THEN "woken" ELSE pc
  /\ UNCHANGED <<now, eventList, eventIds, lastEventId, threadState, data, status,
                 deadline, task, runTask, adding>>

(* return task->getEventId(): the lock is no longer held.                   *)
ReturnId(c) ==
  /\ step[c] = "return"
  /\ step' = [step EXCEPT ![c] = "idle"]
  /\ adding' = [adding EXCEPT ![c] = NoEvent]
  /\ UNCHANGED <<now, eventList, eventIds, lastEventId, threadState, data, status,
                 sched>>

-----------------------------------------------------------------------------
(* Mutant: the event is taken out of the queue as well.                     *)
StopAndRemoveEvent(c, id) ==
  /\ step[c] = "idle"
  /\ id \in eventIds
  /\ eventIds' = eventIds \ {id}
  /\ eventList' = {e \in eventList : eventId[e] # id}
  /\ UNCHANGED <<now, lastEventId, threadState, data, status, sched, calls>>

(* stopEvent forgets the id; the event stays in the queue.  (Id 0, and an   *)
(* id that is not in m_eventIds, change nothing.)                           *)
StopEvent(c, id) ==
  /\ step[c] = "idle"
  /\ id \in eventIds
  /\ eventIds' = eventIds \ {id}
  /\ UNCHANGED <<now, eventList, lastEventId, threadState, data, status, sched, calls>>

Stop ==
  /\ threadState = "RUNNING"
  /\ threadState' = "CLOSING"
  /\ UNCHANGED <<now, eventList, eventIds, lastEventId, data, status, sched, calls>>

(* Nobody is notified.                                                      *)
Shutdown ==
  /\ threadState = "CLOSING"
  /\ threadState' = "TERMINATED"
  /\ status' = [e \in Events |-> IF e \in eventList THEN "discarded" ELSE status[e]]
  /\ eventList' = {}
  /\ eventIds' = {}
  /\ UNCHANGED <<now, lastEventId, data, sched, calls>>

-----------------------------------------------------------------------------
(* schedulerThread.                                                         *)

(* The loop's condition, read without the lock.                             *)
TestState ==
  /\ pc = "test"
  /\ pc' = IF threadState # "TERMINATED" THEN "lock" ELSE "ended"
  /\ UNCHANGED <<now, eventList, eventIds, lastEventId, threadState, data, status,
                 deadline, task, runTask, calls>>

IsTop(e) == e \in eventList /\ \A f \in eventList : cycle[e] <= cycle[f]

(* Wait without a deadline, or until the time of the event at the top.      *)
Wait ==
  /\ pc = "lock"
  /\ pc' = "wait"
  /\ \/ eventList = {} /\ deadline' = Never
     \/ \E e \in eventList : IsTop(e) /\ deadline' = cycle[e]
  /\ UNCHANGED <<now, eventList, eventIds, lastEventId, threadState, data, status,
                 task, runTask, calls>>

TimedOut == deadline # Never /\ deadline <= now

Timeout ==
  /\ pc = "wait"
  /\ TimedOut
  /\ pc' = "woken"
  /\ UNCHANGED <<now, eventList, eventIds, lastEventId, threadState, data, status,
                 deadline, task, runTask, calls>>

WakeSpuriously ==
  /\ pc = "wait"
  /\ pc' = "woken"
  /\ UNCHANGED <<now, eventList, eventIds, lastEventId, threadState, data, status,
                 deadline, task, runTask, calls>>

(* Mutant: the state is not tested again after the wait.                    *)
PopsAlways == TimedOut

(* The lock is held again.  wait_until reports a timeout when the deadline  *)
(* has passed by now, whatever ended the wait.                              *)
Pops == TimedOut /\ threadState # "TERMINATED"

(* Mutant: an event runs although its id was forgotten.                     *)
NeverStopped(e) == TRUE

NotStopped(e) == eventId[e] \in eventIds

(* Mutant: the id of an event that runs is not erased.                      *)
KeepId(e) == eventIds

ForgetId(e) == eventIds \ {eventId[e]}

Pop(e) ==
  /\ pc = "woken"
  /\ Pops
  /\ IsTop(e)
  /\ eventList' = eventList \ {e}
  /\ runTask' = NotStopped(e)
  /\ eventIds' = ForgetId(e)
  /\ task' = e
  /\ status' = [status EXCEPT ![e] = "popped"]
  /\ pc' = "send"
  /\ UNCHANGED <<now, lastEventId, threadState, data, deadline, calls>>

NoPop ==
  /\ pc = "woken"
  /\ ~Pops
  /\ pc' = "test"
  /\ UNCHANGED <<now, eventList, eventIds, lastEventId, threadState, data, status,
                 deadline, task, runTask, calls>>

(* The lock is free: hand the event over, or delete it if it was stopped.   *)
Send ==
  /\ pc = "send"
  /\ status' = [status EXCEPT ![task] = IF runTask THEN "dispatched" ELSE "deleted"]
  /\ task' = NoEvent
  /\ pc' = "test"
  /\ UNCHANGED <<now, eventList, eventIds, lastEventId, threadState, data, deadline,
                 runTask, calls>>

(* The dispatcher has run the event (or refused it) and deletes it.         *)
DispatcherDeletes(e) ==
  /\ status[e] = "dispatched"
  /\ status' = [status EXCEPT ![e] = "done"]
  /\ UNCHANGED <<now, eventList, eventIds, lastEventId, threadState, data, sched,
                 calls>>

-----------------------------------------------------------------------------

AddSteps(c) == AddEvent(c) \/ RefuseEvent(c) \/ Notify(c) \/ ReturnId(c)

ThreadSteps == \/ TestState \/ Wait \/ Timeout \/ NoPop \/ Send
               \/ \E e \in Events : Pop(e)

Next == \/ Tick
        \/ \E c \in Clients : \/ AddSteps(c)
                              \/ \E e \in Events, d \in Delays : CallAddEvent(c, e, d)
                              \/ \E id \in 1..MaxId : StopEvent(c, id)
        \/ Stop
        \/ Shutdown
        \/ ThreadSteps
        \/ WakeSpuriously
        \/ \E e \in Events : DispatcherDeletes(e)

Spec == Init /\ [][Next]_vars

(* Time passes, and every thread that can take a step takes one.            *)
Fairness == /\ WF_vars(Tick)
            /\ WF_vars(ThreadSteps)
            /\ \A c \in Clients : WF_vars(AddSteps(c))

FairSpec == Spec /\ Fairness

-----------------------------------------------------------------------------
(* Properties.                                                              *)

(* addEvent wakes the scheduler's thread only when the new event comes      *)
(* before all others, and after it released m_eventLock.  Whenever the      *)
(* thread sleeps past the time of some event, a client is still about to    *)
(* notify it: no event is overslept.                                        *)
NoLateWait ==
  pc = "wait" =>
    \A e \in eventList : \/ deadline # Never /\ deadline <= cycle[e]
                         \/ \E c \in Clients : step[c] = "signal"

(* When wait_until reports a timeout there is an event to pop, and its time *)
(* has come: the queue may have changed while the thread slept, but what it *)
(* slept for is still in it ("so there has to be an event").                *)
TimeoutHasEvent ==
  pc \in {"wait", "woken"} /\ deadline # Never /\ threadState # "TERMINATED"
    => \E e \in eventList : cycle[e] <= deadline

(* No two events in the queue have the same id, and m_eventIds holds no id  *)
(* of an event that has left it: stopEvent stops the event it names.        *)
IdsNameEvents ==
  /\ \A e, f \in eventList : eventId[e] = eventId[f] => e = f
  /\ \A id \in eventIds : \E e \in eventList : eventId[e] = id

(* Each event is where its status says: in the queue, in one client's call  *)
(* of addEvent, or in the hands of the scheduler's thread.                  *)
EventsOK ==
  /\ \A e \in Events : status[e] = "queued" <=> e \in eventList
  /\ \A c \in Clients :
       step[c] = "called" => adding[c] \in Events /\ status[adding[c]] = "created"
  /\ \A c, d \in Clients :
       step[c] = "called" /\ step[d] = "called" /\ adding[c] = adding[d] => c = d
  /\ pc = "send" => task \in Events
  /\ \A e \in Events : status[e] = "popped" <=> (pc = "send" /\ e = task)
  /\ threadState = "TERMINATED" => eventList = {}

(* The inductive invariant.                                                 *)
Consistent == TypeOK /\ EventsOK /\ IdsNameEvents /\ TimeoutHasEvent /\ NoLateWait

Armed(e) == status[e] = "queued" /\ eventId[e] \in eventIds

(* Every event that is added is handed to the dispatcher in the end, unless *)
(* it is stopped or the server ends.                                        *)
EveryEventFires == \A e \in Events : Armed(e) ~> ~Armed(e)

(* After shutdown() the scheduler's thread leaves its loop, so that main    *)
(* can join it -- unless it sleeps on an empty queue, for no one wakes it.  *)
SleepsForever == pc = "wait" /\ deadline = Never

SchedulerEnds == threadState = "TERMINATED" ~> pc = "ended" \/ SleepsForever

(* The scheduler implements Timers.  An event is cancelled as soon as its   *)
(* id is forgotten, long before it leaves the queue.                        *)
TimerOf(e) ==
  CASE status[e] \in {"new", "created"} -> "off"
    [] status[e] = "queued" -> IF eventId[e] \in eventIds THEN "armed" ELSE "cancelled"
    [] status[e] = "popped" -> IF runTask THEN "fired" ELSE "cancelled"
    [] status[e] \in {"dispatched", "done"} -> "fired"
    [] status[e] = "deleted" -> "cancelled"
    [] status[e] = "discarded" -> "dropped"
    [] status[e] = "refused" -> "refused"

T == INSTANCE Timers WITH clock <- now,
                          timer <- [e \in Events |-> TimerOf(e)],
                          due <- cycle

ImplementsTimers == T!Spec
=============================================================================
