----------------------------- MODULE Dispatcher -----------------------------
(***************************************************************************)
(* g_dispatcher (src/src/tasks.cpp, tasks.h): one thread that executes the  *)
(* tasks that the io thread, the scheduler thread and the tasks themselves  *)
(* hand to it with addTask, and the way Game::setGameState(SHUTDOWN) and    *)
(* Game::shutdown (game.cpp) end it.                                        *)
(*                                                                          *)
(* A step is one critical section of m_taskLock, one notification of        *)
(* m_taskSignal or one statement between them: that is what other threads   *)
(* can observe.  m_taskLock is held from one step to the next only by       *)
(* shutdown(), while flush() runs what is left of the list.  m_threadState, *)
(* read without the lock by the loop's test, is written only by the         *)
(* dispatcher's own thread here (a server that never came up is not         *)
(* modelled).  No caller passes push_front to addTask, so tasks are always  *)
(* appended.                                                                *)
(***************************************************************************)
EXTENDS Naturals, Sequences

CONSTANTS Clients,       \* the io thread and the scheduler thread
          Disp,          \* the dispatcher's thread
          Tasks,         \* the tasks, each created and handed over once
          Droppable,     \* those created with an expiration
          CloseTask,     \* the task that calls setGameState(GAME_STATE_SHUTDOWN)
          ShutdownTask,  \* the task bound to Game::shutdown
          NoTask         \* nullptr

Threads == Clients \cup {Disp}

ASSUME DispAssumption == Disp \notin Clients
ASSUME TaskAssumption ==
  /\ NoTask \notin Tasks
  /\ Droppable \subseteq Tasks
  /\ {CloseTask, ShutdownTask} \subseteq Tasks \ Droppable
  /\ CloseTask # ShutdownTask

VARIABLES
  taskList,     \* m_taskList
  threadState,  \* m_threadState
  flushing,     \* shutdown() holds m_taskLock and is inside flush()
  pc,           \* where the dispatcher's thread is
  task,         \* the task it took, or NoTask
  calling,      \* the task a thread is handing over, before it has the lock
  signal,       \* a thread left addTask's critical section with do_signal set
  status,       \* what has become of each task
  lapsed        \* the tasks whose m_expiration has passed

vars == <<taskList, threadState, flushing, pc, task, calling, signal, status,
          lapsed>>

DispatcherState == {"RUNNING", "CLOSING", "TERMINATED"}

PCs == {"test", "lock", "wait", "woken", "taken", "body", "flush", "ended"}

Status == {"new", "called", "queued", "taken", "ran", "expired", "refused"}

TypeOK ==
  /\ taskList \in Seq(Tasks)
  /\ threadState \in DispatcherState
  /\ flushing \in BOOLEAN
  /\ pc \in PCs
  /\ task \in Tasks \cup {NoTask}
  /\ calling \in [Threads -> Tasks \cup {NoTask}]
  /\ signal \in [Threads -> BOOLEAN]
  /\ status \in [Tasks -> Status]
  /\ lapsed \subseteq Droppable

Init ==
  /\ taskList = <<>>
  /\ threadState = "RUNNING"
  /\ flushing = FALSE
  /\ pc = "test"
  /\ task = NoTask
  /\ calling = [t \in Threads |-> NoTask]
  /\ signal = [t \in Threads |-> FALSE]
  /\ status = [k \in Tasks |-> "new"]
  /\ lapsed = {}

-----------------------------------------------------------------------------
(* addTask, in any thread.                                                  *)

Idle(t) == calling[t] = NoTask /\ ~signal[t]

MayAdd(t, k) == /\ t = Disp => pc = "body"
                /\ k = ShutdownTask => t = Disp /\ task = CloseTask

(* A thread creates a task and calls addTask.                               *)
CallAddTask(t, k) ==
  /\ Idle(t)
  /\ MayAdd(t, k)
  /\ status[k] = "new"
  /\ calling' = [calling EXCEPT ![t] = k]
  /\ status' = [status EXCEPT ![k] = "called"]
  /\ UNCHANGED <<taskList, threadState, flushing, pc, task, signal, lapsed>>

(* Mutant: only a terminated dispatcher refuses tasks.                      *)
AcceptingUntilTerminated == threadState # "TERMINATED"

Accepting == threadState = "RUNNING"

(* Mutant: empty() is asked after the push.                                 *)
DoSignalAfterPush == FALSE

(* do_signal: was the list empty before the task was pushed?                *)
DoSignal == taskList = <<>>

(* m_taskLock is free and the dispatcher is running: the task is appended.  *)
Accept(t) ==
  /\ calling[t] # NoTask
  /\ ~flushing
  /\ Accepting
  /\ taskList' = Append(taskList, calling[t])
  /\ status' = [status EXCEPT ![calling[t]] = "queued"]
  /\ signal' = [signal EXCEPT ![t] = DoSignal]
  /\ calling' = [calling EXCEPT ![t] = NoTask]
  /\ UNCHANGED <<threadState, flushing, pc, task, lapsed>>

(* m_taskLock is free but the dispatcher is not running: delete task.       *)
Refuse(t) ==
  /\ calling[t] # NoTask
  /\ ~flushing
  /\ ~Accepting
  /\ status' = [status EXCEPT ![calling[t]] = "refused"]
  /\ calling' = [calling EXCEPT ![t] = NoTask]
  /\ UNCHANGED <<taskList, threadState, flushing, pc, task, signal, lapsed>>

(* m_taskSignal.notify_one(), after the lock was released.                  *)
Notify(t) ==
  /\ signal[t]
  /\ signal' = [signal EXCEPT ![t] = FALSE]
  /\ pc' = IF pc = "wait" THEN "woken" ELSE pc
  /\ UNCHANGED <<taskList, threadState, flushing, task, calling, status, lapsed>>

-----------------------------------------------------------------------------
(* dispatcherThread.                                                        *)

(* Mutant: the loop never tests the state.                                  *)
KeepsRunningForever == TRUE

KeepsRunning == threadState # "TERMINATED"

(* The loop's condition, read without the lock.                             *)
TestState ==
  /\ pc = "test"
  /\ pc' = IF KeepsRunning THEN "lock" ELSE "ended"
  /\ task' = NoTask
  /\ UNCHANGED <<taskList, threadState, flushing, calling, signal, status, lapsed>>

Wait ==
  /\ pc = "lock"
  /\ ~flushing
  /\ taskList = <<>>
  /\ pc' = "wait"
  /\ UNCHANGED <<taskList, threadState, flushing, task, calling, signal, status,
                 lapsed>>

(* A condition variable may wake without being notified.                    *)
WakeSpuriously ==
  /\ pc = "wait"
  /\ pc' = "woken"
  /\ UNCHANGED <<taskList, threadState, flushing, task, calling, signal, status,
                 lapsed>>

(* Mutant: front() is read, but the back is popped.                         *)
TakeFrontPopBack ==
  /\ task' = Head(taskList)
  /\ taskList' = SubSeq(taskList, 1, Len(taskList) - 1)
  /\ status' = [status EXCEPT ![Head(taskList)] = "taken"]

TakeFront ==
  /\ task' = Head(taskList)
  /\ taskList' = Tail(taskList)
  /\ status' = [status EXCEPT ![Head(taskList)] = "taken"]

(* The lock is held, the wait (if any) is over: pop the front, then unlock. *)
Take ==
  /\ (pc = "lock" /\ taskList # <<>>) \/ pc = "woken"
  /\ ~flushing
  /\ pc' = "taken"
  /\ IF taskList # <<>> /\ threadState # "TERMINATED"
       THEN TakeFront
       ELSE UNCHANGED <<taskList, task, status>>
  /\ UNCHANGED <<threadState, flushing, calling, signal, lapsed>>

(* hasExpired() is false: execute the task.  It then may call addTask.      *)
Execute ==
  /\ pc = "taken"
  /\ task # NoTask
  /\ task \notin lapsed
  /\ pc' = "body"
  /\ UNCHANGED <<taskList, threadState, flushing, task, calling, signal, status,
                 lapsed>>

(* No task was taken, or it has expired and is deleted without being run.   *)
Skip ==
  /\ pc = "taken"
  /\ task = NoTask \/ task \in lapsed
  /\ pc' = "test"
  /\ status' = IF task = NoTask THEN status
                                ELSE [status EXCEPT ![task] = "expired"]
  /\ UNCHANGED <<taskList, threadState, flushing, task, calling, signal, lapsed>>

BodyDone ==
  /\ task = CloseTask => threadState # "RUNNING"
  /\ task = ShutdownTask => threadState = "TERMINATED"

(* The task returns (with sendAll and clearSpectatorCache) and is deleted.  *)
Return ==
  /\ pc = "body"
  /\ Idle(Disp)
  /\ BodyDone
  /\ pc' = IF flushing THEN "flush" ELSE "test"
  /\ status' = [status EXCEPT ![task] = "ran"]
  /\ UNCHANGED <<taskList, threadState, flushing, task, calling, signal, lapsed>>

-----------------------------------------------------------------------------
(* The end of the server.                                                   *)

(* Mutant: stop() comes first, as main does when no service came up.        *)
MayStopFirst == TRUE

(* The call of addTask comes before the call of stop().                     *)
MayStop == status[ShutdownTask] # "new"

(* setGameState(GAME_STATE_SHUTDOWN) hands Game::shutdown over (an instance *)
(* of CallAddTask) and, when that call has returned, calls stop().          *)
Stop ==
  /\ pc = "body"
  /\ task = CloseTask
  /\ Idle(Disp)
  /\ MayStop
  /\ threadState = "RUNNING"
  /\ threadState' = "CLOSING"
  /\ UNCHANGED <<taskList, flushing, pc, task, calling, signal, status, lapsed>>

(* Game::shutdown calls shutdown(): take m_taskLock, terminate, flush.      *)
Shutdown ==
  /\ pc = "body"
  /\ task = ShutdownTask
  /\ Idle(Disp)
  /\ threadState # "TERMINATED"
  /\ threadState' = "TERMINATED"
  /\ flushing' = TRUE
  /\ pc' = "flush"
  /\ UNCHANGED <<taskList, task, calling, signal, status, lapsed>>

(* flush() executes the front of the list, expired or not, under the lock.  *)
FlushNext ==
  /\ pc = "flush"
  /\ taskList # <<>>
  /\ TakeFront
  /\ pc' = "body"
  /\ UNCHANGED <<threadState, flushing, calling, signal, lapsed>>

(* Mutant: shutdown() does not flush.                                       *)
FlushNothing == TRUE

FlushFinished == taskList = <<>>

(* The list is empty: release m_taskLock, back into Game::shutdown.         *)
FlushEnd ==
  /\ pc = "flush"
  /\ FlushFinished
  /\ flushing' = FALSE
  /\ task' = ShutdownTask
  /\ pc' = "body"
  /\ UNCHANGED <<taskList, threadState, calling, signal, status, lapsed>>

(* The clock passes the expiration of a task.                               *)
Lapse(k) ==
  /\ status[k] \in {"called", "queued", "taken"}
  /\ lapsed' = lapsed \cup {k}
  /\ UNCHANGED <<taskList, threadState, flushing, pc, task, calling, signal,
                 status>>

-----------------------------------------------------------------------------

(* The steps of one thread inside addTask.                                  *)
AddSteps(t) == Accept(t) \/ Refuse(t) \/ Notify(t)

(* What the dispatcher's thread does on its own.                            *)
DispSteps == \/ TestState \/ Wait \/ Take \/ Execute \/ Skip \/ Return
             \/ Stop \/ Shutdown \/ FlushNext \/ FlushEnd

Next == \/ DispSteps
        \/ WakeSpuriously
        \/ \E t \in Threads : AddSteps(t) \/ \E k \in Tasks : CallAddTask(t, k)
        \/ \E k \in Droppable : Lapse(k)

Spec == Init /\ [][Next]_vars

(* Every thread runs and every task returns; nobody is obliged to hand over *)
(* a task, except setGameState, which does it before it calls stop().       *)
Fairness == /\ WF_vars(DispSteps)
            /\ WF_vars(task = CloseTask /\ CallAddTask(Disp, ShutdownTask))
            /\ \A t \in Threads : WF_vars(AddSteps(t))

FairSpec == Spec /\ Fairness

-----------------------------------------------------------------------------
(* Properties.                                                              *)

(* addTask notifies only when it found the list empty, and only after it    *)
(* released m_taskLock.  Whenever the dispatcher's thread sleeps in          *)
(* m_taskSignal.wait with tasks in the list, some thread is still about to  *)
(* notify it: no wake-up is lost, whatever the interleaving.                *)
NoLostWakeup ==
  pc = "wait" /\ taskList # <<>> => \E t \in Threads : signal[t]

(* Each task is in the place its status says: in the list once, ...          *)
ListOK ==
  /\ \A i \in 1..Len(taskList) : status[taskList[i]] = "queued"
  /\ \A i, j \in 1..Len(taskList) : taskList[i] = taskList[j] => i = j

(* ... or in one thread's call of addTask, ...                              *)
CallsOK ==
  /\ \A t \in Threads :
       calling[t] # NoTask => status[calling[t]] = "called" /\ ~signal[t]
  /\ \A t, u \in Threads : calling[t] = calling[u] => (t = u \/ calling[t] = NoTask)

(* ... or taken by the dispatcher's thread, which holds one task, and       *)
(* Game::shutdown besides while it flushes.                                 *)
TakenOK ==
  /\ \A k \in Tasks :
       status[k] = "taken" => \/ (pc \in {"taken", "body"} /\ k = task)
                             \/ (flushing /\ k = ShutdownTask)
  /\ (pc = "body" \/ (pc = "taken" /\ task # NoTask))
       => (task # NoTask /\ status[task] = "taken")

(* Where the dispatcher's thread is, what it holds, and the state it set.    *)
ThreadOK ==
  /\ pc \in {"lock", "wait", "woken"} => task = NoTask
  /\ pc # "body" => Idle(Disp)
  /\ pc = "flush" => flushing
  /\ flushing => /\ pc \in {"body", "flush"}
                 /\ threadState = "TERMINATED"
                 /\ status[ShutdownTask] = "taken"
                 /\ pc = "body" => task # ShutdownTask

(* setGameState hands Game::shutdown over before it calls stop(): a closing *)
(* dispatcher, which refuses every task, still holds the one that ends it.  *)
ClosingReachesShutdown ==
  threadState = "CLOSING" => status[ShutdownTask] \in {"queued", "taken"}

(* How far the end of the server has come.                                  *)
ClosingOK ==
  /\ threadState = "RUNNING"
       => status[ShutdownTask] \in {"new", "called", "queued", "taken"}
  /\ ClosingReachesShutdown
  /\ threadState = "TERMINATED" => status[ShutdownTask] \in {"taken", "ran"}
  /\ status[ShutdownTask] = "called" => calling[Disp] = ShutdownTask

(* The inductive invariant: the types, and where everything is.             *)
Consistent == TypeOK /\ ListOK /\ CallsOK /\ TakenOK /\ ThreadOK /\ ClosingOK

(* flush() runs tasks with m_taskLock held, and addTask locks it again in   *)
(* the same thread: such a task blocks the dispatcher for good.             *)
BlockedInFlush == flushing /\ calling[Disp] # NoTask

(* A task that addTask accepted is executed, or dropped because it expired: *)
(* stop() and shutdown() lose none, unless a flushed task calls addTask.    *)
AcceptedTasksSettle ==
  \A k \in Tasks :
    status[k] = "queued" ~> status[k] \in {"ran", "expired"} \/ BlockedInFlush

(* Once setGameState(GAME_STATE_SHUTDOWN) runs, the dispatcher's thread     *)
(* leaves its loop, so that main can join it (unless a flushed task blocks).*)
ClosingEnds ==
  pc = "body" /\ task = CloseTask ~> pc = "ended" \/ BlockedInFlush

(* The dispatcher implements TaskQueue.  The task its thread has taken but  *)
(* not yet looked at is still in the abstract queue: only there it becomes  *)
(* clear whether it is started or expires.                                  *)
Undecided == IF pc = "taken" /\ task # NoTask THEN <<task>> ELSE <<>>

FateOf(k) ==
  CASE status[k] \in {"new", "called"} -> "none"
    [] status[k] = "taken" /\ pc = "taken" /\ task = k -> "queued"
    [] status[k] = "taken" /\ ~(pc = "taken" /\ task = k) -> "started"
    [] status[k] = "ran" -> "done"
    [] OTHER -> status[k]

Queue == INSTANCE TaskQueue WITH
           queue <- Undecided \o taskList,
           fate <- [k \in Tasks |-> FateOf(k)],
           open <- threadState = "RUNNING"

ImplementsTaskQueue == Queue!Spec
=============================================================================
