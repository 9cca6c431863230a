--------------------------- MODULE DispatcherProofs ---------------------------
(* Theorems about Dispatcher, for any set of threads and of tasks.          *)
EXTENDS Dispatcher, TLAPS

(* Popping the front of a list leaves a list of what was behind it.         *)
LEMMA TailIndices ==
  ASSUME NEW S, NEW s \in Seq(S), s # <<>>
  PROVE  /\ Head(s) \in S
         /\ Tail(s) \in Seq(S)
         /\ Head(s) = s[1]
         /\ 1 \in 1..Len(s)
         /\ \A i \in 1..Len(Tail(s)) : i + 1 \in 1..Len(s) /\ Tail(s)[i] = s[i + 1]
  OBVIOUS

(* What a sequence holds once an element is appended.                       *)
LEMMA AppendIndices ==
  ASSUME NEW S, NEW s \in Seq(S), NEW e \in S
  PROVE  /\ Append(s, e) \in Seq(S)
         /\ Len(Append(s, e)) = Len(s) + 1
         /\ \A i \in 1..Len(s) : Append(s, e)[i] = s[i]
         /\ Append(s, e)[Len(s) + 1] = e
  OBVIOUS

(* The dispatcher starts consistent.                                        *)
LEMMA InitConsistent == Init => Consistent
<1> SUFFICES ASSUME Init PROVE Consistent
  OBVIOUS
<1> USE TaskAssumption DEF Init
<1>1. TypeOK
  <2>1. taskList \in Seq(Tasks) /\ lapsed \subseteq Droppable
    OBVIOUS
  <2>2. calling \in [Threads -> Tasks \cup {NoTask}] /\ signal \in [Threads -> BOOLEAN]
    OBVIOUS
  <2>3. status \in [Tasks -> Status]
    BY DEF Status
  <2> QED BY <2>1, <2>2, <2>3 DEF TypeOK, DispatcherState, PCs
<1>2. ListOK /\ CallsOK /\ TakenOK
  <2>1. 1..Len(taskList) = {}
    OBVIOUS
  <2>2. \A t \in Threads : calling[t] = NoTask
    OBVIOUS
  <2>3. \A k \in Tasks : status[k] = "new"
    OBVIOUS
  <2> QED BY <2>1, <2>2, <2>3 DEF ListOK, CallsOK, TakenOK
<1>3. ThreadOK
  BY DEF ThreadOK, Idle, Threads
<1>4. ClosingOK
  BY DEF ClosingOK, ClosingReachesShutdown
<1> QED BY <1>1, <1>2, <1>3, <1>4 DEF Consistent

(* Every variable keeps its type: src/src/tasks.cpp never leaves a state    *)
(* the declarations of tasks.h do not allow.                                *)
LEMMA TypeStep == TypeOK /\ [Next]_vars => TypeOK'
<1> SUFFICES ASSUME TypeOK, [Next]_vars PROVE TypeOK'
  OBVIOUS
<1> USE DEF TypeOK, DispatcherState, PCs, Status
<1>1. ASSUME NEW t \in Threads, NEW k \in Tasks, CallAddTask(t, k) PROVE TypeOK'
  BY <1>1 DEF CallAddTask
<1>2. ASSUME NEW t \in Threads, Accept(t) PROVE TypeOK'
  <2>1. calling[t] \in Tasks
    BY <1>2 DEF Accept
  <2> QED BY <1>2, <2>1, AppendIndices DEF Accept, DoSignal
<1>3. ASSUME NEW t \in Threads, Refuse(t) PROVE TypeOK'
  BY <1>3 DEF Refuse
<1>4. ASSUME NEW t \in Threads, Notify(t) PROVE TypeOK'
  BY <1>4 DEF Notify
<1>5. CASE TestState
  BY <1>5 DEF TestState
<1>6. CASE Wait \/ WakeSpuriously
  BY <1>6 DEF Wait, WakeSpuriously
<1>7. CASE Take
  BY <1>7, TailIndices DEF Take, TakeFront
<1>8. CASE Execute \/ Skip \/ Return
  BY <1>8, TaskAssumption DEF Execute, Skip, Return
<1>9. CASE Stop \/ Shutdown
  BY <1>9 DEF Stop, Shutdown
<1>10. CASE FlushNext
  BY <1>10, TailIndices DEF FlushNext, TakeFront
<1>11. CASE FlushEnd
  BY <1>11, TaskAssumption DEF FlushEnd
<1>12. ASSUME NEW k \in Droppable, Lapse(k) PROVE TypeOK'
  BY <1>12 DEF Lapse
<1>13. CASE UNCHANGED vars
  BY <1>13 DEF vars
<1> QED
  BY <1>1, <1>2, <1>3, <1>4, <1>5, <1>6, <1>7, <1>8, <1>9, <1>10, <1>11, <1>12,
     <1>13 DEF Next, DispSteps, AddSteps

(* The type invariant holds in every reachable state.                       *)
THEOREM TypeCorrect == Spec => []TypeOK
<1>1. Init => TypeOK
  BY InitConsistent DEF Consistent
<1>2. TypeOK /\ [Next]_vars => TypeOK'
  BY TypeStep
<1> QED
  BY <1>1, <1>2, PTL DEF Spec

(* What a step of the dispatcher's thread or of addTask does to the places *)
(* of the tasks, one action at a time.                                      *)
LEMMA ConsistentStep == Consistent /\ [Next]_vars => Consistent'
<1> SUFFICES ASSUME Consistent, [Next]_vars PROVE Consistent'
  OBVIOUS
<1>0. TypeOK /\ TypeOK'
  BY TypeStep DEF Consistent
<1>a. Disp \in Threads
  BY DEF Threads
<1> USE TaskAssumption DEF Consistent, TypeOK, ClosingReachesShutdown, Idle
<1>1. ASSUME NEW t \in Threads, NEW k \in Tasks, CallAddTask(t, k)
      PROVE  Consistent'
  <2> USE <1>1 DEF CallAddTask, MayAdd
  <2>1. ListOK'
    BY DEF ListOK
  <2>2. CallsOK'
    BY DEF CallsOK
  <2>3. TakenOK'
    BY DEF TakenOK
  <2>4. ThreadOK'
    BY <1>a DEF ThreadOK
  <2>5. ClosingOK'
    BY <1>a DEF ClosingOK
  <2> QED BY <1>0, <2>1, <2>2, <2>3, <2>4, <2>5
<1>2. ASSUME NEW t \in Threads, Accept(t) PROVE Consistent'
  <2> USE <1>2 DEF Accept, Accepting
  <2>0. calling[t] \in Tasks /\ status[calling[t]] = "called"
    BY DEF CallsOK
  <2>1. ListOK'
    <3>1. \A i \in 1..Len(taskList) : taskList[i] # calling[t] /\ taskList[i] \in Tasks
      BY <2>0 DEF ListOK
    <3> QED BY <2>0, <3>1, AppendIndices DEF ListOK
  <2>2. CallsOK'
    BY <2>0 DEF CallsOK
  <2>3. TakenOK'
    BY <2>0 DEF TakenOK
  <2>4. ThreadOK'
    BY <1>a, <2>0 DEF ThreadOK, DoSignal
  <2>5. ClosingOK'
    BY <1>a, <2>0 DEF ClosingOK
  <2> QED BY <1>0, <2>1, <2>2, <2>3, <2>4, <2>5
<1>3. ASSUME NEW t \in Threads, Refuse(t) PROVE Consistent'
  <2> USE <1>3 DEF Refuse, Accepting
  <2>0. calling[t] \in Tasks /\ status[calling[t]] = "called"
    BY DEF CallsOK
  <2>1. calling[t] # ShutdownTask
    BY <2>0 DEF ClosingOK, DispatcherState
  <2>2. ListOK'
    BY <2>0 DEF ListOK
  <2>3. CallsOK'
    BY <2>0 DEF CallsOK
  <2>4. TakenOK'
    BY <2>0 DEF TakenOK
  <2>5. ThreadOK' /\ ClosingOK'
    BY <1>a, <2>0, <2>1 DEF ThreadOK, ClosingOK
  <2> QED BY <1>0, <2>2, <2>3, <2>4, <2>5
<1>4. ASSUME NEW t \in Threads, Notify(t) PROVE Consistent'
  <2> USE <1>4 DEF Notify
  <2>1. ListOK' /\ CallsOK' /\ ClosingOK'
    BY DEF ListOK, CallsOK, ClosingOK
  <2>2. TakenOK' /\ ThreadOK'
    BY <1>a DEF TakenOK, ThreadOK
  <2> QED BY <1>0, <2>1, <2>2
<1>5. CASE TestState
  BY <1>0, <1>5, <1>a DEF TestState, KeepsRunning, ListOK, CallsOK, TakenOK, ThreadOK, ClosingOK
<1>6. CASE Wait \/ WakeSpuriously
  BY <1>0, <1>6, <1>a DEF Wait, WakeSpuriously, ListOK, CallsOK, TakenOK, ThreadOK, ClosingOK
<1>7. CASE Take
  <2> USE <1>7 DEF Take
  <2>1. CASE taskList # <<>> /\ threadState # "TERMINATED"
    <3> USE <2>1 DEF TakeFront
    <3>0. Head(taskList) \in Tasks /\ status[Head(taskList)] = "queued"
      BY TailIndices DEF ListOK
    <3>1. ListOK'
      <4>1. /\ taskList' = Tail(taskList)
            /\ status' = [status EXCEPT ![Head(taskList)] = "taken"]
        OBVIOUS
      <4> QED BY <3>0, <4>1, TailIndices DEF ListOK
    <3>2. CallsOK'
      BY <3>0 DEF CallsOK
    <3>3. TakenOK'
      BY <3>0 DEF TakenOK, ThreadOK
    <3>4. ThreadOK' /\ ClosingOK'
      BY <3>0, <1>a DEF ThreadOK, ClosingOK
    <3> QED BY <1>0, <3>1, <3>2, <3>3, <3>4
  <2>2. CASE ~(taskList # <<>> /\ threadState # "TERMINATED")
    BY <1>0, <2>2, <1>a DEF ListOK, CallsOK, TakenOK, ThreadOK, ClosingOK
  <2> QED BY <2>1, <2>2
<1>8. CASE Execute
  BY <1>0, <1>8, <1>a DEF Execute, ListOK, CallsOK, TakenOK, ThreadOK, ClosingOK
<1>9. CASE Skip
  <2> USE <1>9 DEF Skip
  <2>1. CASE task = NoTask
    BY <1>0, <2>1, <1>a DEF ListOK, CallsOK, TakenOK, ThreadOK, ClosingOK
  <2>2. CASE task # NoTask
    <3>0. task \in Tasks /\ status[task] = "taken" /\ task # ShutdownTask
      BY <2>2 DEF TakenOK
    <3>1. ListOK' /\ CallsOK'
      BY <3>0 DEF ListOK, CallsOK
    <3>2. TakenOK'
      BY <2>2, <3>0 DEF TakenOK
    <3>3. ThreadOK' /\ ClosingOK'
      BY <2>2, <3>0, <1>a DEF ThreadOK, ClosingOK
    <3> QED BY <1>0, <3>1, <3>2, <3>3
  <2> QED BY <2>1, <2>2
<1>10. CASE Return
  <2> USE <1>10 DEF Return, BodyDone
  <2>0. task \in Tasks /\ status[task] = "taken"
    BY DEF TakenOK
  <2>1. ListOK' /\ CallsOK'
    BY <2>0 DEF ListOK, CallsOK
  <2>2. TakenOK'
    BY <2>0 DEF TakenOK
  <2>3. ThreadOK' /\ ClosingOK'
    BY <2>0, <1>a DEF ThreadOK, ClosingOK
  <2> QED BY <1>0, <2>1, <2>2, <2>3
<1>11. CASE Stop
  <2> USE <1>11 DEF Stop, MayStop
  <2>1. ListOK' /\ CallsOK' /\ TakenOK' /\ ThreadOK'
    BY <1>a DEF ListOK, CallsOK, TakenOK, ThreadOK
  <2>2. ClosingOK'
    BY <1>a DEF ClosingOK
  <2> QED BY <1>0, <2>1, <2>2
<1>12. CASE Shutdown
  <2> USE <1>12 DEF Shutdown
  <2>1. ListOK' /\ CallsOK'
    BY DEF ListOK, CallsOK
  <2>2. TakenOK'
    BY DEF TakenOK
  <2>3. ThreadOK' /\ ClosingOK'
    BY <1>a DEF ThreadOK, ClosingOK, TakenOK
  <2> QED BY <1>0, <2>1, <2>2, <2>3
<1>13. CASE FlushNext
  <2> USE <1>13 DEF FlushNext, TakeFront
  <2>0. Head(taskList) \in Tasks /\ status[Head(taskList)] = "queued"
    BY TailIndices DEF ListOK
  <2>1. ListOK'
    BY <2>0, TailIndices DEF ListOK
  <2>2. CallsOK'
    BY <2>0 DEF CallsOK
  <2>3. TakenOK'
    BY <2>0 DEF TakenOK
  <2>4. ThreadOK' /\ ClosingOK'
    BY <2>0, <1>a DEF ThreadOK, ClosingOK
  <2> QED BY <1>0, <2>1, <2>2, <2>3, <2>4
<1>14. CASE FlushEnd
  <2> USE <1>14 DEF FlushEnd, FlushFinished
  <2>1. ListOK' /\ CallsOK'
    BY DEF ListOK, CallsOK
  <2>2. TakenOK'
    BY DEF TakenOK, ThreadOK
  <2>3. ThreadOK' /\ ClosingOK'
    BY <1>a DEF ThreadOK, ClosingOK
  <2> QED BY <1>0, <2>1, <2>2, <2>3
<1>15. ASSUME NEW k \in Droppable, Lapse(k) PROVE Consistent'
  BY <1>0, <1>15, <1>a DEF Lapse, ListOK, CallsOK, TakenOK, ThreadOK, ClosingOK
<1>16. CASE UNCHANGED vars
  BY <1>0, <1>16, <1>a DEF vars, ListOK, CallsOK, TakenOK, ThreadOK, ClosingOK
<1> QED
  BY <1>1, <1>2, <1>3, <1>4, <1>5, <1>6, <1>7, <1>8, <1>9, <1>10, <1>11, <1>12,
     <1>13, <1>14, <1>15, <1>16 DEF Next, DispSteps, AddSteps

(* The inductive invariant holds in every reachable state.                  *)
THEOREM ConsistentCorrect == Spec => []Consistent
  BY InitConsistent, ConsistentStep, PTL DEF Spec

(* A closing dispatcher, which refuses every task, still holds Game::shutdown *)
(* or is executing it: the order of the calls in Game::setGameState makes   *)
(* sure of it, in whatever order the other threads add tasks.               *)
THEOREM ClosingReachesShutdownCorrect == Spec => []ClosingReachesShutdown
<1>1. Consistent => ClosingReachesShutdown
  BY DEF Consistent, ClosingOK
<1> QED
  BY <1>1, ConsistentCorrect, PTL

(* A wake-up of the dispatcher's thread is never lost: the thread that found *)
(* the list empty is the one that notifies, and it has not done so yet.     *)
THEOREM NoLostWakeupCorrect == Spec => []NoLostWakeup
<1>1. Init => NoLostWakeup
  BY DEF Init, NoLostWakeup
<1>2. Consistent /\ NoLostWakeup /\ [Next]_vars => NoLostWakeup'
  <2> SUFFICES ASSUME Consistent, NoLostWakeup, [Next]_vars PROVE NoLostWakeup'
    OBVIOUS
  <2> USE DEF Consistent, TypeOK, NoLostWakeup
  <2>1. ASSUME NEW t \in Threads, Accept(t) PROVE NoLostWakeup'
    <3>1. CASE taskList = <<>>
      BY <2>1, <3>1 DEF Accept, DoSignal
    <3>2. CASE taskList # <<>> /\ pc = "wait"
      <4>1. PICK u \in Threads : signal[u]
        BY <3>2
      <4>2. u # t
        BY <2>1, <4>1 DEF Accept, CallsOK
      <4> QED BY <2>1, <4>1, <4>2 DEF Accept
    <3>3. CASE pc # "wait"
      BY <2>1, <3>3 DEF Accept
    <3> QED BY <3>1, <3>2, <3>3
  <2>2. ASSUME NEW t \in Threads, Notify(t) PROVE NoLostWakeup'
    <3>1. pc' # "wait"
      BY <2>2 DEF Notify
    <3> QED BY <3>1
  <2>3. ASSUME NEW t \in Threads, Refuse(t) \/ \E k \in Tasks : CallAddTask(t, k)
        PROVE  NoLostWakeup'
    BY <2>3 DEF Refuse, CallAddTask
  <2>4. CASE Wait
    BY <2>4 DEF Wait
  <2>5. CASE TestState \/ WakeSpuriously \/ Take \/ Execute \/ Skip \/ Return
    <3>1. pc' # "wait"
      BY <2>5 DEF TestState, WakeSpuriously, Take, Execute, Skip, Return
    <3> QED BY <3>1
  <2>6. CASE Stop \/ Shutdown \/ FlushNext \/ FlushEnd
    BY <2>6 DEF Stop, Shutdown, FlushNext, FlushEnd
  <2>7. CASE UNCHANGED vars \/ \E k \in Droppable : Lapse(k)
    BY <2>7 DEF vars, Lapse
  <2> QED
    BY <2>1, <2>2, <2>3, <2>4, <2>5, <2>6, <2>7 DEF Next, DispSteps, AddSteps
<1> QED
  BY <1>1, <1>2, ConsistentCorrect, PTL DEF Spec

-----------------------------------------------------------------------------
(* The dispatcher implements TaskQueue.                                     *)

(* What a sequence holds once an element is put in front.                   *)
LEMMA ConcatFacts ==
  ASSUME NEW S, NEW s \in Seq(S), NEW x \in S
  PROVE  /\ <<>> \o s = s
         /\ <<x>> \o s \in Seq(S)
         /\ <<x>> \o s # <<>>
         /\ Head(<<x>> \o s) = x
         /\ Tail(<<x>> \o s) = s
         /\ \A e \in S : Append(<<x>> \o s, e) = <<x>> \o Append(s, e)
         /\ s # <<>> => <<Head(s)>> \o Tail(s) = s
  OBVIOUS

(* The initial states are those of the abstract queue.                      *)
LEMMA QueueInit == Init => Queue!Init
<1> SUFFICES ASSUME Init PROVE Queue!Init
  OBVIOUS
<1>1. Undecided \o taskList = <<>>
  BY ConcatFacts DEF Init, Undecided
<1>2. \A k \in Tasks : FateOf(k) = "none"
  BY DEF Init, FateOf
<1> QED BY <1>1, <1>2 DEF Init, Queue!Init

(* Every step is one of the abstract queue, or leaves it alone.             *)
LEMMA QueueStep ==
  Consistent /\ Consistent' /\ [Next]_vars => [Queue!Next]_(Queue!vars)
<1> SUFFICES ASSUME Consistent, Consistent', [Next]_vars
             PROVE  Queue!Next \/ UNCHANGED Queue!vars
  BY DEF Queue!vars
<1> DEFINE fate == [k \in Tasks |-> FateOf(k)]
<1> USE TaskAssumption DEF Consistent, TypeOK
<1>1. ASSUME NEW t \in Threads, NEW k \in Tasks, CallAddTask(t, k)
      PROVE  UNCHANGED Queue!vars
  <2>1. \A j \in Tasks : FateOf(j)' = FateOf(j)
    BY <1>1 DEF CallAddTask, FateOf
  <2>2. UNCHANGED <<Undecided, taskList, threadState>>
    BY <1>1 DEF CallAddTask, Undecided
  <2> QED BY <2>1, <2>2 DEF Queue!vars
<1>2. ASSUME NEW t \in Threads, Accept(t) PROVE \E k \in Tasks : Queue!Accept(k)
  <2>0. PICK k \in Tasks : k = calling[t] /\ status[k] = "called"
    BY <1>2 DEF Accept, CallsOK
  <2>1. FateOf(k) = "none" /\ FateOf(k)' = "queued"
    BY <1>2, <2>0 DEF Accept, FateOf
  <2>2. \A j \in Tasks \ {k} : FateOf(j)' = FateOf(j)
    BY <1>2, <2>0 DEF Accept, FateOf
  <2>3. fate' = [fate EXCEPT ![k] = "queued"]
    BY <2>0, <2>1, <2>2
  <2>4. (Undecided \o taskList)' = Append(Undecided \o taskList, k)
    BY <1>2, <2>0, ConcatFacts, AppendIndices DEF Accept, Undecided
  <2> QED BY <1>2, <2>0, <2>1, <2>3, <2>4 DEF Accept, Accepting, Queue!Accept
<1>3. ASSUME NEW t \in Threads, Refuse(t) PROVE \E k \in Tasks : Queue!Refuse(k)
  <2>0. PICK k \in Tasks : k = calling[t] /\ status[k] = "called"
    BY <1>3 DEF Refuse, CallsOK
  <2>1. FateOf(k) = "none" /\ FateOf(k)' = "refused"
    BY <1>3, <2>0 DEF Refuse, FateOf
  <2>2. \A j \in Tasks \ {k} : FateOf(j)' = FateOf(j)
    BY <1>3, <2>0 DEF Refuse, FateOf
  <2>3. fate' = [fate EXCEPT ![k] = "refused"]
    BY <2>0, <2>1, <2>2
  <2>4. UNCHANGED <<Undecided, taskList, threadState>>
    BY <1>3 DEF Refuse, Undecided
  <2> QED BY <1>3, <2>0, <2>1, <2>3, <2>4 DEF Refuse, Accepting, Queue!Refuse
<1>4. ASSUME \/ \E t \in Threads : Notify(t)
             \/ TestState \/ Wait \/ WakeSpuriously
             \/ \E k \in Droppable : Lapse(k)
             \/ UNCHANGED vars
      PROVE  UNCHANGED Queue!vars
  <2>1. UNCHANGED <<taskList, threadState, status>>
    BY <1>4 DEF Notify, TestState, Wait, WakeSpuriously, Lapse, vars
  <2>2. (pc = "taken" /\ pc' = "taken" /\ task' = task) \/ (pc # "taken" /\ pc' # "taken")
    BY <1>4 DEF Notify, TestState, Wait, WakeSpuriously, Lapse, vars
  <2>3. Undecided' = Undecided /\ \A k \in Tasks : FateOf(k)' = FateOf(k)
    BY <2>1, <2>2 DEF Undecided, FateOf
  <2> QED BY <2>1, <2>3 DEF Queue!vars
<1>5. ASSUME Take PROVE UNCHANGED Queue!vars
  <2>0. task = NoTask /\ pc # "taken" /\ ~flushing
    BY <1>5 DEF Take, ThreadOK
  <2>1. CASE taskList # <<>> /\ threadState # "TERMINATED"
    <3>1. /\ Head(taskList) \in Tasks
          /\ status[Head(taskList)] = "queued"
          /\ status' = [status EXCEPT ![Head(taskList)] = "taken"]
          /\ task' = Head(taskList)
          /\ taskList' = Tail(taskList)
          /\ pc' = "taken"
          /\ threadState' = threadState
      BY <1>5, <2>1, TailIndices DEF Take, TakeFront, ListOK
    <3>2. \A k \in Tasks : FateOf(k)' = FateOf(k)
      BY <2>0, <3>1 DEF FateOf
    <3>3. Undecided = <<>> /\ Undecided' = <<Head(taskList)>>
      BY <2>0, <3>1 DEF Undecided
    <3>4. (Undecided \o taskList)' = Undecided \o taskList
      BY <2>1, <3>1, <3>3, ConcatFacts
    <3> QED BY <3>1, <3>2, <3>4 DEF Queue!vars
  <2>2. CASE ~(taskList # <<>> /\ threadState # "TERMINATED")
    <3>1. UNCHANGED <<taskList, task, status, threadState>> /\ pc' = "taken"
      BY <1>5, <2>2 DEF Take
    <3>2. Undecided' = Undecided /\ \A k \in Tasks : FateOf(k)' = FateOf(k)
      BY <2>0, <3>1 DEF Undecided, FateOf
    <3> QED BY <3>1, <3>2 DEF Queue!vars
  <2> QED BY <2>1, <2>2
<1>6. ASSUME Execute PROVE Queue!Start(task)
  <2>0. /\ task \in Tasks /\ status[task] = "taken"
        /\ pc = "taken" /\ pc' = "body" /\ ~flushing
        /\ UNCHANGED <<taskList, threadState, status, task>>
    BY <1>6 DEF Execute, TakenOK, ThreadOK
  <2>1. \A j \in Tasks : FateOf(j) # "started"
    BY <2>0 DEF FateOf, TakenOK, Status
  <2>2. FateOf(task)' = "started" /\ \A j \in Tasks \ {task} : FateOf(j)' = FateOf(j)
    BY <2>0 DEF FateOf, TakenOK
  <2>3. fate' = [fate EXCEPT ![task] = "started"]
    BY <2>0, <2>2
  <2>4. Undecided = <<task>> /\ Undecided' = <<>>
    BY <2>0 DEF Undecided
  <2>5. /\ Undecided \o taskList # <<>>
        /\ Head(Undecided \o taskList) = task
        /\ Tail(Undecided \o taskList) = taskList
        /\ (Undecided \o taskList)' = taskList
    BY <2>0, <2>4, ConcatFacts
  <2> QED BY <2>0, <2>1, <2>3, <2>5 DEF Queue!Start
<1>7. ASSUME Skip, task = NoTask PROVE UNCHANGED Queue!vars
  <2>1. UNCHANGED <<taskList, threadState, status, task>> /\ pc = "taken" /\ pc' = "test"
    BY <1>7 DEF Skip
  <2>2. Undecided' = Undecided /\ \A k \in Tasks : FateOf(k)' = FateOf(k)
    BY <1>7, <2>1 DEF Undecided, FateOf
  <2> QED BY <2>1, <2>2 DEF Queue!vars
<1>8. ASSUME Skip, task # NoTask PROVE Queue!Expire(task)
  <2>0. /\ task \in Droppable /\ task \in Tasks /\ status[task] = "taken"
        /\ pc = "taken" /\ pc' = "test" /\ ~flushing
        /\ status' = [status EXCEPT ![task] = "expired"]
        /\ UNCHANGED <<taskList, threadState, task>>
    BY <1>8 DEF Skip, TakenOK, ThreadOK
  <2>2. FateOf(task)' = "expired" /\ \A j \in Tasks \ {task} : FateOf(j)' = FateOf(j)
    BY <2>0 DEF FateOf, TakenOK
  <2>3. fate' = [fate EXCEPT ![task] = "expired"]
    BY <2>0, <2>2
  <2>4. Undecided = <<task>> /\ Undecided' = <<>>
    BY <2>0 DEF Undecided
  <2>5. /\ Undecided \o taskList # <<>>
        /\ Head(Undecided \o taskList) = task
        /\ Tail(Undecided \o taskList) = taskList
        /\ (Undecided \o taskList)' = taskList
    BY <2>0, <2>4, ConcatFacts
  <2> QED BY <2>0, <2>3, <2>5 DEF Queue!Expire
<1>9. ASSUME Return PROVE Queue!Finish(task)
  <2>0. /\ task \in Tasks /\ status[task] = "taken"
        /\ pc = "body" /\ pc' # "taken"
        /\ status' = [status EXCEPT ![task] = "ran"]
        /\ UNCHANGED <<taskList, threadState, task>>
    BY <1>9 DEF Return, TakenOK
  <2>1. FateOf(task) = "started" /\ FateOf(task)' = "done"
    BY <2>0 DEF FateOf
  <2>2. \A j \in Tasks \ {task} : FateOf(j)' = FateOf(j)
    BY <2>0 DEF FateOf
  <2>3. fate' = [fate EXCEPT ![task] = "done"]
    BY <2>0, <2>1, <2>2
  <2>4. Undecided = <<>> /\ Undecided' = <<>>
    BY <2>0 DEF Undecided
  <2> QED BY <2>0, <2>1, <2>3, <2>4 DEF Queue!Finish
<1>10. ASSUME Stop \/ Shutdown PROVE Queue!Close \/ UNCHANGED Queue!vars
  <2>1. /\ UNCHANGED <<taskList, status, task>>
        /\ pc # "taken" /\ pc' # "taken"
        /\ threadState' # "RUNNING"
    BY <1>10 DEF Stop, Shutdown
  <2>2. Undecided' = Undecided /\ \A k \in Tasks : FateOf(k)' = FateOf(k)
    BY <2>1 DEF Undecided, FateOf
  <2> QED BY <2>1, <2>2 DEF Queue!Close, Queue!vars
<1>11. ASSUME FlushNext PROVE \E k \in Tasks : Queue!Start(k)
  <2>0. PICK k \in Tasks :
          /\ k = Head(taskList) /\ status[k] = "queued"
          /\ taskList # <<>> /\ taskList' = Tail(taskList)
          /\ status' = [status EXCEPT ![k] = "taken"]
          /\ pc = "flush" /\ pc' = "body" /\ flushing
          /\ UNCHANGED threadState
    <3>1. Head(taskList) \in Tasks /\ status[Head(taskList)] = "queued"
      BY <1>11, TailIndices DEF FlushNext, ListOK
    <3> QED BY <1>11, <3>1 DEF FlushNext, TakeFront, ThreadOK
  <2>1. \A j \in Tasks : FateOf(j) = "started" => j = ShutdownTask
    BY <2>0 DEF FateOf, TakenOK, Status
  <2>2. /\ FateOf(k)' = "started"
        /\ \A j \in Tasks \ {k} : FateOf(j)' = FateOf(j)
    BY <2>0 DEF FateOf
  <2>3. fate' = [fate EXCEPT ![k] = "started"]
    BY <2>0, <2>2
  <2>4. /\ Undecided = <<>> /\ Undecided' = <<>>
        /\ Undecided \o taskList = taskList
        /\ (Undecided \o taskList)' = Tail(taskList)
    BY <2>0, TailIndices, ConcatFacts DEF Undecided
  <2> QED BY <2>0, <2>1, <2>3, <2>4 DEF Queue!Start
<1>12. ASSUME FlushEnd PROVE UNCHANGED Queue!vars
  <2>1. UNCHANGED <<taskList, threadState, status>> /\ pc = "flush" /\ pc' = "body"
    BY <1>12 DEF FlushEnd
  <2>2. Undecided' = Undecided /\ \A k \in Tasks : FateOf(k)' = FateOf(k)
    BY <2>1 DEF Undecided, FateOf
  <2> QED BY <2>1, <2>2 DEF Queue!vars
<1>13. Execute \/ (Skip /\ task # NoTask) \/ Return => task \in Tasks
  BY DEF Execute, Return, TakenOK
<1> QED
  BY <1>1, <1>2, <1>3, <1>4, <1>5, <1>6, <1>7, <1>8, <1>9, <1>10, <1>11, <1>12,
     <1>13 DEF Next, DispSteps, AddSteps, Queue!Next

(* Whatever the threads and the tasks do, g_dispatcher is the queue its users *)
(* rely on: first in first out, each task started once or dropped when it   *)
(* has expired, one at a time, none accepted after stop().                  *)
THEOREM DispatcherImplementsTaskQueue == Spec => ImplementsTaskQueue
  BY QueueInit, QueueStep, ConsistentCorrect, PTL
  DEF Spec, ImplementsTaskQueue, Queue!Spec
=============================================================================
