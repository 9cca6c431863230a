--------------------------- MODULE SchedulerProofs ---------------------------
(* Theorems about Scheduler, for any set of clients and of events, any      *)
(* range of ids and any clock.                                              *)
EXTENDS Scheduler, TLAPS

(* The scheduler starts consistent.                                         *)
LEMMA InitConsistent == Init => Consistent
<1> SUFFICES ASSUME Init PROVE Consistent
  OBVIOUS
<1> USE EventAssumption, NumberAssumption DEF Init
<1>1. TypeOK
  <2>1. cycle \in [Events -> Nat] /\ eventId \in [Events -> 0..MaxId]
    OBVIOUS
  <2>2. status \in [Events -> Status]
    BY DEF Status
  <2>3. adding \in [Clients -> Events \cup {NoEvent}]
    OBVIOUS
  <2>4. now \in 0..MaxTime /\ lastEventId \in 0..MaxId
    OBVIOUS
  <2>5. step \in [Clients -> {"idle", "called", "signal", "return"}]
    OBVIOUS
  <2>6. eventList \subseteq Events /\ eventIds \subseteq 1..MaxId
    OBVIOUS
  <2> QED BY <2>1, <2>2, <2>3, <2>4, <2>5, <2>6 DEF TypeOK, SchedulerState
<1>2. EventsOK
  BY DEF EventsOK
<1>3. IdsNameEvents /\ TimeoutHasEvent /\ NoLateWait
  BY DEF IdsNameEvents, TimeoutHasEvent, NoLateWait
<1> QED BY <1>1, <1>2, <1>3 DEF Consistent

(* Every variable keeps its type; the thread never handles a missing event. *)
LEMMA TypeStep == TypeOK /\ EventsOK /\ [Next]_vars => TypeOK'
<1> SUFFICES ASSUME TypeOK, EventsOK, [Next]_vars PROVE TypeOK'
  OBVIOUS
<1> USE EventAssumption, NumberAssumption
    DEF TypeOK, SchedulerState, Status, data, sched, calls
<1>1. CASE Tick
  BY <1>1 DEF Tick
<1>2. ASSUME NEW c \in Clients, NEW e \in Events, NEW d \in Delays, CallAddEvent(c, e, d)
      PROVE  TypeOK'
  <2>1. now + Delay(d) \in Nat
    BY DEF Delay
  <2> QED BY <1>2, <2>1 DEF CallAddEvent
<1>3. ASSUME NEW c \in Clients, AddEvent(c) PROVE TypeOK'
  <2>1. adding[c] \in Events
    BY <1>3 DEF AddEvent, EventsOK
  <2>2. /\ lastEventId' \in 0..MaxId
        /\ eventIds' \subseteq 1..MaxId
        /\ eventId' \in [Events -> 0..MaxId]
    <3>1. NextId \in 1..MaxId /\ NextId \in 0..MaxId
      BY DEF NextId
    <3>2. /\ lastEventId' = NextId
          /\ eventIds' = eventIds \cup {NextId}
          /\ eventId' = [eventId EXCEPT ![adding[c]] = NextId]
      BY <1>3 DEF AddEvent
    <3> QED BY <3>1, <3>2
  <2>3. eventList' \subseteq Events /\ status' \in [Events -> Status]
    BY <1>3, <2>1 DEF AddEvent
  <2>4. step' \in [Clients -> {"idle", "called", "signal", "return"}]
    BY <1>3 DEF AddEvent
  <2> QED BY <1>3, <2>2, <2>3, <2>4 DEF AddEvent
<1>4. ASSUME NEW c \in Clients, RefuseEvent(c) PROVE TypeOK'
  BY <1>4 DEF RefuseEvent
<1>5. ASSUME NEW c \in Clients, Notify(c) PROVE TypeOK'
  BY <1>5 DEF Notify
<1>6. ASSUME NEW c \in Clients, ReturnId(c) PROVE TypeOK'
  BY <1>6 DEF ReturnId
<1>7. ASSUME NEW c \in Clients, NEW id \in 1..MaxId, StopEvent(c, id) PROVE TypeOK'
  BY <1>7 DEF StopEvent
<1>8. CASE Stop
  BY <1>8 DEF Stop
<1>9. CASE Shutdown
  BY <1>9 DEF Shutdown
<1>10. CASE TestState \/ Timeout \/ NoPop \/ WakeSpuriously
  BY <1>10 DEF TestState, Timeout, NoPop, WakeSpuriously
<1>11. CASE Wait
  BY <1>11 DEF Wait
<1>12. CASE Send
  BY <1>12 DEF Send
<1>13. ASSUME NEW e \in Events, Pop(e) PROVE TypeOK'
  <2>1. runTask' \in BOOLEAN
    BY <1>13 DEF Pop, NotStopped
  <2>2. eventIds' \subseteq 1..MaxId /\ status' \in [Events -> Status]
    BY <1>13 DEF Pop, ForgetId
  <2> QED BY <1>13, <2>1, <2>2 DEF Pop
<1>14. ASSUME NEW e \in Events, DispatcherDeletes(e) PROVE TypeOK'
  BY <1>14 DEF DispatcherDeletes
<1>15. CASE UNCHANGED vars
  BY <1>15 DEF vars
<1> QED
  BY <1>1, <1>2, <1>3, <1>4, <1>5, <1>6, <1>7, <1>8, <1>9, <1>10, <1>11, <1>12,
     <1>13, <1>14, <1>15 DEF Next, AddSteps, ThreadSteps

(* Where the events are, their ids and the deadline of the wait, one action *)
(* at a time.                                                               *)
LEMMA ConsistentStep == Consistent /\ [Next]_vars => Consistent'
<1> SUFFICES ASSUME Consistent, [Next]_vars PROVE Consistent'
  OBVIOUS
<1>0. TypeOK'
  BY TypeStep DEF Consistent
<1> USE EventAssumption, NumberAssumption DEF Consistent, TypeOK, data, sched, calls
<1>1. CASE Tick
  BY <1>0, <1>1 DEF Tick, EventsOK, IdsNameEvents, TimeoutHasEvent, NoLateWait
<1>2. ASSUME NEW c \in Clients, NEW e \in Events, NEW d \in Delays, CallAddEvent(c, e, d)
      PROVE  Consistent'
  <2>0. e \notin eventList
    BY <1>2 DEF CallAddEvent, EventsOK
  <2>1. EventsOK'
    BY <1>2 DEF CallAddEvent, EventsOK
  <2>2. IdsNameEvents'
    BY <1>2 DEF CallAddEvent, IdsNameEvents
  <2>3. TimeoutHasEvent'
    <3>1. \A f \in eventList : cycle'[f] = cycle[f]
      BY <1>2, <2>0 DEF CallAddEvent
    <3> QED BY <1>2, <3>1 DEF CallAddEvent, TimeoutHasEvent
  <2>4. NoLateWait'
    <3>1. \A f \in eventList : cycle'[f] = cycle[f]
      BY <1>2, <2>0 DEF CallAddEvent
    <3>2. \A b \in Clients : step[b] = "signal" => step'[b] = "signal"
      BY <1>2 DEF CallAddEvent
    <3>3. UNCHANGED <<pc, eventList, deadline>>
      BY <1>2 DEF CallAddEvent
    <3> QED BY <3>1, <3>2, <3>3 DEF NoLateWait
  <2> QED BY <1>0, <2>1, <2>2, <2>3, <2>4
<1>3. ASSUME NEW c \in Clients, AddEvent(c) PROVE Consistent'
  <2>0. PICK e \in Events : e = adding[c] /\ status[e] = "created" /\ e \notin eventList
    BY <1>3 DEF AddEvent, EventsOK
  <2>a. /\ eventList' = eventList \cup {e}
        /\ status' = [status EXCEPT ![e] = "queued"]
        /\ eventId' = [eventId EXCEPT ![e] = NextId]
        /\ eventIds' = eventIds \cup {NextId}
        /\ step' = [step EXCEPT ![c] = IF DoSignal(e) THEN "signal" ELSE "return"]
        /\ step[c] = "called"
        /\ threadState = "RUNNING"
        /\ UNCHANGED <<threadState, cycle, sched, adding>>
    BY <1>3, <2>0 DEF AddEvent
  <2>1. EventsOK'
    BY <2>0, <2>a DEF EventsOK
  <2>2. IdsNameEvents'
    <3>1. \A f \in eventList : f # e /\ eventId'[f] = eventId[f] /\ eventId[f] # NextId
      BY <1>3, <2>0, <2>a DEF AddEvent, IdIsFree
    <3>2. eventId'[e] = NextId
      BY <2>0, <2>a
    <3> QED BY <2>0, <2>a, <3>1, <3>2 DEF IdsNameEvents
  <2>3. TimeoutHasEvent'
    BY <2>a DEF TimeoutHasEvent
  <2>4. NoLateWait'
    <3>1. ASSUME pc = "wait", NEW f \in eventList' PROVE
             \/ deadline # Never /\ deadline <= cycle[f]
             \/ \E b \in Clients : step'[b] = "signal"
      <4>1. CASE f \in eventList
        <5>1. \A b \in Clients : step[b] = "signal" => b # c /\ step'[b] = "signal"
          BY <2>a
        <5> QED BY <3>1, <4>1, <5>1 DEF NoLateWait
      <4>2. CASE f = e /\ DoSignal(e)
        BY <2>a, <4>2
      <4>3. CASE f = e /\ ~DoSignal(e)
        <5>1. PICK g \in eventList : cycle[g] <= cycle[e]
          BY <4>3 DEF DoSignal
        <5>2. CASE deadline # Never /\ deadline <= cycle[g]
          BY <4>3, <5>1, <5>2
        <5>3. CASE \E b \in Clients : step[b] = "signal"
          BY <2>a, <5>3
        <5> QED BY <3>1, <5>1, <5>2, <5>3 DEF NoLateWait
      <4> QED BY <2>a, <4>1, <4>2, <4>3
    <3> QED BY <2>a, <3>1 DEF NoLateWait
  <2> QED BY <1>0, <2>1, <2>2, <2>3, <2>4
<1>4. ASSUME NEW c \in Clients, RefuseEvent(c) PROVE Consistent'
  <2>0. adding[c] \in Events /\ status[adding[c]] = "created"
    BY <1>4 DEF RefuseEvent, EventsOK
  <2>1. EventsOK'
    BY <1>4, <2>0 DEF RefuseEvent, EventsOK
  <2>2. IdsNameEvents' /\ TimeoutHasEvent'
    BY <1>4 DEF RefuseEvent, IdsNameEvents, TimeoutHasEvent
  <2>3. NoLateWait'
    BY <1>4 DEF RefuseEvent, NoLateWait
  <2> QED BY <1>0, <2>1, <2>2, <2>3
<1>5. ASSUME NEW c \in Clients, Notify(c) PROVE Consistent'
  <2>1. EventsOK'
    BY <1>5 DEF Notify, EventsOK
  <2>2. IdsNameEvents' /\ TimeoutHasEvent'
    BY <1>5 DEF Notify, IdsNameEvents, TimeoutHasEvent
  <2>3. pc' # "wait"
    BY <1>5 DEF Notify
  <2> QED BY <1>0, <2>1, <2>2, <2>3 DEF NoLateWait
<1>6. ASSUME NEW c \in Clients, ReturnId(c) PROVE Consistent'
  <2>1. EventsOK'
    BY <1>6 DEF ReturnId, EventsOK
  <2>2. IdsNameEvents' /\ TimeoutHasEvent'
    BY <1>6 DEF ReturnId, IdsNameEvents, TimeoutHasEvent
  <2>3. NoLateWait'
    BY <1>6 DEF ReturnId, NoLateWait
  <2> QED BY <1>0, <2>1, <2>2, <2>3
<1>7. ASSUME NEW c \in Clients, NEW id \in 1..MaxId, StopEvent(c, id) PROVE Consistent'
  BY <1>0, <1>7 DEF StopEvent, EventsOK, IdsNameEvents, TimeoutHasEvent, NoLateWait
<1>8. CASE Stop
  BY <1>0, <1>8 DEF Stop, EventsOK, IdsNameEvents, TimeoutHasEvent, NoLateWait
<1>9. CASE Shutdown
  <2>1. EventsOK'
    BY <1>9 DEF Shutdown, EventsOK
  <2>2. IdsNameEvents' /\ TimeoutHasEvent' /\ NoLateWait'
    BY <1>9 DEF Shutdown, IdsNameEvents, TimeoutHasEvent, NoLateWait
  <2> QED BY <1>0, <2>1, <2>2
<1>10. CASE TestState
  BY <1>0, <1>10 DEF TestState, EventsOK, IdsNameEvents, TimeoutHasEvent, NoLateWait
<1>11. CASE Timeout \/ WakeSpuriously
  BY <1>0, <1>11 DEF Timeout, WakeSpuriously, EventsOK, IdsNameEvents, TimeoutHasEvent,
       NoLateWait
<1>12. CASE NoPop
  BY <1>0, <1>12 DEF NoPop, EventsOK, IdsNameEvents, TimeoutHasEvent, NoLateWait
<1>13. CASE Wait
  <2>1. EventsOK' /\ IdsNameEvents'
    BY <1>13 DEF Wait, EventsOK, IdsNameEvents
  <2>2. CASE eventList = {} /\ deadline' = Never
    BY <1>0, <1>13, <2>1, <2>2 DEF Wait, TimeoutHasEvent, NoLateWait
  <2>3. ASSUME NEW e \in eventList, IsTop(e), deadline' = cycle[e]
        PROVE  TimeoutHasEvent' /\ NoLateWait'
    <3>1. e \in Events /\ cycle[e] \in Nat
      OBVIOUS
    <3> QED BY <1>13, <2>3, <3>1 DEF Wait, IsTop, TimeoutHasEvent, NoLateWait
  <2> QED BY <1>0, <1>13, <2>1, <2>2, <2>3 DEF Wait
<1>14. CASE Send
  <2>1. EventsOK'
    BY <1>14 DEF Send, EventsOK
  <2>2. IdsNameEvents' /\ TimeoutHasEvent' /\ NoLateWait'
    BY <1>14 DEF Send, IdsNameEvents, TimeoutHasEvent, NoLateWait
  <2> QED BY <1>0, <2>1, <2>2
<1>15. ASSUME NEW e \in Events, Pop(e) PROVE Consistent'
  <2>1. EventsOK'
    BY <1>15 DEF Pop, IsTop, EventsOK
  <2>2. IdsNameEvents'
    BY <1>15 DEF Pop, IsTop, ForgetId, IdsNameEvents
  <2>3. TimeoutHasEvent' /\ NoLateWait'
    BY <1>15 DEF Pop, TimeoutHasEvent, NoLateWait
  <2> QED BY <1>0, <2>1, <2>2, <2>3
<1>16. ASSUME NEW e \in Events, DispatcherDeletes(e) PROVE Consistent'
  BY <1>0, <1>16 DEF DispatcherDeletes, EventsOK, IdsNameEvents, TimeoutHasEvent, NoLateWait
<1>17. CASE UNCHANGED vars
  BY <1>0, <1>17 DEF vars, EventsOK, IdsNameEvents, TimeoutHasEvent, NoLateWait
<1> QED
  BY <1>1, <1>2, <1>3, <1>4, <1>5, <1>6, <1>7, <1>8, <1>9, <1>10, <1>11, <1>12,
     <1>13, <1>14, <1>15, <1>16, <1>17 DEF Next, AddSteps, ThreadSteps

(* The inductive invariant, type correctness included, holds in every       *)
(* reachable state.                                                         *)
THEOREM ConsistentCorrect == Spec => []Consistent
  BY InitConsistent, ConsistentStep, PTL DEF Spec

(* schedulerThread never sleeps past the time of an event that nobody is    *)
(* about to tell it of.                                                     *)
THEOREM NoLateWaitCorrect == Spec => []NoLateWait
<1>1. Consistent => NoLateWait
  BY DEF Consistent
<1> QED
  BY <1>1, ConsistentCorrect, PTL

(* schedulerThread never asks an empty queue for its top after a timeout.   *)
THEOREM TimeoutHasEventCorrect == Spec => []TimeoutHasEvent
<1>1. Consistent => TimeoutHasEvent
  BY DEF Consistent
<1> QED
  BY <1>1, ConsistentCorrect, PTL

(* An id names at most one event of the queue, and none outside it, so that *)
(* stopEvent stops the event it is meant for.                               *)
THEOREM IdsNameEventsCorrect == Spec => []IdsNameEvents
<1>1. Consistent => IdsNameEvents
  BY DEF Consistent
<1> QED
  BY <1>1, ConsistentCorrect, PTL

-----------------------------------------------------------------------------
(* The scheduler implements Timers.                                         *)

(* The initial states are those of the abstract timers.                     *)
LEMMA TimersInit == Init => T!Init
<1> SUFFICES ASSUME Init PROVE T!Init
  OBVIOUS
<1>1. \A e \in Events : TimerOf(e) = "off"
  BY DEF Init, TimerOf
<1> QED BY <1>1 DEF Init, T!Init

(* Every step is one of the abstract timers, or leaves them alone.          *)
LEMMA TimersStep ==
  Consistent /\ Consistent' /\ [Next]_vars => [T!Next]_(T!vars)
<1> SUFFICES ASSUME Consistent, Consistent', [Next]_vars
             PROVE  T!Next \/ UNCHANGED T!vars
  BY DEF T!vars
<1> DEFINE timer == [e \in Events |-> TimerOf(e)]
<1> USE EventAssumption, NumberAssumption DEF Consistent, TypeOK, data, sched, calls
<1>1. CASE Tick
  <2>1. UNCHANGED <<cycle, eventId, eventIds, status, runTask>>
    BY <1>1 DEF Tick
  <2>2. \A e \in Events : TimerOf(e)' = TimerOf(e)
    BY <2>1 DEF TimerOf
  <2>3. now' \in Nat /\ now' > now
    BY <1>1 DEF Tick
  <2> QED BY <2>1, <2>2, <2>3 DEF T!Tick, T!Next
<1>2. ASSUME NEW c \in Clients, NEW e \in Events, NEW d \in Delays, CallAddEvent(c, e, d)
      PROVE  T!Choose(e)
  <2>1. /\ status[e] = "new" /\ status' = [status EXCEPT ![e] = "created"]
        /\ UNCHANGED <<now, eventId, eventIds, runTask>>
    BY <1>2 DEF CallAddEvent
  <2>2. TimerOf(e) = "off" /\ \A f \in Events : TimerOf(f)' = TimerOf(f)
    BY <2>1 DEF TimerOf
  <2>3. cycle' = [cycle EXCEPT ![e] = cycle'[e]] /\ cycle'[e] \in Nat
    BY <1>2 DEF CallAddEvent
  <2> QED BY <2>1, <2>2, <2>3 DEF T!Choose
<1>3. ASSUME NEW c \in Clients, AddEvent(c) PROVE \E e \in Events : T!Arm(e)
  <2>0. PICK e \in Events : e = adding[c] /\ status[e] = "created"
    BY <1>3 DEF AddEvent, EventsOK
  <2>1. /\ status' = [status EXCEPT ![e] = "queued"]
        /\ eventId' = [eventId EXCEPT ![e] = NextId]
        /\ eventIds' = eventIds \cup {NextId}
        /\ \A f \in eventList : eventId[f] # NextId
        /\ UNCHANGED <<now, cycle, runTask>>
    BY <1>3, <2>0 DEF AddEvent, IdIsFree
  <2>2. TimerOf(e) = "off" /\ TimerOf(e)' = "armed"
    BY <2>0, <2>1 DEF TimerOf
  <2>3. \A f \in Events \ {e} : TimerOf(f)' = TimerOf(f)
    <3> SUFFICES ASSUME NEW f \in Events, f # e PROVE TimerOf(f)' = TimerOf(f)
      OBVIOUS
    <3>1. status'[f] = status[f] /\ eventId'[f] = eventId[f]
      BY <2>1
    <3>2. status[f] = "queued" => (eventId[f] \in eventIds' <=> eventId[f] \in eventIds)
      BY <2>1 DEF EventsOK
    <3>3. CASE status[f] = "queued"
      BY <3>1, <3>2, <3>3 DEF TimerOf
    <3>4. CASE status[f] # "queued"
      BY <2>1, <3>1, <3>4 DEF TimerOf, Status
    <3> QED BY <3>3, <3>4
  <2>4. timer' = [timer EXCEPT ![e] = "armed"]
    BY <2>2, <2>3
  <2> QED BY <2>1, <2>2, <2>4 DEF T!Arm
<1>4. ASSUME NEW c \in Clients, RefuseEvent(c) PROVE \E e \in Events : T!Refuse(e)
  <2>0. PICK e \in Events : e = adding[c] /\ status[e] = "created"
    BY <1>4 DEF RefuseEvent, EventsOK
  <2>1. /\ status' = [status EXCEPT ![e] = "refused"]
        /\ UNCHANGED <<now, cycle, eventId, eventIds, runTask>>
    BY <1>4, <2>0 DEF RefuseEvent
  <2>2. TimerOf(e) = "off" /\ TimerOf(e)' = "refused"
    BY <2>0, <2>1 DEF TimerOf
  <2>3. \A f \in Events \ {e} : TimerOf(f)' = TimerOf(f)
    BY <2>1 DEF TimerOf
  <2>4. timer' = [timer EXCEPT ![e] = "refused"]
    BY <2>2, <2>3
  <2> QED BY <2>1, <2>2, <2>4 DEF T!Refuse
<1>5. ASSUME NEW c \in Clients, NEW id \in 1..MaxId, StopEvent(c, id)
      PROVE  \E e \in Events : T!Cancel(e)
  <2>0. PICK e \in eventList : eventId[e] = id /\ id \in eventIds
    BY <1>5 DEF StopEvent, IdsNameEvents
  <2>1. /\ e \in Events /\ status[e] = "queued"
        /\ eventIds' = eventIds \ {id}
        /\ UNCHANGED <<now, cycle, eventId, status, runTask>>
    BY <1>5, <2>0 DEF StopEvent, EventsOK
  <2>2. TimerOf(e) = "armed" /\ TimerOf(e)' = "cancelled"
    BY <2>0, <2>1 DEF TimerOf
  <2>3. \A f \in Events \ {e} : TimerOf(f)' = TimerOf(f)
    BY <2>0, <2>1 DEF TimerOf, IdsNameEvents, EventsOK
  <2>4. timer' = [timer EXCEPT ![e] = "cancelled"]
    BY <2>1, <2>2, <2>3
  <2> QED BY <2>1, <2>2, <2>4 DEF T!Cancel
<1>6. CASE Shutdown
  <2>1. /\ status' = [e \in Events |-> IF e \in eventList THEN "discarded" ELSE status[e]]
        /\ UNCHANGED <<now, cycle, runTask>>
    BY <1>6 DEF Shutdown
  <2>2. \A e \in eventList : TimerOf(e) \in {"armed", "cancelled"} /\ TimerOf(e)' = "dropped"
    BY <2>1 DEF TimerOf, EventsOK
  <2>3. \A e \in Events \ eventList : TimerOf(e)' = TimerOf(e)
    <3> SUFFICES ASSUME NEW e \in Events \ eventList PROVE TimerOf(e)' = TimerOf(e)
      OBVIOUS
    <3>1. status'[e] = status[e] /\ status[e] # "queued"
      BY <2>1 DEF EventsOK
    <3>2. status[e] \in Status \ {"queued"}
      BY <3>1
    <3> QED BY <2>1, <3>1, <3>2 DEF TimerOf, Status
  <2>4. timer' = [e \in Events |-> IF e \in eventList THEN "dropped" ELSE timer[e]]
    BY <2>2, <2>3
  <2>5. eventList \in SUBSET {e \in Events : timer[e] \in {"armed", "cancelled"}}
    BY <2>2
  <2> QED BY <2>1, <2>4, <2>5 DEF T!End, T!Next
<1>7. ASSUME NEW e \in Events, Pop(e) PROVE T!Fire(e) \/ UNCHANGED T!vars
  <2>1. /\ status[e] = "queued" /\ e \in eventList
        /\ \A f \in Events : status[f] # "popped"
        /\ status' = [status EXCEPT ![e] = "popped"]
        /\ runTask' = (eventId[e] \in eventIds)
        /\ eventIds' = eventIds \ {eventId[e]}
        /\ UNCHANGED <<now, cycle, eventId>>
    BY <1>7 DEF Pop, IsTop, EventsOK, NotStopped, ForgetId
  <2>2. \A f \in Events \ {e} : TimerOf(f)' = TimerOf(f)
    <3> SUFFICES ASSUME NEW f \in Events, f # e PROVE TimerOf(f)' = TimerOf(f)
      OBVIOUS
    <3>1. status'[f] = status[f] /\ status[f] # "popped" /\ eventId'[f] = eventId[f]
      BY <2>1
    <3>2. status[f] = "queued" => (eventId[f] \in eventIds' <=> eventId[f] \in eventIds)
      BY <2>1 DEF IdsNameEvents, EventsOK
    <3>3. CASE status[f] = "queued"
      BY <3>1, <3>2, <3>3 DEF TimerOf
    <3>4. CASE status[f] # "queued"
      BY <2>1, <3>1, <3>4 DEF TimerOf, Status
    <3> QED BY <3>3, <3>4
  <2>3. CASE eventId[e] \in eventIds
    <3>1. TimerOf(e) = "armed" /\ TimerOf(e)' = "fired"
      BY <2>1, <2>3 DEF TimerOf
    <3>2. timer' = [timer EXCEPT ![e] = "fired"]
      BY <2>2, <3>1
    <3>3. cycle[e] <= now
      <4>1. deadline # Never /\ deadline <= now /\ threadState # "TERMINATED" /\ pc = "woken"
        BY <1>7 DEF Pop, Pops, TimedOut
      <4>2. PICK f \in eventList : cycle[f] <= deadline
        BY <4>1 DEF TimeoutHasEvent
      <4>3. cycle[e] <= cycle[f]
        BY <1>7, <4>2 DEF Pop, IsTop
      <4>4. cycle[e] \in Nat /\ cycle[f] \in Nat /\ deadline \in Nat /\ now \in Nat
        BY <4>1, <4>2
      <4> QED BY <4>1, <4>2, <4>3, <4>4
    <3> QED BY <2>1, <3>1, <3>2, <3>3 DEF T!Fire
  <2>4. CASE eventId[e] \notin eventIds
    <3>1. TimerOf(e) = "cancelled" /\ TimerOf(e)' = "cancelled"
      BY <2>1, <2>4 DEF TimerOf
    <3> QED BY <2>1, <2>2, <3>1 DEF T!vars
  <2> QED BY <2>3, <2>4
<1>8. CASE Send
  <2>1. /\ task \in Events /\ status[task] = "popped"
        /\ status' = [status EXCEPT ![task] = IF runTask THEN "dispatched" ELSE "deleted"]
        /\ \A f \in Events : status[f] = "popped" => f = task
        /\ UNCHANGED <<now, cycle, eventId, eventIds, runTask>>
    BY <1>8 DEF Send, EventsOK
  <2>2. \A f \in Events : TimerOf(f)' = TimerOf(f)
    BY <2>1 DEF TimerOf
  <2> QED BY <2>1, <2>2 DEF T!vars
<1>9. ASSUME NEW e \in Events, DispatcherDeletes(e) PROVE UNCHANGED T!vars
  <2>1. /\ status[e] = "dispatched" /\ status' = [status EXCEPT ![e] = "done"]
        /\ UNCHANGED <<now, cycle, eventId, eventIds, runTask>>
    BY <1>9 DEF DispatcherDeletes
  <2>2. \A f \in Events : TimerOf(f)' = TimerOf(f)
    BY <2>1 DEF TimerOf
  <2> QED BY <2>1, <2>2 DEF T!vars
<1>10. ASSUME \/ Stop \/ TestState \/ Wait \/ Timeout \/ NoPop \/ WakeSpuriously
              \/ \E c \in Clients : Notify(c) \/ ReturnId(c)
              \/ UNCHANGED vars
       PROVE  UNCHANGED T!vars
  <2>1. UNCHANGED <<now, cycle, eventId, eventIds, status, runTask>>
    BY <1>10 DEF Stop, TestState, Wait, Timeout, NoPop, WakeSpuriously, Notify, ReturnId,
         vars
  <2>2. \A f \in Events : TimerOf(f)' = TimerOf(f)
    BY <2>1 DEF TimerOf
  <2> QED BY <2>1, <2>2 DEF T!vars
<1> QED
  BY <1>1, <1>2, <1>3, <1>4, <1>5, <1>6, <1>7, <1>8, <1>9, <1>10
  DEF Next, AddSteps, ThreadSteps, T!Next

(* Whatever the clients do, an event that was added is handed to the        *)
(* dispatcher at most once, never before its time and never after stopEvent. *)
THEOREM SchedulerImplementsTimers == Spec => ImplementsTimers
  BY TimersInit, TimersStep, ConsistentCorrect, PTL DEF Spec, ImplementsTimers, T!Spec
=============================================================================
