------------------------------- MODULE Timers -------------------------------
(***************************************************************************)
(* What the users of g_scheduler rely on (src/src/scheduler.h): an event    *)
(* that was added is handed to the dispatcher once, at its time or later;   *)
(* one that stopEvent stopped never is; and those that are left when the    *)
(* server ends are dropped.                                                 *)
(***************************************************************************)
EXTENDS Naturals

CONSTANT Events

VARIABLES clock,  \* the time
          timer,  \* what has become of each event
          due     \* when each event is to be handed to the dispatcher

vars == <<clock, timer, due>>

Init == /\ clock = 0
        /\ timer = [e \in Events |-> "off"]
        /\ due \in [Events -> Nat]

Tick == /\ clock' \in Nat
        /\ clock' > clock
        /\ UNCHANGED <<timer, due>>

Choose(e) == /\ timer[e] = "off"
             /\ due'[e] \in Nat
             /\ due' = [due EXCEPT ![e] = due'[e]]
             /\ UNCHANGED <<clock, timer>>

Arm(e) == /\ timer[e] = "off"
          /\ timer' = [timer EXCEPT ![e] = "armed"]
          /\ UNCHANGED <<clock, due>>

Refuse(e) == /\ timer[e] = "off"
             /\ timer' = [timer EXCEPT ![e] = "refused"]
             /\ UNCHANGED <<clock, due>>

Cancel(e) == /\ timer[e] = "armed"
             /\ timer' = [timer EXCEPT ![e] = "cancelled"]
             /\ UNCHANGED <<clock, due>>

Fire(e) == /\ timer[e] = "armed"
           /\ due[e] <= clock
           /\ timer' = [timer EXCEPT ![e] = "fired"]
           /\ UNCHANGED <<clock, due>>

(* The end of the server drops what has not fired.                          *)
End == /\ \E dropped \in SUBSET {e \in Events : timer[e] \in {"armed", "cancelled"}} :
            timer' = [e \in Events |-> IF e \in dropped THEN "dropped" ELSE timer[e]]
       /\ UNCHANGED <<clock, due>>

Next == \/ Tick
        \/ End
        \/ \E e \in Events : \/ Choose(e) \/ Arm(e) \/ Refuse(e)
                             \/ Cancel(e) \/ Fire(e)

Spec == Init /\ [][Next]_vars
=============================================================================
