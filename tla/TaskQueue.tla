----------------------------- MODULE TaskQueue -----------------------------
(***************************************************************************)
(* What the rest of the server relies on when it hands work to g_dispatcher *)
(* (src/tasks.h): a task is accepted or refused when it is handed over;     *)
(* accepted tasks leave the queue in the order they came; each is started   *)
(* at most once, or dropped if it was created with an expiration; no two    *)
(* run at once, save those that the task ending the server runs itself;     *)
(* and nothing is accepted after the queue was closed.                      *)
(***************************************************************************)
EXTENDS Sequences

CONSTANTS Tasks,        \* the tasks
          Droppable,    \* the tasks that carry an expiration
          ShutdownTask  \* the task that ends the server (Game::shutdown)

VARIABLES queue,  \* accepted tasks that have not left the queue
          fate,   \* what has become of each task
          open    \* does the queue accept tasks?

vars == <<queue, fate, open>>

Fates == {"none", "queued", "started", "done", "expired", "refused"}

Init == /\ queue = <<>>
        /\ fate = [k \in Tasks |-> "none"]
        /\ open = TRUE

Accept(k) == /\ open
             /\ fate[k] = "none"
             /\ queue' = Append(queue, k)
             /\ fate' = [fate EXCEPT ![k] = "queued"]
             /\ UNCHANGED open

Refuse(k) == /\ ~open
             /\ fate[k] = "none"
             /\ fate' = [fate EXCEPT ![k] = "refused"]
             /\ UNCHANGED <<queue, open>>

Start(k) == /\ queue # <<>>
            /\ k = Head(queue)
            /\ \A j \in Tasks : fate[j] = "started" => j = ShutdownTask
            /\ queue' = Tail(queue)
            /\ fate' = [fate EXCEPT ![k] = "started"]
            /\ UNCHANGED open

Expire(k) == /\ queue # <<>>
             /\ k = Head(queue)
             /\ k \in Droppable
             /\ queue' = Tail(queue)
             /\ fate' = [fate EXCEPT ![k] = "expired"]
             /\ UNCHANGED open

Finish(k) == /\ fate[k] = "started"
             /\ fate' = [fate EXCEPT ![k] = "done"]
             /\ UNCHANGED <<queue, open>>

Close == /\ open
         /\ open' = FALSE
         /\ UNCHANGED <<queue, fate>>

Next == \/ Close
        \/ \E k \in Tasks : \/ Accept(k)
                            \/ Refuse(k)
                            \/ Start(k)
                            \/ Expire(k)
                            \/ Finish(k)

Spec == Init /\ [][Next]_vars
=============================================================================
