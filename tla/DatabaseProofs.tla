--------------------------- MODULE DatabaseProofs ---------------------------
(***************************************************************************)
(* Proofs about the database: for any number of threads, of statements in a  *)
(* save, of broken connections and of errors, the lock agrees with the       *)
(* places of the threads, a save is atomic, and a success is stored.         *)
(*                                                                          *)
(* Inductive is shown kept part by part, one case for every action: first     *)
(* types and places, then the transaction, then what the statements of the   *)
(* save (the row of the dispatcher in work and stored) and the single ones    *)
(* did.                                                                     *)
(***************************************************************************)
EXTENDS Database, TLAPS

(* No effects, the effects after a commit, one effect more, and those of a  *)
(* new call are counts.                                                     *)
LEMMA NoneType == None \in Counts
  BY BoundsAssumption DEF None, Counts, Statements

(* Adding the work of a transaction to what is stored keeps counts counts.  *)
LEMMA WithWorkType ==
  ASSUME work \in Counts, stored \in Counts
  PROVE  WithWork \in Counts
  BY BoundsAssumption DEF WithWork, Counts

(* Counting the statement of a thread once more keeps counts counts.        *)
LEMMA OnceType ==
  ASSUME NEW f \in Counts, NEW t \in Threads, ControlOK
  PROVE  Once(f, t) \in Counts
  BY BoundsAssumption DEF Once, Counts, ControlOK

(* So does forgetting what a thread has done.                               *)
LEMMA ForgetType ==
  ASSUME NEW f \in Counts, NEW t \in Threads
  PROVE  [f EXCEPT ![t] = [r \in Statements |-> 0]] \in Counts
  BY BoundsAssumption DEF Counts

(* A broken connection changes no types.                                    *)
LEMMA BreaksType ==
  ASSUME ControlOK, Breaks
  PROVE  /\ up' \in BOOLEAN /\ open' \in BOOLEAN /\ known' \in BOOLEAN
         /\ lost' \in [Threads -> BOOLEAN]
         /\ losses' \in Nat /\ errors' \in Nat
<1>1. lost' \in [Threads -> BOOLEAN]
  BY Zenon DEF Breaks
<1>2. losses' \in Nat
  BY DEF ControlOK, Breaks
<1>3. up' = FALSE /\ open' = FALSE /\ known' = known /\ errors' = errors
  BY DEF Breaks
<1> QED BY <1>1, <1>2, <1>3 DEF ControlOK

(* Control keeps its types: an unlock only ever follows a lock.             *)
LEMMA ControlStep ==
  ControlOK /\ LockAgrees /\ [Next]_vars
    => ControlOK'
<1> SUFFICES ASSUME ControlOK /\ LockAgrees, [Next]_vars PROVE ControlOK'
  OBVIOUS
<1> USE ThreadsAssumption, BoundsAssumption DEF ControlOK, lock, server, Threads,
  Statements, Writes, Begin, Select, Single
<1>1. ASSUME NEW t \in Threads, CallSingle(t) PROVE ControlOK'
  BY <1>1 DEF CallSingle, Call, Execute, Goto
<1>2. ASSUME NEW t \in Threads, CallSelect(t) PROVE ControlOK'
  BY <1>2 DEF CallSelect, Call, Execute, Goto
<1>3. ASSUME NEW t \in Threads, LockForQuery(t) PROVE ControlOK'
  BY <1>3 DEF LockForQuery, Lock, Goto
<1>4. ASSUME NEW t \in Threads, Succeeds(t) PROVE ControlOK'
  BY <1>4 DEF Succeeds, TakesEffect, WithWork, Once, None, Goto
<1>5. ASSUME NEW t \in Threads, Fails(t) PROVE ControlOK'
  BY <1>5 DEF Fails, Goto
<1>6. ASSUME NEW t \in Threads, AnswerIsLost(t) PROVE ControlOK'
  BY <1>6, BreaksType DEF AnswerIsLost
<1>7. ASSUME NEW t \in Threads, Reconnects(t) PROVE ControlOK'
  BY <1>7 DEF Reconnects
<1>8. ASSUME NEW t \in Threads, UnlockAfterQuery(t) PROVE ControlOK'
  BY <1>8 DEF UnlockAfterQuery, Unlock, Goto, LockAgrees, Holds
<1>9. ASSUME NEW t \in Threads, AfterSelect(t) PROVE ControlOK'
  BY <1>9 DEF AfterSelect, Return, Continue, Execute, Goto
<1>10. ASSUME NEW t \in Threads, AfterSingle(t) PROVE ControlOK'
  BY <1>10 DEF AfterSingle, Return, Goto
<1>11. CASE BeginTransaction
  BY <1>11 DEF BeginTransaction, Continue, Execute, Goto
<1>12. CASE AfterBegin
  BY <1>12 DEF AfterBegin, Goto
<1>13. CASE LockTransaction
  BY <1>13 DEF LockTransaction, Lock, Execute, Goto
<1>14. CASE AfterWrite
  BY <1>14 DEF AfterWrite, Continue, Execute, Goto
<1>15. CASE Commit
  BY <1>15 DEF Commit, EndTransaction, WithWork, None, Goto
<1>16. CASE Rollback
  BY <1>16 DEF Rollback, EndTransaction, None, Goto
<1>17. CASE CommitAnswerIsLost
  BY <1>17, BreaksType DEF CommitAnswerIsLost, Goto
<1>18. CASE EndFails
  BY <1>18 DEF EndFails, Goto
<1>19. CASE Release
  BY <1>19 DEF Release, Unlock, Goto, LockAgrees, Holds
<1>20. CASE ConnectionBreaks
  BY <1>20, BreaksType DEF ConnectionBreaks
<1>21. CASE UNCHANGED vars
  BY <1>21 DEF vars
<1> QED
  BY <1>1, <1>2, <1>3, <1>4, <1>5, <1>6, <1>7, <1>8, <1>9, <1>10, <1>11, <1>12, <1>13,
    <1>14, <1>15, <1>16, <1>17, <1>18, <1>19, <1>20, <1>21
  DEF Next, Query, Save

(* Effects stay counted.                                                    *)
LEMMA CountsStep ==
  TypeOK /\ [Next]_vars
    => (work \in Counts /\ stored \in Counts)'
<1> SUFFICES ASSUME TypeOK, [Next]_vars PROVE (work \in Counts /\ stored \in Counts)'
  OBVIOUS
<1> USE DEF TypeOK
<1>1. ASSUME NEW t \in Threads, CallSingle(t) PROVE (work \in Counts /\ stored \in Counts)'
  BY <1>1, ForgetType DEF CallSingle, Call
<1>2. ASSUME NEW t \in Threads, CallSelect(t) PROVE (work \in Counts /\ stored \in Counts)'
  BY <1>2, ForgetType DEF CallSelect, Call
<1>3. ASSUME NEW t \in Threads, LockForQuery(t) PROVE (work \in Counts /\ stored \in Counts)'
  BY <1>3 DEF LockForQuery, server
<1>4. ASSUME NEW t \in Threads, Succeeds(t) PROVE (work \in Counts /\ stored \in Counts)'
  <2>1. statement[t] \in Statements /\ TakesEffect(t)
    BY <1>4 DEF Succeeds, ControlOK
  <2>2. CASE statement[t] = Select
    BY <2>1, <2>2, BoundsAssumption DEF TakesEffect, Select, Begin
  <2>3. CASE statement[t] = Begin /\ statement[t] # Select
    BY <2>1, <2>3, NoneType, WithWorkType, BoundsAssumption DEF TakesEffect, Select, Begin
  <2>4. CASE statement[t] \notin {Begin, Select}
    <3>1. Once(work, t) \in Counts /\ Once(stored, t) \in Counts
      BY OnceType
    <3> QED BY <2>1, <2>4, <3>1 DEF TakesEffect
  <2> QED BY <2>2, <2>3, <2>4
<1>5. ASSUME NEW t \in Threads, Fails(t) PROVE (work \in Counts /\ stored \in Counts)'
  BY <1>5 DEF Fails, server
<1>6. ASSUME NEW t \in Threads, AnswerIsLost(t) PROVE (work \in Counts /\ stored \in Counts)'
  BY <1>6, NoneType, OnceType DEF AnswerIsLost, Breaks, ControlOK
<1>7. ASSUME NEW t \in Threads, Reconnects(t) PROVE (work \in Counts /\ stored \in Counts)'
  BY <1>7 DEF Reconnects, server
<1>8. ASSUME NEW t \in Threads, UnlockAfterQuery(t) PROVE (work \in Counts /\ stored \in Counts)'
  BY <1>8 DEF UnlockAfterQuery, server
<1>9. ASSUME NEW t \in Threads, AfterSelect(t) PROVE (work \in Counts /\ stored \in Counts)'
  BY <1>9 DEF AfterSelect, Return, Continue, server
<1>10. ASSUME NEW t \in Threads, AfterSingle(t) PROVE (work \in Counts /\ stored \in Counts)'
  BY <1>10 DEF AfterSingle, Return, server
<1>11. CASE BeginTransaction
  BY <1>11 DEF BeginTransaction, Continue, server
<1>12. CASE AfterBegin
  BY <1>12 DEF AfterBegin, server
<1>13. CASE LockTransaction
  BY <1>13 DEF LockTransaction, server
<1>14. CASE AfterWrite
  BY <1>14 DEF AfterWrite, Continue, server
<1>15. CASE Commit
  BY <1>15, NoneType, WithWorkType DEF Commit, EndTransaction
<1>16. CASE Rollback
  BY <1>16, NoneType DEF Rollback, EndTransaction
<1>17. CASE CommitAnswerIsLost
  BY <1>17, NoneType, WithWorkType DEF CommitAnswerIsLost, Breaks
<1>18. CASE EndFails
  BY <1>18 DEF EndFails, server
<1>19. CASE Release
  BY <1>19 DEF Release, server
<1>20. CASE ConnectionBreaks
  BY <1>20, NoneType DEF ConnectionBreaks, Breaks
<1>21. CASE UNCHANGED vars
  BY <1>21 DEF vars, server
<1> QED
  BY <1>1, <1>2, <1>3, <1>4, <1>5, <1>6, <1>7, <1>8, <1>9, <1>10, <1>11, <1>12, <1>13,
    <1>14, <1>15, <1>16, <1>17, <1>18, <1>19, <1>20, <1>21
  DEF Next, Query, Save

(* The lock agrees with the places of the threads after every step.         *)
LEMMA LockStep ==
  ControlOK /\ PlacesOK /\ LockAgrees /\ [Next]_vars
    => LockAgrees'
<1> SUFFICES ASSUME ControlOK /\ PlacesOK /\ LockAgrees, [Next]_vars PROVE LockAgrees'
  OBVIOUS
<1> USE ThreadsAssumption, BoundsAssumption DEF ControlOK, PlacesOK, LockAgrees,
  Holds, lock, server, Threads, Statements, Writes, Begin, Select, Single
<1>1. ASSUME NEW t \in Threads, CallSingle(t) PROVE LockAgrees'
  BY <1>1 DEF CallSingle, Call, Execute, Goto
<1>2. ASSUME NEW t \in Threads, CallSelect(t) PROVE LockAgrees'
  BY <1>2 DEF CallSelect, Call, Execute, Goto
<1>3. ASSUME NEW t \in Threads, LockForQuery(t) PROVE LockAgrees'
  BY <1>3 DEF LockForQuery, Lock, Goto
<1>4. ASSUME NEW t \in Threads, Succeeds(t) PROVE LockAgrees'
  BY <1>4 DEF Succeeds, TakesEffect, WithWork, Once, None, Goto
<1>5. ASSUME NEW t \in Threads, Fails(t) PROVE LockAgrees'
  BY <1>5 DEF Fails, Goto
<1>6. ASSUME NEW t \in Threads, AnswerIsLost(t) PROVE LockAgrees'
  BY <1>6 DEF AnswerIsLost, Breaks, Once, None
<1>7. ASSUME NEW t \in Threads, Reconnects(t) PROVE LockAgrees'
  BY <1>7 DEF Reconnects
<1>8. ASSUME NEW t \in Threads, UnlockAfterQuery(t) PROVE LockAgrees'
  BY <1>8 DEF UnlockAfterQuery, Unlock, Goto
<1>9. ASSUME NEW t \in Threads, AfterSelect(t) PROVE LockAgrees'
  BY <1>9 DEF AfterSelect, Return, Continue, Execute, Goto
<1>10. ASSUME NEW t \in Threads, AfterSingle(t) PROVE LockAgrees'
  BY <1>10 DEF AfterSingle, Return, Goto
<1>11. CASE BeginTransaction
  BY <1>11 DEF BeginTransaction, Continue, Execute, Goto
<1>12. CASE AfterBegin
  BY <1>12 DEF AfterBegin, Goto
<1>13. CASE LockTransaction
  BY <1>13 DEF LockTransaction, Lock, Execute, Goto
<1>14. CASE AfterWrite
  BY <1>14 DEF AfterWrite, Continue, Execute, Goto
<1>15. CASE Commit
  BY <1>15 DEF Commit, EndTransaction, WithWork, None, Goto
<1>16. CASE Rollback
  BY <1>16 DEF Rollback, EndTransaction, None, Goto
<1>17. CASE CommitAnswerIsLost
  BY <1>17 DEF CommitAnswerIsLost, Breaks, WithWork, None, Goto
<1>18. CASE EndFails
  BY <1>18 DEF EndFails, Goto
<1>19. CASE Release
  BY <1>19 DEF Release, Unlock, Goto
<1>20. CASE ConnectionBreaks
  BY <1>20 DEF ConnectionBreaks, Breaks, None
<1>21. CASE UNCHANGED vars
  BY <1>21 DEF vars
<1> QED
  BY <1>1, <1>2, <1>3, <1>4, <1>5, <1>6, <1>7, <1>8, <1>9, <1>10, <1>11, <1>12, <1>13,
    <1>14, <1>15, <1>16, <1>17, <1>18, <1>19, <1>20, <1>21
  DEF Next, Query, Save

(* No thread is at a place that its calls do not have.                      *)
LEMMA PlacesStep ==
  ControlOK /\ PlacesOK /\ [Next]_vars
    => PlacesOK'
<1> SUFFICES ASSUME ControlOK /\ PlacesOK, [Next]_vars PROVE PlacesOK'
  OBVIOUS
<1> USE ThreadsAssumption, BoundsAssumption DEF ControlOK, PlacesOK, lock, server,
  Threads, Statements, Writes, Begin, Select, Single
<1>1. ASSUME NEW t \in Threads, CallSingle(t) PROVE PlacesOK'
  BY <1>1 DEF CallSingle, Call, Execute, Goto
<1>2. ASSUME NEW t \in Threads, CallSelect(t) PROVE PlacesOK'
  BY <1>2 DEF CallSelect, Call, Execute, Goto
<1>3. ASSUME NEW t \in Threads, LockForQuery(t) PROVE PlacesOK'
  BY <1>3 DEF LockForQuery, Lock, Goto
<1>4. ASSUME NEW t \in Threads, Succeeds(t) PROVE PlacesOK'
  BY <1>4 DEF Succeeds, TakesEffect, WithWork, Once, None, Goto
<1>5. ASSUME NEW t \in Threads, Fails(t) PROVE PlacesOK'
  BY <1>5 DEF Fails, Goto
<1>6. ASSUME NEW t \in Threads, AnswerIsLost(t) PROVE PlacesOK'
  BY <1>6 DEF AnswerIsLost, Breaks, Once, None
<1>7. ASSUME NEW t \in Threads, Reconnects(t) PROVE PlacesOK'
  BY <1>7 DEF Reconnects
<1>8. ASSUME NEW t \in Threads, UnlockAfterQuery(t) PROVE PlacesOK'
  BY <1>8 DEF UnlockAfterQuery, Unlock, Goto
<1>9. ASSUME NEW t \in Threads, AfterSelect(t) PROVE PlacesOK'
  BY <1>9 DEF AfterSelect, Return, Continue, Execute, Goto
<1>10. ASSUME NEW t \in Threads, AfterSingle(t) PROVE PlacesOK'
  BY <1>10 DEF AfterSingle, Return, Goto
<1>11. CASE BeginTransaction
  BY <1>11 DEF BeginTransaction, Continue, Execute, Goto
<1>12. CASE AfterBegin
  BY <1>12 DEF AfterBegin, Goto
<1>13. CASE LockTransaction
  BY <1>13 DEF LockTransaction, Lock, Execute, Goto
<1>14. CASE AfterWrite
  BY <1>14 DEF AfterWrite, Continue, Execute, Goto
<1>15. CASE Commit
  BY <1>15 DEF Commit, EndTransaction, WithWork, None, Goto
<1>16. CASE Rollback
  BY <1>16 DEF Rollback, EndTransaction, None, Goto
<1>17. CASE CommitAnswerIsLost
  BY <1>17 DEF CommitAnswerIsLost, Breaks, WithWork, None, Goto
<1>18. CASE EndFails
  BY <1>18 DEF EndFails, Goto
<1>19. CASE Release
  BY <1>19 DEF Release, Unlock, Goto
<1>20. CASE ConnectionBreaks
  BY <1>20 DEF ConnectionBreaks, Breaks, None
<1>21. CASE UNCHANGED vars
  BY <1>21 DEF vars
<1> QED
  BY <1>1, <1>2, <1>3, <1>4, <1>5, <1>6, <1>7, <1>8, <1>9, <1>10, <1>11, <1>12, <1>13,
    <1>14, <1>15, <1>16, <1>17, <1>18, <1>19, <1>20, <1>21
  DEF Next, Query, Save

(* Only a save has a transaction open, and until its connection breaks it   *)
(* has.                                                                     *)
LEMMA TransactionStep ==
  ControlOK /\ PlacesOK /\ LockAgrees /\ TransactionOK /\ [Next]_vars
    => TransactionOK'
<1> SUFFICES ASSUME ControlOK /\ PlacesOK /\ LockAgrees /\ TransactionOK, [Next]_vars PROVE TransactionOK'
  OBVIOUS
<1> USE ThreadsAssumption, BoundsAssumption DEF ControlOK, PlacesOK, LockAgrees,
  Holds, TransactionOK, Saving, lock, server, Threads, Statements, Writes, Begin,
  Select, Single
<1>1. ASSUME NEW t \in Threads, CallSingle(t) PROVE TransactionOK'
  <2>1. ~open => work' = None
    <3>1. [None EXCEPT ![t] = [r \in Statements |-> 0]] = None
      BY DEF None
    <3> QED BY <1>1, <3>1 DEF CallSingle, Call
  <2> QED BY <1>1, <2>1 DEF CallSingle, Call, Execute, Goto
<1>2. ASSUME NEW t \in Threads, CallSelect(t) PROVE TransactionOK'
  <2>1. ~open => work' = None
    <3>1. [None EXCEPT ![t] = [r \in Statements |-> 0]] = None
      BY DEF None
    <3> QED BY <1>2, <3>1 DEF CallSelect, Call
  <2> QED BY <1>2, <2>1 DEF CallSelect, Call, Execute, Goto
<1>3. ASSUME NEW t \in Threads, LockForQuery(t) PROVE TransactionOK'
  BY <1>3 DEF LockForQuery, Lock, Goto
<1>4. ASSUME NEW t \in Threads, Succeeds(t) PROVE TransactionOK'
  BY <1>4 DEF Succeeds, TakesEffect, WithWork, Once, None, Goto
<1>5. ASSUME NEW t \in Threads, Fails(t) PROVE TransactionOK'
  BY <1>5 DEF Fails, Goto
<1>6. ASSUME NEW t \in Threads, AnswerIsLost(t) PROVE TransactionOK'
  BY <1>6 DEF AnswerIsLost, Breaks, Once, None
<1>7. ASSUME NEW t \in Threads, Reconnects(t) PROVE TransactionOK'
  BY <1>7 DEF Reconnects
<1>8. ASSUME NEW t \in Threads, UnlockAfterQuery(t) PROVE TransactionOK'
  BY <1>8 DEF UnlockAfterQuery, Unlock, Goto
<1>9. ASSUME NEW t \in Threads, AfterSelect(t) PROVE TransactionOK'
  BY <1>9 DEF AfterSelect, Return, Continue, Execute, Goto
<1>10. ASSUME NEW t \in Threads, AfterSingle(t) PROVE TransactionOK'
  BY <1>10 DEF AfterSingle, Return, Goto
<1>11. CASE BeginTransaction
  BY <1>11 DEF BeginTransaction, Continue, Execute, Goto
<1>12. CASE AfterBegin
  BY <1>12 DEF AfterBegin, Goto
<1>13. CASE LockTransaction
  BY <1>13 DEF LockTransaction, Lock, Execute, Goto
<1>14. CASE AfterWrite
  BY <1>14 DEF AfterWrite, Continue, Execute, Goto
<1>15. CASE Commit
  BY <1>15 DEF Commit, EndTransaction, WithWork, None, Goto
<1>16. CASE Rollback
  BY <1>16 DEF Rollback, EndTransaction, None, Goto
<1>17. CASE CommitAnswerIsLost
  BY <1>17 DEF CommitAnswerIsLost, Breaks, WithWork, None, Goto
<1>18. CASE EndFails
  BY <1>18 DEF EndFails, Goto
<1>19. CASE Release
  BY <1>19 DEF Release, Unlock, Goto
<1>20. CASE ConnectionBreaks
  BY <1>20 DEF ConnectionBreaks, Breaks, None
<1>21. CASE UNCHANGED vars
  BY <1>21 DEF vars
<1> QED
  BY <1>1, <1>2, <1>3, <1>4, <1>5, <1>6, <1>7, <1>8, <1>9, <1>10, <1>11, <1>12, <1>13,
    <1>14, <1>15, <1>16, <1>17, <1>18, <1>19, <1>20, <1>21
  DEF Next, Query, Save

(* The kinds of statements differ.                                          *)
LEMMA Kinds ==
  /\ {Begin, Select, Single} \subseteq Statements /\ Writes \subseteq Statements
  /\ Begin # Select /\ Begin # Single /\ Select # Single
  /\ Begin \notin Writes /\ Select \notin Writes /\ Single \notin Writes
  /\ 1 \in Writes /\ \A s \in Writes : s < N => s + 1 \in Writes
  /\ N \in Writes /\ \A s \in Writes : s \in Nat /\ 1 <= s /\ s <= N
  /\ \A s \in Statements : s \in Writes \cup {Begin, Select, Single}
  BY BoundsAssumption DEF Begin, Select, Single, Writes, Statements

(* What a new call does to the save of the dispatcher.                      *)
LEMMA CallRow ==
  ASSUME TypeOK, NEW t \in Threads, NEW c \in {Single, Select}, Call(t, c)
  PROVE  /\ pc[t] = "idle" /\ pc'[Dispatcher] = IF t = Dispatcher THEN "lock" ELSE pc[Dispatcher]
         /\ statement'[Dispatcher] = IF t = Dispatcher THEN c ELSE statement[Dispatcher]
         /\ t # Dispatcher => lost'[Dispatcher] = lost[Dispatcher]
         /\ \A s \in Writes :
              /\ work'[Dispatcher][s] = IF t = Dispatcher THEN 0 ELSE work[Dispatcher][s]
              /\ stored'[Dispatcher][s] = IF t = Dispatcher THEN 0 ELSE stored[Dispatcher][s]
         /\ UNCHANGED <<ok, up, open, known>>
<1> USE Kinds DEF TypeOK, Counts
<1>1. Dispatcher \in Threads
  BY DEF Threads
<1>2. work' = [work EXCEPT ![t] = [r \in Statements |-> 0]]
      /\ stored' = [stored EXCEPT ![t] = [r \in Statements |-> 0]]
  BY DEF Call
<1>3. \A s \in Writes :
        /\ work'[Dispatcher][s] = IF t = Dispatcher THEN 0 ELSE work[Dispatcher][s]
        /\ stored'[Dispatcher][s] = IF t = Dispatcher THEN 0 ELSE stored[Dispatcher][s]
  BY <1>1, <1>2
<1> QED BY <1>1, <1>3 DEF Call, Execute, Goto, ControlOK

(* What a statement that succeeds does to it.                               *)
LEMMA SucceedsRow ==
  ASSUME TypeOK, PlacesOK, NEW t \in Threads, Succeeds(t)
  PROVE  /\ pc[t] = "query" /\ pc'[Dispatcher] = IF t = Dispatcher THEN "unlock" ELSE pc[Dispatcher]
         /\ ok'[Dispatcher] = IF t = Dispatcher THEN TRUE ELSE ok[Dispatcher]
         /\ statement' = statement /\ lost' = lost
         /\ up /\ up' = up /\ known' = open'
         /\ \/ /\ statement[t] \in {Select, Single} /\ open' = open
               /\ \A s \in Writes : /\ work'[Dispatcher][s] = work[Dispatcher][s]
                                     /\ stored'[Dispatcher][s] = stored[Dispatcher][s]
            \/ /\ t = Dispatcher /\ statement[t] = Begin /\ open'
               /\ \A s \in Writes :
                    /\ work'[Dispatcher][s] = 0
                    /\ stored'[Dispatcher][s] = stored[Dispatcher][s] + work[Dispatcher][s]
            \/ /\ t = Dispatcher /\ statement[t] \in Writes /\ open' = open
               /\ \A s \in Writes :
                    /\ work'[Dispatcher][s] = work[Dispatcher][s] + (IF open /\ s = statement[t] THEN 1 ELSE 0)
                    /\ stored'[Dispatcher][s] = stored[Dispatcher][s] + (IF ~open /\ s = statement[t] THEN 1 ELSE 0)
<1> USE Kinds
<1>1. Dispatcher \in Threads /\ (t # Dispatcher => t \in IoThreads)
  BY DEF Threads
<1>2. statement[t] \in Statements /\ (t # Dispatcher => statement[t] \in {Select, Single})
  BY <1>1 DEF TypeOK, ControlOK, PlacesOK
<1>3. TakesEffect(t)
  BY DEF Succeeds
<1>4. \A s \in Writes : work[Dispatcher][s] \in Nat /\ stored[Dispatcher][s] \in Nat
  BY <1>1 DEF TypeOK, Counts
<1>9. /\ pc'[Dispatcher] = IF t = Dispatcher THEN "unlock" ELSE pc[Dispatcher]
      /\ ok'[Dispatcher] = IF t = Dispatcher THEN TRUE ELSE ok[Dispatcher]
      /\ pc[t] = "query" /\ statement' = statement /\ lost' = lost
      /\ up /\ up' = up /\ known' = open'
  BY <1>1 DEF Succeeds, Goto, TypeOK, ControlOK
<1>5. CASE statement[t] = Select
  BY <1>3, <1>5, <1>9 DEF TakesEffect
<1>6. CASE statement[t] = Begin
  <2>1. t = Dispatcher
    BY <1>2, <1>6
  <2>2. \A s \in Writes : None[Dispatcher][s] = 0
                           /\ WithWork[Dispatcher][s] = stored[Dispatcher][s] + work[Dispatcher][s]
    BY <1>1 DEF None, WithWork
  <2> QED BY <1>3, <1>6, <1>9, <2>1, <2>2 DEF TakesEffect
<1>7. CASE statement[t] = Single
  <2>1. \A s \in Writes : /\ Once(work, t)[Dispatcher][s] = work[Dispatcher][s]
                           /\ Once(stored, t)[Dispatcher][s] = stored[Dispatcher][s]
    BY <1>1, <1>7 DEF Once, TypeOK, Counts
  <2> QED BY <1>3, <1>7, <1>9, <2>1 DEF TakesEffect
<1>8. CASE statement[t] \in Writes
  <2>1. t = Dispatcher
    BY <1>2, <1>8
  <2>2. \A s \in Writes :
          /\ Once(work, t)[Dispatcher][s] = work[Dispatcher][s] + (IF s = statement[t] THEN 1 ELSE 0)
          /\ Once(stored, t)[Dispatcher][s] = stored[Dispatcher][s] + (IF s = statement[t] THEN 1 ELSE 0)
    BY <1>1, <1>4, <1>8, <2>1 DEF Once, TypeOK, Counts
  <2> QED BY <1>3, <1>4, <1>8, <1>9, <2>1, <2>2 DEF TakesEffect
<1> QED BY <1>2, <1>5, <1>6, <1>7, <1>8

(* What a lost answer does to it.                                           *)
LEMMA AnswerRow ==
  ASSUME TypeOK, PlacesOK, NEW t \in Threads, AnswerIsLost(t)
  PROVE  /\ pc[t] = "query" /\ up /\ ~up' /\ ~open'
         /\ UNCHANGED <<pc, statement, ok, known>>
         /\ lost'[Dispatcher] = (lost[Dispatcher] \/ pc[Dispatcher] # "idle" \/ slipped[Dispatcher])
         /\ \A s \in Writes : work'[Dispatcher][s] = 0
         /\ \/ \A s \in Writes : stored'[Dispatcher][s] = stored[Dispatcher][s]
            \/ /\ t = Dispatcher /\ statement[t] \in Writes /\ ~open
               /\ \A s \in Writes : stored'[Dispatcher][s]
                                      = stored[Dispatcher][s] + (IF s = statement[t] THEN 1 ELSE 0)
<1> USE Kinds
<1>1. Dispatcher \in Threads /\ (t # Dispatcher => t \in IoThreads)
  BY DEF Threads
<1>2. statement[t] \in Statements /\ (t # Dispatcher => statement[t] \in {Select, Single})
  BY <1>1 DEF TypeOK, ControlOK, PlacesOK
<1>3. statement[t] = Single \/ (t = Dispatcher /\ statement[t] \in Writes)
  BY <1>2 DEF AnswerIsLost
<1>4. \A s \in Writes : None[Dispatcher][s] = 0
  BY <1>1 DEF None
<1>5. \A s \in Writes : work[Dispatcher][s] \in Nat /\ stored[Dispatcher][s] \in Nat
  BY <1>1 DEF TypeOK, Counts
<1>6. CASE statement[t] = Single
  <2>1. \A s \in Writes : Once(stored, t)[Dispatcher][s] = stored[Dispatcher][s]
    BY <1>1, <1>6 DEF Once, TypeOK, Counts
  <2> QED BY <1>1, <1>4, <2>1 DEF AnswerIsLost, Breaks
<1>7. CASE t = Dispatcher /\ statement[t] \in Writes
  <2>1. \A s \in Writes : Once(stored, t)[Dispatcher][s]
                            = stored[Dispatcher][s] + (IF s = statement[t] THEN 1 ELSE 0)
    BY <1>1, <1>5, <1>7 DEF Once, TypeOK, Counts
  <2> QED BY <1>1, <1>4, <1>7, <2>1 DEF AnswerIsLost, Breaks
<1> QED BY <1>3, <1>6, <1>7

(* What the end of the transaction does to it.                              *)
LEMMA EndRow ==
  ASSUME TypeOK, NEW effects \in {WithWork, stored}, EndTransaction(effects)
  PROVE  /\ ~open' /\ up' /\ ~known' /\ lost' = lost /\ statement' = statement
         /\ pc'[Dispatcher] = "release"
         /\ ok'[Dispatcher] = (pc[Dispatcher] = "commit")
         /\ \A s \in Writes :
              /\ work'[Dispatcher][s] = 0
              /\ stored'[Dispatcher][s] = IF effects = WithWork
                                          THEN stored[Dispatcher][s] + work[Dispatcher][s]
                                          ELSE stored[Dispatcher][s]
<1>1. Dispatcher \in Threads
  BY DEF Threads
<1>2. \A s \in Writes : /\ None[Dispatcher][s] = 0
                         /\ WithWork[Dispatcher][s] = stored[Dispatcher][s] + work[Dispatcher][s]
  BY <1>1, Kinds DEF None, WithWork
<1> QED BY <1>1, <1>2 DEF EndTransaction, Goto, TypeOK, ControlOK

(* How far the save is depends on the place of the dispatcher alone.        *)
LEMMA SameSaving ==
  ASSUME pc'[Dispatcher] = pc[Dispatcher], statement'[Dispatcher] = statement[Dispatcher],
         ok'[Dispatcher] = ok[Dispatcher]
  PROVE  (Saving' <=> Saving) /\ Done' = Done
  BY DEF Saving, Done

(* What a statement that succeeds does to the save, by what it is: one      *)
(* outside of the transaction,                                              *)
LEMMA ElseRow ==
  ASSUME TypeOK, PlacesOK, NEW t \in Threads, Succeeds(t), statement[t] \in {Select, Single}
  PROVE  /\ pc[t] = "query" /\ pc'[Dispatcher] = IF t = Dispatcher THEN "unlock" ELSE pc[Dispatcher]
         /\ ok'[Dispatcher] = IF t = Dispatcher THEN TRUE ELSE ok[Dispatcher]
         /\ statement' = statement /\ lost' = lost /\ open' = open
         /\ up /\ up' = up /\ known' = open'
         /\ \A s \in Writes : /\ work'[Dispatcher][s] = work[Dispatcher][s]
                               /\ stored'[Dispatcher][s] = stored[Dispatcher][s]
         /\ t = Dispatcher => ~Saving /\ ~Saving' /\ pc[Dispatcher] = "query"
         /\ t # Dispatcher => (Saving' <=> Saving) /\ Done' = Done
<1>1. statement[t] # Begin /\ statement[t] \notin Writes
  BY Kinds
<1>2. /\ pc[t] = "query" /\ pc'[Dispatcher] = IF t = Dispatcher THEN "unlock" ELSE pc[Dispatcher]
      /\ ok'[Dispatcher] = IF t = Dispatcher THEN TRUE ELSE ok[Dispatcher]
      /\ statement' = statement /\ lost' = lost /\ open' = open
      /\ up /\ up' = up /\ known' = open'
      /\ \A s \in Writes : /\ work'[Dispatcher][s] = work[Dispatcher][s]
                            /\ stored'[Dispatcher][s] = stored[Dispatcher][s]
  BY <1>1, SucceedsRow
<1>3. t = Dispatcher => ~Saving /\ ~Saving'
  BY <1>1, <1>2 DEF Saving
<1>4. t # Dispatcher => (Saving' <=> Saving) /\ Done' = Done
  BY <1>2, SameSaving
<1> QED BY <1>2, <1>3, <1>4

(* BEGIN,                                                                   *)
LEMMA BeginRow ==
  ASSUME TypeOK, PlacesOK, Succeeds(Dispatcher), statement[Dispatcher] = Begin
  PROVE  /\ pc[Dispatcher] = "query" /\ pc'[Dispatcher] = "unlock" /\ ok'[Dispatcher]
         /\ statement'[Dispatcher] = Begin /\ open' /\ Begin \notin Writes
         /\ \A s \in Writes :
              /\ work'[Dispatcher][s] = 0
              /\ stored'[Dispatcher][s] = stored[Dispatcher][s] + work[Dispatcher][s]
         /\ ~Saving /\ Saving' /\ Done' = 0
<1>1. Dispatcher \in Threads /\ Begin \notin {Select, Single} \cup Writes
  BY Kinds DEF Threads
<1>2. /\ pc[Dispatcher] = "query" /\ pc'[Dispatcher] = "unlock" /\ ok'[Dispatcher]
      /\ statement'[Dispatcher] = Begin /\ open' /\ Begin \notin Writes
      /\ \A s \in Writes :
           /\ work'[Dispatcher][s] = 0
           /\ stored'[Dispatcher][s] = stored[Dispatcher][s] + work[Dispatcher][s]
  BY <1>1, SucceedsRow
<1> QED BY <1>2 DEF Saving, Done

(* or one of its writes.                                                    *)
LEMMA WriteRow ==
  ASSUME TypeOK, PlacesOK, Succeeds(Dispatcher), statement[Dispatcher] \in Writes
  PROVE  /\ pc[Dispatcher] = "query" /\ pc'[Dispatcher] = "unlock" /\ ok'[Dispatcher]
         /\ statement' = statement /\ up /\ up' = up /\ known' = open' /\ open' = open /\ lost' = lost
         /\ \A s \in Writes :
              /\ s \in Nat /\ work[Dispatcher][s] \in Nat /\ stored[Dispatcher][s] \in Nat
              /\ work'[Dispatcher][s] = work[Dispatcher][s]
                   + (IF open /\ s = statement[Dispatcher] THEN 1 ELSE 0)
              /\ stored'[Dispatcher][s] = stored[Dispatcher][s]
                   + (IF ~open /\ s = statement[Dispatcher] THEN 1 ELSE 0)
         /\ Saving /\ Saving'
         /\ Done = statement[Dispatcher] - 1 /\ Done' = statement[Dispatcher]
<1>1. Dispatcher \in Threads /\ statement[Dispatcher] \notin {Select, Single, Begin}
  BY Kinds DEF Threads
<1>2. /\ pc[Dispatcher] = "query" /\ pc'[Dispatcher] = "unlock" /\ ok'[Dispatcher]
      /\ statement' = statement /\ up /\ up' = up /\ known' = open' /\ open' = open /\ lost' = lost
      /\ \A s \in Writes :
           /\ work'[Dispatcher][s] = work[Dispatcher][s]
                + (IF open /\ s = statement[Dispatcher] THEN 1 ELSE 0)
           /\ stored'[Dispatcher][s] = stored[Dispatcher][s]
                + (IF ~open /\ s = statement[Dispatcher] THEN 1 ELSE 0)
  BY <1>1, SucceedsRow
<1>3. Saving /\ Saving' /\ Done = statement[Dispatcher] - 1 /\ Done' = statement[Dispatcher]
  BY <1>1, <1>2 DEF Saving, Done
<1>4. \A s \in Writes : s \in Nat /\ work[Dispatcher][s] \in Nat /\ stored[Dispatcher][s] \in Nat
  BY Kinds DEF TypeOK, Counts, Threads
<1> QED BY <1>2, <1>3, <1>4

(* The same for a write of which the answer is lost,                        *)
LEMMA LostRow ==
  ASSUME TypeOK, PlacesOK, AnswerIsLost(Dispatcher), statement[Dispatcher] \in Writes
  PROVE  /\ pc[Dispatcher] = "query" /\ UNCHANGED <<pc, statement, ok, known>>
         /\ ~open' /\ ~up' /\ Saving /\ Saving' /\ Done = statement[Dispatcher] - 1 /\ Done' = Done
         /\ \A s \in Writes : /\ s \in Nat /\ work'[Dispatcher][s] = 0
                               /\ stored[Dispatcher][s] \in Nat
         /\ \/ \A s \in Writes : stored'[Dispatcher][s] = stored[Dispatcher][s]
            \/ /\ ~open
               /\ \A s \in Writes : stored'[Dispatcher][s]
                       = stored[Dispatcher][s] + (IF s = statement[Dispatcher] THEN 1 ELSE 0)
<1>1. Dispatcher \in Threads /\ statement[Dispatcher] # Begin
  BY Kinds DEF Threads
<1>2. /\ pc[Dispatcher] = "query" /\ UNCHANGED <<pc, statement, ok, known>>
      /\ ~open' /\ ~up' /\ \A s \in Writes : work'[Dispatcher][s] = 0
      /\ \/ \A s \in Writes : stored'[Dispatcher][s] = stored[Dispatcher][s]
         \/ /\ ~open
            /\ \A s \in Writes : stored'[Dispatcher][s]
                    = stored[Dispatcher][s] + (IF s = statement[Dispatcher] THEN 1 ELSE 0)
  BY <1>1, AnswerRow
<1>3. Saving /\ Done = statement[Dispatcher] - 1
  BY <1>1, <1>2 DEF Saving, Done
<1>4. (Saving' <=> Saving) /\ Done' = Done
  BY <1>2, SameSaving
<1>5. \A s \in Writes : s \in Nat /\ stored[Dispatcher][s] \in Nat
  BY Kinds DEF TypeOK, Counts, Threads
<1> QED BY <1>2, <1>3, <1>4, <1>5

(* for the step after a write,                                              *)
LEMMA AfterWriteRow ==
  ASSUME TypeOK, AfterWrite
  PROVE  /\ pc[Dispatcher] = "returned" /\ statement[Dispatcher] \in Writes
         /\ statement'[Dispatcher] = IF ok[Dispatcher] /\ statement[Dispatcher] < N
                                     THEN statement[Dispatcher] + 1 ELSE statement[Dispatcher]
         /\ pc'[Dispatcher] = IF ok[Dispatcher]
                              THEN IF statement[Dispatcher] < N THEN "lock" ELSE "commit"
                              ELSE "rollback"
         /\ ok' = ok /\ UNCHANGED server
         /\ Saving /\ Saving' /\ Done' = Done
<1>1. /\ pc[Dispatcher] = "returned" /\ statement[Dispatcher] \in Writes
      /\ statement'[Dispatcher] = IF ok[Dispatcher] /\ statement[Dispatcher] < N
                                  THEN statement[Dispatcher] + 1 ELSE statement[Dispatcher]
      /\ pc'[Dispatcher] = IF ok[Dispatcher]
                           THEN IF statement[Dispatcher] < N THEN "lock" ELSE "commit"
                           ELSE "rollback"
      /\ ok' = ok /\ UNCHANGED server
  BY DEF AfterWrite, Continue, Execute, Goto, TypeOK, ControlOK, Threads, server
<1>2. /\ statement[Dispatcher] \in Nat /\ statement[Dispatcher] # Begin
      /\ statement'[Dispatcher] # Begin /\ statement'[Dispatcher] \in Writes
  BY <1>1, Kinds
<1>3. Saving /\ Saving' /\ Done' = Done
  BY <1>1, <1>2 DEF Saving, Done
<1> QED BY <1>1, <1>3

(* and for the step after a SELECT.                                         *)
LEMMA AfterSelectRow ==
  ASSUME TypeOK, NEW t \in Threads, AfterSelect(t)
  PROVE  /\ UNCHANGED server
         /\ t = Dispatcher => /\ ~Saving /\ ~Saving' /\ pc[Dispatcher] = "returned"
                              /\ pc'[Dispatcher] \in {"idle", "lock"}
         /\ t # Dispatcher => /\ pc'[Dispatcher] = pc[Dispatcher] /\ ok' = ok
                              /\ statement'[Dispatcher] = statement[Dispatcher]
                              /\ (Saving' <=> Saving) /\ Done' = Done
<1>1. Dispatcher \in Threads /\ Single \in Statements
  BY Kinds DEF Threads
<1>2. UNCHANGED server
  BY DEF AfterSelect, Return, Continue, server
<1>3. ASSUME t = Dispatcher
      PROVE  /\ ~Saving /\ ~Saving' /\ pc[Dispatcher] = "returned"
             /\ pc'[Dispatcher] \in {"idle", "lock"}
  BY <1>1, <1>3, Kinds DEF AfterSelect, Return, Continue, Execute, Goto, Saving,
    TypeOK, ControlOK
<1>4. ASSUME t # Dispatcher
      PROVE  /\ pc'[Dispatcher] = pc[Dispatcher] /\ ok' = ok
             /\ statement'[Dispatcher] = statement[Dispatcher]
  BY <1>1, <1>4 DEF AfterSelect, Return, Continue, Execute, Goto, TypeOK, ControlOK
<1>5. t # Dispatcher => (Saving' <=> Saving) /\ Done' = Done
  BY <1>4, SameSaving
<1> QED BY <1>2, <1>3, <1>4, <1>5

(* Before BEGIN the save has stored nothing.                                *)
LEMMA BeforeStep ==
  TypeOK /\ PlacesOK /\ LockAgrees /\ TransactionOK /\ BeforeOK /\ [Next]_vars
    => BeforeOK'
<1> SUFFICES ASSUME TypeOK /\ PlacesOK /\ LockAgrees /\ TransactionOK /\ BeforeOK, [Next]_vars
            PROVE  BeforeOK'
  OBVIOUS
<1> USE ThreadsAssumption, BoundsAssumption DEF lock, server, Threads
<1>1. ASSUME NEW t \in Threads, CallSingle(t) PROVE BeforeOK'
  <2>1. Call(t, Single)
    BY <1>1 DEF CallSingle
  <2>2. CASE t = Dispatcher
    <3>1. ~open'
      BY <2>1, <2>2, CallRow, Kinds DEF TransactionOK, Saving
    <3> QED BY <2>1, <2>2, <3>1, CallRow, Kinds DEF BeforeOK, Saving, Done
  <2>3. CASE t # Dispatcher
    <3>0. /\ pc'[Dispatcher] = pc[Dispatcher] /\ statement'[Dispatcher] = statement[Dispatcher]
          /\ ok' = ok
      BY <2>1, <2>3, CallRow
    <3>1. (Saving' <=> Saving) /\ Done' = Done
      BY <3>0, SameSaving
    <3> QED BY <2>1, <2>3, <3>1, CallRow, Kinds DEF BeforeOK
  <2> QED BY <2>2, <2>3
<1>2. ASSUME NEW t \in Threads, CallSelect(t) PROVE BeforeOK'
  <2>1. Call(t, Select)
    BY <1>2 DEF CallSelect
  <2>2. CASE t = Dispatcher
    <3>1. ~open'
      BY <2>1, <2>2, CallRow, Kinds DEF TransactionOK, Saving
    <3> QED BY <2>1, <2>2, <3>1, CallRow, Kinds DEF BeforeOK, Saving, Done
  <2>3. CASE t # Dispatcher
    <3>0. /\ pc'[Dispatcher] = pc[Dispatcher] /\ statement'[Dispatcher] = statement[Dispatcher]
          /\ ok' = ok
      BY <2>1, <2>3, CallRow
    <3>1. (Saving' <=> Saving) /\ Done' = Done
      BY <3>0, SameSaving
    <3> QED BY <2>1, <2>3, <3>1, CallRow, Kinds DEF BeforeOK
  <2> QED BY <2>2, <2>3
<1>3. ASSUME NEW t \in Threads, LockForQuery(t) PROVE BeforeOK'
  BY <1>3 DEF LockForQuery, Lock, Goto, TypeOK, ControlOK, Counts, PlacesOK,
    LockAgrees, Holds, TransactionOK, Saving, Statements, Writes, Begin, Select, Single,
    BeforeOK, Done
<1>4. ASSUME NEW t \in Threads, Succeeds(t) PROVE BeforeOK'
  <2>1. CASE statement[t] \in {Select, Single} /\ t = Dispatcher
    BY <1>4, <2>1, ElseRow DEF BeforeOK, TransactionOK
  <2>2. CASE statement[t] \in {Select, Single} /\ t # Dispatcher
    BY <1>4, <2>2, ElseRow, Kinds DEF BeforeOK
  <2>3. CASE t = Dispatcher /\ statement[t] = Begin
    BY <1>4, <2>3, BeginRow, Kinds DEF BeforeOK
  <2>4. CASE t = Dispatcher /\ statement[t] \in Writes
    BY <1>4, <2>4, WriteRow DEF BeforeOK
  <2> QED BY <1>4, <2>1, <2>2, <2>3, <2>4, SucceedsRow
<1>5. ASSUME NEW t \in Threads, Fails(t) PROVE BeforeOK'
  BY <1>5, Kinds DEF Fails, Goto, BeforeOK, Saving, Done, TypeOK, ControlOK, PlacesOK
<1>6. ASSUME NEW t \in Threads, AnswerIsLost(t) PROVE BeforeOK'
  <2>1. CASE t = Dispatcher /\ statement[t] \in Writes
    BY <1>6, <2>1, LostRow DEF BeforeOK
  <2>2. CASE \A s \in Writes : stored'[Dispatcher][s] = stored[Dispatcher][s]
    <3>1. (Saving' <=> Saving) /\ Done' = Done
      BY <1>6, AnswerRow, SameSaving
    <3> QED BY <1>6, <2>2, <3>1, AnswerRow, Kinds DEF BeforeOK
  <2> QED BY <1>6, <2>1, <2>2, AnswerRow
<1>7. ASSUME NEW t \in Threads, Reconnects(t) PROVE BeforeOK'
  BY <1>7, Kinds DEF Reconnects, Goto, BeforeOK, Saving, Done, TypeOK, ControlOK, PlacesOK
<1>8. ASSUME NEW t \in Threads, UnlockAfterQuery(t) PROVE BeforeOK'
  BY <1>8 DEF UnlockAfterQuery, Unlock, Goto, TypeOK, ControlOK, Counts, PlacesOK,
    LockAgrees, Holds, TransactionOK, Saving, Statements, Writes, Begin, Select, Single,
    BeforeOK, Done
<1>9. ASSUME NEW t \in Threads, AfterSelect(t) PROVE BeforeOK'
  <2>1. CASE t = Dispatcher
    BY <1>9, <2>1, AfterSelectRow DEF BeforeOK, TransactionOK, server
  <2>2. CASE t # Dispatcher
    BY <1>9, <2>2, AfterSelectRow DEF BeforeOK, server
  <2> QED BY <2>1, <2>2
<1>10. ASSUME NEW t \in Threads, AfterSingle(t) PROVE BeforeOK'
  BY <1>10, Kinds DEF AfterSingle, Return, Execute, Goto, BeforeOK, Saving, Done,
    TypeOK, ControlOK, PlacesOK
<1>11. CASE BeginTransaction
  BY <1>11 DEF BeginTransaction, Continue, Execute, Goto, TypeOK, ControlOK, Counts,
    PlacesOK, LockAgrees, Holds, TransactionOK, Saving, Statements, Writes, Begin,
    Select, Single, BeforeOK, Done
<1>12. CASE AfterBegin
  BY <1>12 DEF AfterBegin, Goto, TypeOK, ControlOK, Counts, PlacesOK, LockAgrees,
    Holds, TransactionOK, Saving, Statements, Writes, Begin, Select, Single, BeforeOK,
    Done
<1>13. CASE LockTransaction
  BY <1>13 DEF LockTransaction, Lock, Execute, Goto, TypeOK, ControlOK, Counts,
    PlacesOK, LockAgrees, Holds, TransactionOK, Saving, Statements, Writes, Begin,
    Select, Single, BeforeOK, Done
<1>14. CASE AfterWrite
  BY <1>14, AfterWriteRow, Kinds DEF BeforeOK, server
<1>15. CASE Commit
  BY <1>15, EndRow, Kinds DEF Commit, BeforeOK, Saving, Done, TypeOK, ControlOK, PlacesOK
<1>16. CASE Rollback
  BY <1>16, EndRow, Kinds DEF Rollback, BeforeOK, Saving, Done, TypeOK, ControlOK, PlacesOK
<1>17. CASE CommitAnswerIsLost
  BY <1>17 DEF CommitAnswerIsLost, Breaks, WithWork, None, Goto, TypeOK, ControlOK,
    Counts, PlacesOK, LockAgrees, Holds, TransactionOK, Saving, Statements, Writes,
    Begin, Select, Single, BeforeOK, Done
<1>18. CASE EndFails
  BY <1>18, Kinds DEF EndFails, Goto, BeforeOK, Saving, Done, TypeOK, ControlOK, PlacesOK
<1>19. CASE Release
  BY <1>19 DEF Release, Unlock, Goto, TypeOK, ControlOK, Counts, PlacesOK, LockAgrees,
    Holds, TransactionOK, Saving, Statements, Writes, Begin, Select, Single, BeforeOK,
    Done
<1>20. CASE ConnectionBreaks
  BY <1>20 DEF ConnectionBreaks, Breaks, None, TypeOK, ControlOK, Counts, PlacesOK,
    LockAgrees, Holds, TransactionOK, Saving, Statements, Writes, Begin, Select, Single,
    BeforeOK, Done
<1>21. CASE UNCHANGED vars
  BY <1>21 DEF vars, TypeOK, ControlOK, Counts, PlacesOK, LockAgrees, Holds,
    TransactionOK, Saving, Statements, Writes, Begin, Select, Single, BeforeOK, Done
<1> QED
  BY <1>1, <1>2, <1>3, <1>4, <1>5, <1>6, <1>7, <1>8, <1>9, <1>10, <1>11, <1>12, <1>13,
    <1>14, <1>15, <1>16, <1>17, <1>18, <1>19, <1>20, <1>21
  DEF Next, Query, Save

(* In the transaction each statement took effect once, and none is stored.  *)
LEMMA OpenStep ==
  TypeOK /\ PlacesOK /\ LockAgrees /\ TransactionOK /\ BeforeOK /\ OpenOK /\ [Next]_vars
    => OpenOK'
<1> SUFFICES ASSUME TypeOK /\ PlacesOK /\ LockAgrees /\ TransactionOK /\ BeforeOK /\ OpenOK, [Next]_vars
            PROVE  OpenOK'
  OBVIOUS
<1> USE ThreadsAssumption, BoundsAssumption DEF lock, server, Threads
<1>1. ASSUME NEW t \in Threads, CallSingle(t) PROVE OpenOK'
  <2>1. Call(t, Single)
    BY <1>1 DEF CallSingle
  <2>2. CASE t = Dispatcher
    <3>1. ~open'
      BY <2>1, <2>2, CallRow, Kinds DEF TransactionOK, Saving
    <3> QED BY <2>1, <2>2, <3>1, CallRow, Kinds DEF BeforeOK, OpenOK, TransactionOK,
      Saving, Done, Begin
  <2>3. CASE t # Dispatcher
    <3>0. /\ pc'[Dispatcher] = pc[Dispatcher] /\ statement'[Dispatcher] = statement[Dispatcher]
          /\ ok' = ok
      BY <2>1, <2>3, CallRow
    <3>1. (Saving' <=> Saving) /\ Done' = Done
      BY <3>0, SameSaving
    <3> QED BY <2>1, <2>3, <3>1, CallRow, Kinds DEF OpenOK
  <2> QED BY <2>2, <2>3
<1>2. ASSUME NEW t \in Threads, CallSelect(t) PROVE OpenOK'
  <2>1. Call(t, Select)
    BY <1>2 DEF CallSelect
  <2>2. CASE t = Dispatcher
    <3>1. ~open'
      BY <2>1, <2>2, CallRow, Kinds DEF TransactionOK, Saving
    <3> QED BY <2>1, <2>2, <3>1, CallRow, Kinds DEF BeforeOK, OpenOK, TransactionOK,
      Saving, Done, Begin
  <2>3. CASE t # Dispatcher
    <3>0. /\ pc'[Dispatcher] = pc[Dispatcher] /\ statement'[Dispatcher] = statement[Dispatcher]
          /\ ok' = ok
      BY <2>1, <2>3, CallRow
    <3>1. (Saving' <=> Saving) /\ Done' = Done
      BY <3>0, SameSaving
    <3> QED BY <2>1, <2>3, <3>1, CallRow, Kinds DEF OpenOK
  <2> QED BY <2>2, <2>3
<1>3. ASSUME NEW t \in Threads, LockForQuery(t) PROVE OpenOK'
  BY <1>3 DEF LockForQuery, Lock, Goto, TypeOK, ControlOK, Counts, PlacesOK,
    LockAgrees, Holds, TransactionOK, Saving, Statements, Writes, Begin, Select, Single,
    BeforeOK, OpenOK, Done
<1>4. ASSUME NEW t \in Threads, Succeeds(t) PROVE OpenOK'
  <2>1. CASE statement[t] \in {Select, Single} /\ t = Dispatcher
    BY <1>4, <2>1, ElseRow DEF BeforeOK, OpenOK, TransactionOK
  <2>2. CASE statement[t] \in {Select, Single} /\ t # Dispatcher
    BY <1>4, <2>2, ElseRow, Kinds DEF OpenOK
  <2>3. CASE t = Dispatcher /\ statement[t] = Begin
    BY <1>4, <2>3, BeginRow, Kinds DEF BeforeOK, OpenOK
  <2>4. CASE t = Dispatcher /\ statement[t] \in Writes
    <3>1. Succeeds(Dispatcher) /\ statement[Dispatcher] \in Writes
      BY <1>4, <2>4
    <3>2. /\ open' = open /\ Done = statement[Dispatcher] - 1 /\ Done' = statement[Dispatcher]
          /\ \A s \in Writes :
               /\ s \in Nat /\ work[Dispatcher][s] \in Nat /\ stored[Dispatcher][s] \in Nat
               /\ work'[Dispatcher][s] = work[Dispatcher][s]
                    + (IF open /\ s = statement[Dispatcher] THEN 1 ELSE 0)
               /\ stored'[Dispatcher][s] = stored[Dispatcher][s]
                    + (IF ~open /\ s = statement[Dispatcher] THEN 1 ELSE 0)
      BY <3>1, WriteRow
    <3> QED BY <3>1, <3>2 DEF OpenOK
  <2> QED BY <1>4, <2>1, <2>2, <2>3, <2>4, SucceedsRow
<1>5. ASSUME NEW t \in Threads, Fails(t) PROVE OpenOK'
  BY <1>5, Kinds DEF Fails, Goto, BeforeOK, OpenOK, TransactionOK, Saving, Done,
    TypeOK, ControlOK, PlacesOK, Begin
<1>6. ASSUME NEW t \in Threads, AnswerIsLost(t) PROVE OpenOK'
  <2>1. CASE t = Dispatcher /\ statement[t] \in Writes
    BY <1>6, <2>1, LostRow DEF BeforeOK, OpenOK, TransactionOK
  <2>2. CASE \A s \in Writes : stored'[Dispatcher][s] = stored[Dispatcher][s]
    <3>1. (Saving' <=> Saving) /\ Done' = Done
      BY <1>6, AnswerRow, SameSaving
    <3> QED BY <1>6, <2>2, <3>1, AnswerRow, Kinds DEF BeforeOK, OpenOK, TransactionOK
  <2> QED BY <1>6, <2>1, <2>2, AnswerRow
<1>7. ASSUME NEW t \in Threads, Reconnects(t) PROVE OpenOK'
  BY <1>7, Kinds DEF Reconnects, Goto, BeforeOK, OpenOK, TransactionOK, Saving, Done,
    TypeOK, ControlOK, PlacesOK, Begin
<1>8. ASSUME NEW t \in Threads, UnlockAfterQuery(t) PROVE OpenOK'
  BY <1>8 DEF UnlockAfterQuery, Unlock, Goto, TypeOK, ControlOK, Counts, PlacesOK,
    LockAgrees, Holds, TransactionOK, Saving, Statements, Writes, Begin, Select, Single,
    BeforeOK, OpenOK, Done
<1>9. ASSUME NEW t \in Threads, AfterSelect(t) PROVE OpenOK'
  <2>1. CASE t = Dispatcher
    BY <1>9, <2>1, AfterSelectRow DEF BeforeOK, OpenOK, TransactionOK, server
  <2>2. CASE t # Dispatcher
    BY <1>9, <2>2, AfterSelectRow DEF OpenOK, server
  <2> QED BY <2>1, <2>2
<1>10. ASSUME NEW t \in Threads, AfterSingle(t) PROVE OpenOK'
  BY <1>10, Kinds DEF AfterSingle, Return, Execute, Goto, BeforeOK, OpenOK,
    TransactionOK, Saving, Done, TypeOK, ControlOK, PlacesOK, Begin
<1>11. CASE BeginTransaction
  BY <1>11 DEF BeginTransaction, Continue, Execute, Goto, TypeOK, ControlOK, Counts,
    PlacesOK, LockAgrees, Holds, TransactionOK, Saving, Statements, Writes, Begin,
    Select, Single, BeforeOK, OpenOK, Done
<1>12. CASE AfterBegin
  BY <1>12 DEF AfterBegin, Goto, TypeOK, ControlOK, Counts, PlacesOK, LockAgrees,
    Holds, TransactionOK, Saving, Statements, Writes, Begin, Select, Single, BeforeOK,
    OpenOK, Done
<1>13. CASE LockTransaction
  BY <1>13 DEF LockTransaction, Lock, Execute, Goto, TypeOK, ControlOK, Counts,
    PlacesOK, LockAgrees, Holds, TransactionOK, Saving, Statements, Writes, Begin,
    Select, Single, BeforeOK, OpenOK, Done
<1>14. CASE AfterWrite
  BY <1>14, AfterWriteRow, Kinds DEF OpenOK, server
<1>15. CASE Commit
  BY <1>15, EndRow, Kinds DEF Commit, BeforeOK, OpenOK, TransactionOK, Saving, Done,
    TypeOK, ControlOK, PlacesOK, Begin
<1>16. CASE Rollback
  BY <1>16, EndRow, Kinds DEF Rollback, BeforeOK, OpenOK, TransactionOK, Saving, Done,
    TypeOK, ControlOK, PlacesOK, Begin
<1>17. CASE CommitAnswerIsLost
  BY <1>17 DEF CommitAnswerIsLost, Breaks, WithWork, None, Goto, TypeOK, ControlOK,
    Counts, PlacesOK, LockAgrees, Holds, TransactionOK, Saving, Statements, Writes,
    Begin, Select, Single, BeforeOK, OpenOK, Done
<1>18. CASE EndFails
  BY <1>18, Kinds DEF EndFails, Goto, BeforeOK, OpenOK, TransactionOK, Saving, Done,
    TypeOK, ControlOK, PlacesOK, Begin
<1>19. CASE Release
  BY <1>19 DEF Release, Unlock, Goto, TypeOK, ControlOK, Counts, PlacesOK, LockAgrees,
    Holds, TransactionOK, Saving, Statements, Writes, Begin, Select, Single, BeforeOK,
    OpenOK, Done
<1>20. CASE ConnectionBreaks
  BY <1>20 DEF ConnectionBreaks, Breaks, None, TypeOK, ControlOK, Counts, PlacesOK,
    LockAgrees, Holds, TransactionOK, Saving, Statements, Writes, Begin, Select, Single,
    BeforeOK, OpenOK, Done
<1>21. CASE UNCHANGED vars
  BY <1>21 DEF vars, TypeOK, ControlOK, Counts, PlacesOK, LockAgrees, Holds,
    TransactionOK, Saving, Statements, Writes, Begin, Select, Single, BeforeOK, OpenOK,
    Done
<1> QED
  BY <1>1, <1>2, <1>3, <1>4, <1>5, <1>6, <1>7, <1>8, <1>9, <1>10, <1>11, <1>12, <1>13,
    <1>14, <1>15, <1>16, <1>17, <1>18, <1>19, <1>20, <1>21
  DEF Next, Query, Save

(* Without the transaction, a statement that succeeded stored itself.       *)
LEMMA LastStep ==
  TypeOK /\ PlacesOK /\ LockAgrees /\ TransactionOK /\ LastOK /\ [Next]_vars
    => LastOK'
<1> SUFFICES ASSUME TypeOK /\ PlacesOK /\ LockAgrees /\ TransactionOK /\ LastOK, [Next]_vars
            PROVE  LastOK'
  OBVIOUS
<1> USE ThreadsAssumption, BoundsAssumption DEF lock, server, Threads
<1>1. ASSUME NEW t \in Threads, CallSingle(t) PROVE LastOK'
  <2>1. Call(t, Single)
    BY <1>1 DEF CallSingle
  <2>2. CASE t = Dispatcher
    <3>1. ~open'
      BY <2>1, <2>2, CallRow, Kinds DEF TransactionOK, Saving
    <3> QED BY <2>1, <2>2, <3>1, CallRow, Kinds DEF LastOK, TransactionOK, Saving, Done
  <2>3. CASE t # Dispatcher
    <3>0. /\ pc'[Dispatcher] = pc[Dispatcher] /\ statement'[Dispatcher] = statement[Dispatcher]
          /\ ok' = ok
      BY <2>1, <2>3, CallRow
    <3>1. (Saving' <=> Saving) /\ Done' = Done
      BY <3>0, SameSaving
    <3> QED BY <2>1, <2>3, <3>1, CallRow, Kinds DEF LastOK
  <2> QED BY <2>2, <2>3
<1>2. ASSUME NEW t \in Threads, CallSelect(t) PROVE LastOK'
  <2>1. Call(t, Select)
    BY <1>2 DEF CallSelect
  <2>2. CASE t = Dispatcher
    <3>1. ~open'
      BY <2>1, <2>2, CallRow, Kinds DEF TransactionOK, Saving
    <3> QED BY <2>1, <2>2, <3>1, CallRow, Kinds DEF LastOK, TransactionOK, Saving, Done
  <2>3. CASE t # Dispatcher
    <3>0. /\ pc'[Dispatcher] = pc[Dispatcher] /\ statement'[Dispatcher] = statement[Dispatcher]
          /\ ok' = ok
      BY <2>1, <2>3, CallRow
    <3>1. (Saving' <=> Saving) /\ Done' = Done
      BY <3>0, SameSaving
    <3> QED BY <2>1, <2>3, <3>1, CallRow, Kinds DEF LastOK
  <2> QED BY <2>2, <2>3
<1>3. ASSUME NEW t \in Threads, LockForQuery(t) PROVE LastOK'
  BY <1>3 DEF LockForQuery, Lock, Goto, TypeOK, ControlOK, Counts, PlacesOK,
    LockAgrees, Holds, TransactionOK, Saving, Statements, Writes, Begin, Select, Single,
    LastOK, Done
<1>4. ASSUME NEW t \in Threads, Succeeds(t) PROVE LastOK'
  <2>1. CASE statement[t] \in {Select, Single} /\ t = Dispatcher
    BY <1>4, <2>1, ElseRow DEF LastOK, TransactionOK
  <2>2. CASE statement[t] \in {Select, Single} /\ t # Dispatcher
    BY <1>4, <2>2, ElseRow, Kinds DEF LastOK
  <2>3. CASE t = Dispatcher /\ statement[t] = Begin
    BY <1>4, <2>3, BeginRow, Kinds DEF LastOK
  <2>4. CASE t = Dispatcher /\ statement[t] \in Writes
    BY <1>4, <2>4, WriteRow DEF LastOK
  <2> QED BY <1>4, <2>1, <2>2, <2>3, <2>4, SucceedsRow
<1>5. ASSUME NEW t \in Threads, Fails(t) PROVE LastOK'
  BY <1>5, Kinds DEF Fails, Goto, LastOK, TransactionOK, Saving, Done, TypeOK,
    ControlOK, PlacesOK
<1>6. ASSUME NEW t \in Threads, AnswerIsLost(t) PROVE LastOK'
  <2>1. CASE t = Dispatcher /\ statement[t] \in Writes
    BY <1>6, <2>1, LostRow DEF LastOK, TransactionOK
  <2>2. CASE \A s \in Writes : stored'[Dispatcher][s] = stored[Dispatcher][s]
    <3>1. (Saving' <=> Saving) /\ Done' = Done
      BY <1>6, AnswerRow, SameSaving
    <3> QED BY <1>6, <2>2, <3>1, AnswerRow, Kinds DEF LastOK, TransactionOK
  <2> QED BY <1>6, <2>1, <2>2, AnswerRow
<1>7. ASSUME NEW t \in Threads, Reconnects(t) PROVE LastOK'
  <2>0. owner = t
    BY <1>7 DEF Reconnects, LockAgrees, Holds
  <2>1. CASE t = Dispatcher
    BY <1>7, <2>1 DEF Reconnects, LastOK, TransactionOK, Saving, Done
  <2>2. CASE t # Dispatcher
    <3>1. statement[Dispatcher] \in Writes => pc[Dispatcher] \notin {"unlock", "returned", "commit"}
      BY <2>0, <2>2 DEF LockAgrees, Holds
    <3> QED BY <1>7, <3>1 DEF Reconnects, LastOK, TransactionOK, Saving, Done
  <2> QED BY <2>1, <2>2
<1>8. ASSUME NEW t \in Threads, UnlockAfterQuery(t) PROVE LastOK'
  BY <1>8 DEF UnlockAfterQuery, Unlock, Goto, TypeOK, ControlOK, Counts, PlacesOK,
    LockAgrees, Holds, TransactionOK, Saving, Statements, Writes, Begin, Select, Single,
    LastOK, Done
<1>9. ASSUME NEW t \in Threads, AfterSelect(t) PROVE LastOK'
  <2>1. CASE t = Dispatcher
    BY <1>9, <2>1, AfterSelectRow DEF LastOK, TransactionOK, server
  <2>2. CASE t # Dispatcher
    BY <1>9, <2>2, AfterSelectRow DEF LastOK, server
  <2> QED BY <2>1, <2>2
<1>10. ASSUME NEW t \in Threads, AfterSingle(t) PROVE LastOK'
  BY <1>10, Kinds DEF AfterSingle, Return, Execute, Goto, LastOK, TransactionOK,
    Saving, Done, TypeOK, ControlOK, PlacesOK
<1>11. CASE BeginTransaction
  BY <1>11 DEF BeginTransaction, Continue, Execute, Goto, TypeOK, ControlOK, Counts,
    PlacesOK, LockAgrees, Holds, TransactionOK, Saving, Statements, Writes, Begin,
    Select, Single, LastOK, Done
<1>12. CASE AfterBegin
  BY <1>12 DEF AfterBegin, Goto, TypeOK, ControlOK, Counts, PlacesOK, LockAgrees,
    Holds, TransactionOK, Saving, Statements, Writes, Begin, Select, Single, LastOK,
    Done
<1>13. CASE LockTransaction
  BY <1>13 DEF LockTransaction, Lock, Execute, Goto, TypeOK, ControlOK, Counts,
    PlacesOK, LockAgrees, Holds, TransactionOK, Saving, Statements, Writes, Begin,
    Select, Single, LastOK, Done
<1>14. CASE AfterWrite
  BY <1>14, AfterWriteRow, Kinds DEF LastOK, server
<1>15. CASE Commit
  BY <1>15, EndRow, Kinds DEF Commit, LastOK, TransactionOK, Saving, Done, TypeOK,
    ControlOK, PlacesOK
<1>16. CASE Rollback
  BY <1>16, EndRow, Kinds DEF Rollback, LastOK, TransactionOK, Saving, Done, TypeOK,
    ControlOK, PlacesOK
<1>17. CASE CommitAnswerIsLost
  <2>1. pc'[Dispatcher] = "release"
    BY <1>17 DEF CommitAnswerIsLost, Goto, TypeOK, ControlOK, Threads
  <2> QED BY <2>1 DEF LastOK
<1>18. CASE EndFails
  BY <1>18, Kinds DEF EndFails, Goto, LastOK, TransactionOK, Saving, Done, TypeOK,
    ControlOK, PlacesOK
<1>19. CASE Release
  BY <1>19 DEF Release, Unlock, Goto, TypeOK, ControlOK, Counts, PlacesOK, LockAgrees,
    Holds, TransactionOK, Saving, Statements, Writes, Begin, Select, Single, LastOK,
    Done
<1>20. CASE ConnectionBreaks
  BY <1>20 DEF ConnectionBreaks, Breaks, None, TypeOK, ControlOK, Counts, PlacesOK,
    LockAgrees, Holds, TransactionOK, Saving, Statements, Writes, Begin, Select, Single,
    LastOK, Done
<1>21. CASE UNCHANGED vars
  BY <1>21 DEF vars, TypeOK, ControlOK, Counts, PlacesOK, LockAgrees, Holds,
    TransactionOK, Saving, Statements, Writes, Begin, Select, Single, LastOK, Done
<1> QED
  BY <1>1, <1>2, <1>3, <1>4, <1>5, <1>6, <1>7, <1>8, <1>9, <1>10, <1>11, <1>12, <1>13,
    <1>14, <1>15, <1>16, <1>17, <1>18, <1>19, <1>20, <1>21
  DEF Next, Query, Save

(* Without it, the statements that are stored are the last ones.            *)
LEMMA OrderStep ==
  TypeOK /\ PlacesOK /\ LockAgrees /\ TransactionOK /\ BeforeOK /\ OpenOK /\ OrderOK /\ [Next]_vars
    => OrderOK'
<1> SUFFICES ASSUME TypeOK /\ PlacesOK /\ LockAgrees /\ TransactionOK /\ BeforeOK /\ OpenOK /\ OrderOK, [Next]_vars
            PROVE  OrderOK'
  OBVIOUS
<1> USE ThreadsAssumption, BoundsAssumption DEF lock, server, Threads
<1>1. ASSUME NEW t \in Threads, CallSingle(t) PROVE OrderOK'
  <2>1. Call(t, Single)
    BY <1>1 DEF CallSingle
  <2>2. CASE t = Dispatcher
    <3>1. ~open'
      BY <2>1, <2>2, CallRow, Kinds DEF TransactionOK, Saving
    <3> QED BY <2>1, <2>2, <3>1, CallRow, Kinds DEF BeforeOK, OpenOK, OrderOK, Saving,
      Done, Begin
  <2>3. CASE t # Dispatcher
    <3>0. /\ pc'[Dispatcher] = pc[Dispatcher] /\ statement'[Dispatcher] = statement[Dispatcher]
          /\ ok' = ok
      BY <2>1, <2>3, CallRow
    <3>1. (Saving' <=> Saving) /\ Done' = Done
      BY <3>0, SameSaving
    <3> QED BY <2>1, <2>3, <3>1, CallRow, Kinds DEF OrderOK
  <2> QED BY <2>2, <2>3
<1>2. ASSUME NEW t \in Threads, CallSelect(t) PROVE OrderOK'
  <2>1. Call(t, Select)
    BY <1>2 DEF CallSelect
  <2>2. CASE t = Dispatcher
    <3>1. ~open'
      BY <2>1, <2>2, CallRow, Kinds DEF TransactionOK, Saving
    <3> QED BY <2>1, <2>2, <3>1, CallRow, Kinds DEF BeforeOK, OpenOK, OrderOK, Saving,
      Done, Begin
  <2>3. CASE t # Dispatcher
    <3>0. /\ pc'[Dispatcher] = pc[Dispatcher] /\ statement'[Dispatcher] = statement[Dispatcher]
          /\ ok' = ok
      BY <2>1, <2>3, CallRow
    <3>1. (Saving' <=> Saving) /\ Done' = Done
      BY <3>0, SameSaving
    <3> QED BY <2>1, <2>3, <3>1, CallRow, Kinds DEF OrderOK
  <2> QED BY <2>2, <2>3
<1>3. ASSUME NEW t \in Threads, LockForQuery(t) PROVE OrderOK'
  BY <1>3 DEF LockForQuery, Lock, Goto, TypeOK, ControlOK, Counts, PlacesOK,
    LockAgrees, Holds, TransactionOK, Saving, Statements, Writes, Begin, Select, Single,
    BeforeOK, OpenOK, OrderOK, Done
<1>4. ASSUME NEW t \in Threads, Succeeds(t) PROVE OrderOK'
  <2>1. CASE statement[t] \in {Select, Single} /\ t = Dispatcher
    BY <1>4, <2>1, ElseRow DEF BeforeOK, OpenOK, OrderOK, TransactionOK
  <2>2. CASE statement[t] \in {Select, Single} /\ t # Dispatcher
    BY <1>4, <2>2, ElseRow, Kinds DEF OrderOK
  <2>3. CASE t = Dispatcher /\ statement[t] = Begin
    BY <1>4, <2>3, BeginRow, Kinds DEF BeforeOK, OpenOK, OrderOK
  <2>4. CASE t = Dispatcher /\ statement[t] \in Writes
    BY <1>4, <2>4, WriteRow DEF BeforeOK, OpenOK, OrderOK
  <2> QED BY <1>4, <2>1, <2>2, <2>3, <2>4, SucceedsRow
<1>5. ASSUME NEW t \in Threads, Fails(t) PROVE OrderOK'
  BY <1>5, Kinds DEF Fails, Goto, BeforeOK, OpenOK, OrderOK, Saving, Done, TypeOK,
    ControlOK, PlacesOK, Begin
<1>6. ASSUME NEW t \in Threads, AnswerIsLost(t) PROVE OrderOK'
  <2>1. CASE t = Dispatcher /\ statement[t] \in Writes
    BY <1>6, <2>1, LostRow DEF BeforeOK, OpenOK, OrderOK
  <2>2. CASE \A s \in Writes : stored'[Dispatcher][s] = stored[Dispatcher][s]
    <3>1. (Saving' <=> Saving) /\ Done' = Done
      BY <1>6, AnswerRow, SameSaving
    <3> QED BY <1>6, <2>2, <3>1, AnswerRow, Kinds DEF BeforeOK, OpenOK, OrderOK
  <2> QED BY <1>6, <2>1, <2>2, AnswerRow
<1>7. ASSUME NEW t \in Threads, Reconnects(t) PROVE OrderOK'
  BY <1>7, Kinds DEF Reconnects, Goto, BeforeOK, OpenOK, OrderOK, Saving, Done,
    TypeOK, ControlOK, PlacesOK, Begin
<1>8. ASSUME NEW t \in Threads, UnlockAfterQuery(t) PROVE OrderOK'
  BY <1>8 DEF UnlockAfterQuery, Unlock, Goto, TypeOK, ControlOK, Counts, PlacesOK,
    LockAgrees, Holds, TransactionOK, Saving, Statements, Writes, Begin, Select, Single,
    BeforeOK, OpenOK, OrderOK, Done
<1>9. ASSUME NEW t \in Threads, AfterSelect(t) PROVE OrderOK'
  <2>1. CASE t = Dispatcher
    BY <1>9, <2>1, AfterSelectRow DEF BeforeOK, OpenOK, OrderOK, TransactionOK, server
  <2>2. CASE t # Dispatcher
    BY <1>9, <2>2, AfterSelectRow DEF OrderOK, server
  <2> QED BY <2>1, <2>2
<1>10. ASSUME NEW t \in Threads, AfterSingle(t) PROVE OrderOK'
  BY <1>10, Kinds DEF AfterSingle, Return, Execute, Goto, BeforeOK, OpenOK, OrderOK,
    Saving, Done, TypeOK, ControlOK, PlacesOK, Begin
<1>11. CASE BeginTransaction
  BY <1>11 DEF BeginTransaction, Continue, Execute, Goto, TypeOK, ControlOK, Counts,
    PlacesOK, LockAgrees, Holds, TransactionOK, Saving, Statements, Writes, Begin,
    Select, Single, BeforeOK, OpenOK, OrderOK, Done
<1>12. CASE AfterBegin
  BY <1>12 DEF AfterBegin, Goto, TypeOK, ControlOK, Counts, PlacesOK, LockAgrees,
    Holds, TransactionOK, Saving, Statements, Writes, Begin, Select, Single, BeforeOK,
    OpenOK, OrderOK, Done
<1>13. CASE LockTransaction
  BY <1>13 DEF LockTransaction, Lock, Execute, Goto, TypeOK, ControlOK, Counts,
    PlacesOK, LockAgrees, Holds, TransactionOK, Saving, Statements, Writes, Begin,
    Select, Single, BeforeOK, OpenOK, OrderOK, Done
<1>14. CASE AfterWrite
  BY <1>14, AfterWriteRow, Kinds DEF OrderOK, server
<1>15. CASE Commit
  BY <1>15, EndRow, Kinds DEF Commit, BeforeOK, OpenOK, OrderOK, Saving, Done, TypeOK,
    ControlOK, PlacesOK, Begin
<1>16. CASE Rollback
  BY <1>16, EndRow, Kinds DEF Rollback, BeforeOK, OpenOK, OrderOK, Saving, Done,
    TypeOK, ControlOK, PlacesOK, Begin
<1>17. CASE CommitAnswerIsLost
  BY <1>17 DEF CommitAnswerIsLost, Breaks, WithWork, None, Goto, TypeOK, ControlOK,
    Counts, PlacesOK, LockAgrees, Holds, TransactionOK, Saving, Statements, Writes,
    Begin, Select, Single, BeforeOK, OpenOK, OrderOK, Done
<1>18. CASE EndFails
  BY <1>18, Kinds DEF EndFails, Goto, BeforeOK, OpenOK, OrderOK, Saving, Done, TypeOK,
    ControlOK, PlacesOK, Begin
<1>19. CASE Release
  BY <1>19 DEF Release, Unlock, Goto, TypeOK, ControlOK, Counts, PlacesOK, LockAgrees,
    Holds, TransactionOK, Saving, Statements, Writes, Begin, Select, Single, BeforeOK,
    OpenOK, OrderOK, Done
<1>20. CASE ConnectionBreaks
  BY <1>20 DEF ConnectionBreaks, Breaks, None, TypeOK, ControlOK, Counts, PlacesOK,
    LockAgrees, Holds, TransactionOK, Saving, Statements, Writes, Begin, Select, Single,
    BeforeOK, OpenOK, OrderOK, Done
<1>21. CASE UNCHANGED vars
  BY <1>21 DEF vars, TypeOK, ControlOK, Counts, PlacesOK, LockAgrees, Holds,
    TransactionOK, Saving, Statements, Writes, Begin, Select, Single, BeforeOK, OpenOK,
    OrderOK, Done
<1> QED
  BY <1>1, <1>2, <1>3, <1>4, <1>5, <1>6, <1>7, <1>8, <1>9, <1>10, <1>11, <1>12, <1>13,
    <1>14, <1>15, <1>16, <1>17, <1>18, <1>19, <1>20, <1>21
  DEF Next, Query, Save

(* Nothing is stored ahead of its turn.                                     *)
LEMMA LaterStep ==
  TypeOK /\ PlacesOK /\ LockAgrees /\ TransactionOK /\ BeforeOK /\ OpenOK /\ LaterOK /\ [Next]_vars
    => LaterOK'
<1> SUFFICES ASSUME TypeOK /\ PlacesOK /\ LockAgrees /\ TransactionOK /\ BeforeOK /\ OpenOK /\ LaterOK, [Next]_vars
            PROVE  LaterOK'
  OBVIOUS
<1> USE ThreadsAssumption, BoundsAssumption DEF lock, server, Threads
<1>1. ASSUME NEW t \in Threads, CallSingle(t) PROVE LaterOK'
  <2>1. Call(t, Single)
    BY <1>1 DEF CallSingle
  <2>2. CASE t = Dispatcher
    <3>1. ~open'
      BY <2>1, <2>2, CallRow, Kinds DEF TransactionOK, Saving
    <3> QED BY <2>1, <2>2, <3>1, CallRow, Kinds DEF BeforeOK, OpenOK, LaterOK, Saving,
      Done, Begin
  <2>3. CASE t # Dispatcher
    <3>0. /\ pc'[Dispatcher] = pc[Dispatcher] /\ statement'[Dispatcher] = statement[Dispatcher]
          /\ ok' = ok
      BY <2>1, <2>3, CallRow
    <3>1. (Saving' <=> Saving) /\ Done' = Done
      BY <3>0, SameSaving
    <3> QED BY <2>1, <2>3, <3>1, CallRow, Kinds DEF LaterOK
  <2> QED BY <2>2, <2>3
<1>2. ASSUME NEW t \in Threads, CallSelect(t) PROVE LaterOK'
  <2>1. Call(t, Select)
    BY <1>2 DEF CallSelect
  <2>2. CASE t = Dispatcher
    <3>1. ~open'
      BY <2>1, <2>2, CallRow, Kinds DEF TransactionOK, Saving
    <3> QED BY <2>1, <2>2, <3>1, CallRow, Kinds DEF BeforeOK, OpenOK, LaterOK, Saving,
      Done, Begin
  <2>3. CASE t # Dispatcher
    <3>0. /\ pc'[Dispatcher] = pc[Dispatcher] /\ statement'[Dispatcher] = statement[Dispatcher]
          /\ ok' = ok
      BY <2>1, <2>3, CallRow
    <3>1. (Saving' <=> Saving) /\ Done' = Done
      BY <3>0, SameSaving
    <3> QED BY <2>1, <2>3, <3>1, CallRow, Kinds DEF LaterOK
  <2> QED BY <2>2, <2>3
<1>3. ASSUME NEW t \in Threads, LockForQuery(t) PROVE LaterOK'
  BY <1>3 DEF LockForQuery, Lock, Goto, TypeOK, ControlOK, Counts, PlacesOK,
    LockAgrees, Holds, TransactionOK, Saving, Statements, Writes, Begin, Select, Single,
    BeforeOK, OpenOK, LaterOK, Done
<1>4. ASSUME NEW t \in Threads, Succeeds(t) PROVE LaterOK'
  <2>1. CASE statement[t] \in {Select, Single} /\ t = Dispatcher
    BY <1>4, <2>1, ElseRow DEF BeforeOK, OpenOK, LaterOK, TransactionOK
  <2>2. CASE statement[t] \in {Select, Single} /\ t # Dispatcher
    BY <1>4, <2>2, ElseRow, Kinds DEF LaterOK
  <2>3. CASE t = Dispatcher /\ statement[t] = Begin
    BY <1>4, <2>3, BeginRow, Kinds DEF BeforeOK, OpenOK, LaterOK
  <2>4. CASE t = Dispatcher /\ statement[t] \in Writes
    BY <1>4, <2>4, WriteRow DEF BeforeOK, OpenOK, LaterOK
  <2> QED BY <1>4, <2>1, <2>2, <2>3, <2>4, SucceedsRow
<1>5. ASSUME NEW t \in Threads, Fails(t) PROVE LaterOK'
  BY <1>5, Kinds DEF Fails, Goto, BeforeOK, OpenOK, LaterOK, Saving, Done, TypeOK,
    ControlOK, PlacesOK, Begin
<1>6. ASSUME NEW t \in Threads, AnswerIsLost(t) PROVE LaterOK'
  <2>1. CASE t = Dispatcher /\ statement[t] \in Writes
    BY <1>6, <2>1, LostRow DEF BeforeOK, OpenOK, LaterOK
  <2>2. CASE \A s \in Writes : stored'[Dispatcher][s] = stored[Dispatcher][s]
    <3>1. (Saving' <=> Saving) /\ Done' = Done
      BY <1>6, AnswerRow, SameSaving
    <3> QED BY <1>6, <2>2, <3>1, AnswerRow, Kinds DEF BeforeOK, OpenOK, LaterOK
  <2> QED BY <1>6, <2>1, <2>2, AnswerRow
<1>7. ASSUME NEW t \in Threads, Reconnects(t) PROVE LaterOK'
  BY <1>7, Kinds DEF Reconnects, Goto, BeforeOK, OpenOK, LaterOK, Saving, Done,
    TypeOK, ControlOK, PlacesOK, Begin
<1>8. ASSUME NEW t \in Threads, UnlockAfterQuery(t) PROVE LaterOK'
  BY <1>8 DEF UnlockAfterQuery, Unlock, Goto, TypeOK, ControlOK, Counts, PlacesOK,
    LockAgrees, Holds, TransactionOK, Saving, Statements, Writes, Begin, Select, Single,
    BeforeOK, OpenOK, LaterOK, Done
<1>9. ASSUME NEW t \in Threads, AfterSelect(t) PROVE LaterOK'
  <2>1. CASE t = Dispatcher
    BY <1>9, <2>1, AfterSelectRow DEF BeforeOK, OpenOK, LaterOK, TransactionOK, server
  <2>2. CASE t # Dispatcher
    BY <1>9, <2>2, AfterSelectRow DEF LaterOK, server
  <2> QED BY <2>1, <2>2
<1>10. ASSUME NEW t \in Threads, AfterSingle(t) PROVE LaterOK'
  BY <1>10, Kinds DEF AfterSingle, Return, Execute, Goto, BeforeOK, OpenOK, LaterOK,
    Saving, Done, TypeOK, ControlOK, PlacesOK, Begin
<1>11. CASE BeginTransaction
  BY <1>11 DEF BeginTransaction, Continue, Execute, Goto, TypeOK, ControlOK, Counts,
    PlacesOK, LockAgrees, Holds, TransactionOK, Saving, Statements, Writes, Begin,
    Select, Single, BeforeOK, OpenOK, LaterOK, Done
<1>12. CASE AfterBegin
  BY <1>12 DEF AfterBegin, Goto, TypeOK, ControlOK, Counts, PlacesOK, LockAgrees,
    Holds, TransactionOK, Saving, Statements, Writes, Begin, Select, Single, BeforeOK,
    OpenOK, LaterOK, Done
<1>13. CASE LockTransaction
  BY <1>13 DEF LockTransaction, Lock, Execute, Goto, TypeOK, ControlOK, Counts,
    PlacesOK, LockAgrees, Holds, TransactionOK, Saving, Statements, Writes, Begin,
    Select, Single, BeforeOK, OpenOK, LaterOK, Done
<1>14. CASE AfterWrite
  BY <1>14, AfterWriteRow, Kinds DEF LaterOK, server
<1>15. CASE Commit
  BY <1>15, EndRow, Kinds DEF Commit, BeforeOK, OpenOK, LaterOK, Saving, Done, TypeOK,
    ControlOK, PlacesOK, Begin
<1>16. CASE Rollback
  BY <1>16, EndRow, Kinds DEF Rollback, BeforeOK, OpenOK, LaterOK, Saving, Done,
    TypeOK, ControlOK, PlacesOK, Begin
<1>17. CASE CommitAnswerIsLost
  BY <1>17 DEF CommitAnswerIsLost, Breaks, WithWork, None, Goto, TypeOK, ControlOK,
    Counts, PlacesOK, LockAgrees, Holds, TransactionOK, Saving, Statements, Writes,
    Begin, Select, Single, BeforeOK, OpenOK, LaterOK, Done
<1>18. CASE EndFails
  BY <1>18, Kinds DEF EndFails, Goto, BeforeOK, OpenOK, LaterOK, Saving, Done, TypeOK,
    ControlOK, PlacesOK, Begin
<1>19. CASE Release
  BY <1>19 DEF Release, Unlock, Goto, TypeOK, ControlOK, Counts, PlacesOK, LockAgrees,
    Holds, TransactionOK, Saving, Statements, Writes, Begin, Select, Single, BeforeOK,
    OpenOK, LaterOK, Done
<1>20. CASE ConnectionBreaks
  BY <1>20 DEF ConnectionBreaks, Breaks, None, TypeOK, ControlOK, Counts, PlacesOK,
    LockAgrees, Holds, TransactionOK, Saving, Statements, Writes, Begin, Select, Single,
    BeforeOK, OpenOK, LaterOK, Done
<1>21. CASE UNCHANGED vars
  BY <1>21 DEF vars, TypeOK, ControlOK, Counts, PlacesOK, LockAgrees, Holds,
    TransactionOK, Saving, Statements, Writes, Begin, Select, Single, BeforeOK, OpenOK,
    LaterOK, Done
<1> QED
  BY <1>1, <1>2, <1>3, <1>4, <1>5, <1>6, <1>7, <1>8, <1>9, <1>10, <1>11, <1>12, <1>13,
    <1>14, <1>15, <1>16, <1>17, <1>18, <1>19, <1>20, <1>21
  DEF Next, Query, Save

(* What a save has stored when it ended.                                    *)
LEMMA EndStep ==
  TypeOK /\ PlacesOK /\ LockAgrees /\ TransactionOK /\ BeforeOK /\ OpenOK /\ LastOK /\ OrderOK /\ LaterOK /\ EndOK /\ [Next]_vars
    => EndOK'
<1> SUFFICES ASSUME TypeOK /\ PlacesOK /\ LockAgrees /\ TransactionOK /\ BeforeOK /\ OpenOK /\ LastOK /\ OrderOK /\ LaterOK /\ EndOK, [Next]_vars
            PROVE  EndOK'
  OBVIOUS
<1> USE ThreadsAssumption, BoundsAssumption DEF lock, server, Threads
<1>1. ASSUME NEW t \in Threads, CallSingle(t) PROVE EndOK'
  <2>1. Call(t, Single)
    BY <1>1 DEF CallSingle
  <2>2. CASE t = Dispatcher
    <3>1. ~open'
      BY <2>1, <2>2, CallRow, Kinds DEF TransactionOK, Saving
    <3> QED BY <2>1, <2>2, <3>1, CallRow, Kinds DEF BeforeOK, OpenOK, LastOK, OrderOK,
      LaterOK, EndOK, TransactionOK, Saving, Done
  <2>3. CASE t # Dispatcher
    <3>0. /\ pc'[Dispatcher] = pc[Dispatcher] /\ statement'[Dispatcher] = statement[Dispatcher]
          /\ ok' = ok
      BY <2>1, <2>3, CallRow
    <3>1. (Saving' <=> Saving) /\ Done' = Done
      BY <3>0, SameSaving
    <3> QED BY <2>1, <2>3, <3>1, CallRow, Kinds DEF EndOK
  <2> QED BY <2>2, <2>3
<1>2. ASSUME NEW t \in Threads, CallSelect(t) PROVE EndOK'
  <2>1. Call(t, Select)
    BY <1>2 DEF CallSelect
  <2>2. CASE t = Dispatcher
    <3>1. ~open'
      BY <2>1, <2>2, CallRow, Kinds DEF TransactionOK, Saving
    <3> QED BY <2>1, <2>2, <3>1, CallRow, Kinds DEF BeforeOK, OpenOK, LastOK, OrderOK,
      LaterOK, EndOK, TransactionOK, Saving, Done
  <2>3. CASE t # Dispatcher
    <3>0. /\ pc'[Dispatcher] = pc[Dispatcher] /\ statement'[Dispatcher] = statement[Dispatcher]
          /\ ok' = ok
      BY <2>1, <2>3, CallRow
    <3>1. (Saving' <=> Saving) /\ Done' = Done
      BY <3>0, SameSaving
    <3> QED BY <2>1, <2>3, <3>1, CallRow, Kinds DEF EndOK
  <2> QED BY <2>2, <2>3
<1>3. ASSUME NEW t \in Threads, LockForQuery(t) PROVE EndOK'
  BY <1>3 DEF LockForQuery, Lock, Goto, TypeOK, ControlOK, Counts, PlacesOK,
    LockAgrees, Holds, TransactionOK, Saving, Statements, Writes, Begin, Select, Single,
    BeforeOK, OpenOK, LastOK, OrderOK, LaterOK, EndOK, Done
<1>4. ASSUME NEW t \in Threads, Succeeds(t) PROVE EndOK'
  <2>1. CASE statement[t] \in {Select, Single} /\ t = Dispatcher
    BY <1>4, <2>1, ElseRow DEF BeforeOK, OpenOK, LastOK, OrderOK, LaterOK, EndOK,
      TransactionOK
  <2>2. CASE statement[t] \in {Select, Single} /\ t # Dispatcher
    BY <1>4, <2>2, ElseRow, Kinds DEF EndOK
  <2>3. CASE t = Dispatcher /\ statement[t] = Begin
    BY <1>4, <2>3, BeginRow, Kinds DEF BeforeOK, OpenOK, LastOK, OrderOK, LaterOK, EndOK
  <2>4. CASE t = Dispatcher /\ statement[t] \in Writes
    BY <1>4, <2>4, WriteRow DEF BeforeOK, OpenOK, LastOK, OrderOK, LaterOK, EndOK
  <2> QED BY <1>4, <2>1, <2>2, <2>3, <2>4, SucceedsRow
<1>5. ASSUME NEW t \in Threads, Fails(t) PROVE EndOK'
  BY <1>5, Kinds DEF Fails, Goto, BeforeOK, OpenOK, LastOK, OrderOK, LaterOK, EndOK,
    TransactionOK, Saving, Done, TypeOK, ControlOK, PlacesOK
<1>6. ASSUME NEW t \in Threads, AnswerIsLost(t) PROVE EndOK'
  <2>1. CASE t = Dispatcher /\ statement[t] \in Writes
    BY <1>6, <2>1, LostRow DEF BeforeOK, OpenOK, LastOK, OrderOK, LaterOK, EndOK,
      TransactionOK
  <2>2. CASE \A s \in Writes : stored'[Dispatcher][s] = stored[Dispatcher][s]
    <3>1. (Saving' <=> Saving) /\ Done' = Done
      BY <1>6, AnswerRow, SameSaving
    <3> QED BY <1>6, <2>2, <3>1, AnswerRow, Kinds DEF BeforeOK, OpenOK, LastOK,
      OrderOK, LaterOK, EndOK, TransactionOK
  <2> QED BY <1>6, <2>1, <2>2, AnswerRow
<1>7. ASSUME NEW t \in Threads, Reconnects(t) PROVE EndOK'
  BY <1>7, Kinds DEF Reconnects, Goto, BeforeOK, OpenOK, LastOK, OrderOK, LaterOK,
    EndOK, TransactionOK, Saving, Done, TypeOK, ControlOK, PlacesOK
<1>8. ASSUME NEW t \in Threads, UnlockAfterQuery(t) PROVE EndOK'
  BY <1>8 DEF UnlockAfterQuery, Unlock, Goto, TypeOK, ControlOK, Counts, PlacesOK,
    LockAgrees, Holds, TransactionOK, Saving, Statements, Writes, Begin, Select, Single,
    BeforeOK, OpenOK, LastOK, OrderOK, LaterOK, EndOK, Done
<1>9. ASSUME NEW t \in Threads, AfterSelect(t) PROVE EndOK'
  <2>1. CASE t = Dispatcher
    BY <1>9, <2>1, AfterSelectRow DEF BeforeOK, OpenOK, LastOK, OrderOK, LaterOK,
      EndOK, TransactionOK, server
  <2>2. CASE t # Dispatcher
    BY <1>9, <2>2, AfterSelectRow DEF EndOK, server
  <2> QED BY <2>1, <2>2
<1>10. ASSUME NEW t \in Threads, AfterSingle(t) PROVE EndOK'
  BY <1>10, Kinds DEF AfterSingle, Return, Execute, Goto, BeforeOK, OpenOK, LastOK,
    OrderOK, LaterOK, EndOK, TransactionOK, Saving, Done, TypeOK, ControlOK, PlacesOK
<1>11. CASE BeginTransaction
  BY <1>11 DEF BeginTransaction, Continue, Execute, Goto, TypeOK, ControlOK, Counts,
    PlacesOK, LockAgrees, Holds, TransactionOK, Saving, Statements, Writes, Begin,
    Select, Single, BeforeOK, OpenOK, LastOK, OrderOK, LaterOK, EndOK, Done
<1>12. CASE AfterBegin
  BY <1>12 DEF AfterBegin, Goto, TypeOK, ControlOK, Counts, PlacesOK, LockAgrees,
    Holds, TransactionOK, Saving, Statements, Writes, Begin, Select, Single, BeforeOK,
    OpenOK, LastOK, OrderOK, LaterOK, EndOK, Done
<1>13. CASE LockTransaction
  BY <1>13 DEF LockTransaction, Lock, Execute, Goto, TypeOK, ControlOK, Counts,
    PlacesOK, LockAgrees, Holds, TransactionOK, Saving, Statements, Writes, Begin,
    Select, Single, BeforeOK, OpenOK, LastOK, OrderOK, LaterOK, EndOK, Done
<1>14. CASE AfterWrite
  BY <1>14, AfterWriteRow, Kinds DEF EndOK, server
<1>15. CASE Commit
  <2>1. /\ pc[Dispatcher] = "commit" /\ EndTransaction(WithWork)
        /\ statement[Dispatcher] = N /\ ok[Dispatcher] /\ N \in Writes
        /\ \A s \in Writes : s \in Nat /\ s <= N
    BY <1>15, Kinds DEF Commit, PlacesOK
  <2>2. Saving /\ Done = N
    BY <2>1, Kinds DEF Saving, Done
  <2>3. /\ pc'[Dispatcher] = "release" /\ ~open' /\ ok'[Dispatcher] /\ lost' = lost
        /\ \A s \in Writes : stored'[Dispatcher][s] = stored[Dispatcher][s] + work[Dispatcher][s]
    BY <2>1, EndRow
  <2>4. \A s \in Writes : work[Dispatcher][s] \in Nat /\ stored[Dispatcher][s] \in Nat
    BY Kinds DEF TypeOK, Counts, Threads
  <2>5. CASE open
    BY <2>1, <2>2, <2>3, <2>4, <2>5 DEF OpenOK, EndOK
  <2>6. CASE ~open
    <3>1. \A s \in Writes : work[Dispatcher][s] = 0
      BY <2>6, Kinds DEF TransactionOK, None, Threads
    <3>2. \A s \in Writes : stored'[Dispatcher][s] = stored[Dispatcher][s]
      BY <2>3, <2>4, <3>1
    <3>3. lost[Dispatcher]
      BY <2>2, <2>6 DEF TransactionOK
    <3>4. up \/ ~known
      BY <2>1 DEF EndTransaction
    <3>5. stored[Dispatcher][N] > 0
      BY <2>1, <2>2, <2>6, <3>4 DEF LastOK
    <3> QED BY <2>1, <2>2, <2>3, <2>6, <3>2, <3>3, <3>5 DEF OrderOK, EndOK
  <2> QED BY <2>5, <2>6
<1>16. CASE Rollback
  <2>1. pc[Dispatcher] = "rollback" /\ EndTransaction(stored) /\ stored \in {WithWork, stored}
    BY <1>16 DEF Rollback
  <2>2. /\ pc'[Dispatcher] = "release" /\ ~open' /\ ~ok'[Dispatcher] /\ lost' = lost /\ stored' = stored
    BY <2>1, EndRow DEF EndTransaction
  <2>3. CASE statement[Dispatcher] \in Writes
    BY <2>1, <2>2, <2>3 DEF TransactionOK, Saving, OpenOK, EndOK
  <2>4. CASE statement[Dispatcher] = Begin
    BY <2>1, <2>2, <2>4, Kinds DEF BeforeOK, Saving, EndOK
  <2> QED BY <2>1, <2>3, <2>4 DEF PlacesOK
<1>17. CASE CommitAnswerIsLost
  BY <1>17 DEF CommitAnswerIsLost, Breaks, WithWork, None, Goto, TypeOK, ControlOK,
    Counts, PlacesOK, LockAgrees, Holds, TransactionOK, Saving, Statements, Writes,
    Begin, Select, Single, BeforeOK, OpenOK, LastOK, OrderOK, LaterOK, EndOK, Done
<1>18. CASE EndFails
  <2>1. Dispatcher \in Threads
    BY DEF Threads
  <2>2. ~open /\ ~open' /\ pc'[Dispatcher] = "release" /\ ~ok'[Dispatcher] /\ stored' = stored
        /\ statement' = statement /\ lost' = lost
    BY <1>18, <2>1 DEF EndFails, Goto, TypeOK, ControlOK, TransactionOK
  <2>3. pc[Dispatcher] \in {"commit", "rollback"}
    BY <1>18 DEF EndFails
  <2>4. CASE statement[Dispatcher] \in Writes
    BY <2>2, <2>3, <2>4 DEF TransactionOK, Saving, EndOK
  <2>5. CASE pc[Dispatcher] = "rollback" /\ statement[Dispatcher] = Begin
    BY <2>2, <2>5, Kinds DEF BeforeOK, Saving, EndOK
  <2> QED BY <2>3, <2>4, <2>5, Kinds DEF PlacesOK
<1>19. CASE Release
  BY <1>19 DEF Release, Unlock, Goto, TypeOK, ControlOK, Counts, PlacesOK, LockAgrees,
    Holds, TransactionOK, Saving, Statements, Writes, Begin, Select, Single, BeforeOK,
    OpenOK, LastOK, OrderOK, LaterOK, EndOK, Done
<1>20. CASE ConnectionBreaks
  BY <1>20 DEF ConnectionBreaks, Breaks, None, TypeOK, ControlOK, Counts, PlacesOK,
    LockAgrees, Holds, TransactionOK, Saving, Statements, Writes, Begin, Select, Single,
    BeforeOK, OpenOK, LastOK, OrderOK, LaterOK, EndOK, Done
<1>21. CASE UNCHANGED vars
  BY <1>21 DEF vars, TypeOK, ControlOK, Counts, PlacesOK, LockAgrees, Holds,
    TransactionOK, Saving, Statements, Writes, Begin, Select, Single, BeforeOK, OpenOK,
    LastOK, OrderOK, LaterOK, EndOK, Done
<1> QED
  BY <1>1, <1>2, <1>3, <1>4, <1>5, <1>6, <1>7, <1>8, <1>9, <1>10, <1>11, <1>12, <1>13,
    <1>14, <1>15, <1>16, <1>17, <1>18, <1>19, <1>20, <1>21
  DEF Next, Query, Save

(* What a single statement stored, at every place of its thread.            *)
LEMMA SingleStep ==
  TypeOK /\ PlacesOK /\ LockAgrees /\ TransactionOK /\ SingleOK /\ [Next]_vars
    => SingleOK'
<1> SUFFICES ASSUME TypeOK /\ PlacesOK /\ LockAgrees /\ TransactionOK /\ SingleOK, [Next]_vars, NEW u \in Threads
            PROVE  SingleOf(u)'
  BY DEF SingleOK
<1> SingleOf(u) /\ ControlOK /\ work \in Counts /\ stored \in Counts
  BY DEF SingleOK, TypeOK
<1> Dispatcher \in Threads
  BY DEF Threads
<1> USE Kinds DEF lock, server
<1>1. ASSUME NEW t \in Threads, CallSingle(t) PROVE SingleOf(u)'
  BY <1>1 DEF CallSingle, Call, Execute, Goto, ControlOK, Counts, SingleOf
<1>2. ASSUME NEW t \in Threads, CallSelect(t) PROVE SingleOf(u)'
  BY <1>2 DEF CallSelect, Call, Execute, Goto, ControlOK, Counts, SingleOf
<1>3. ASSUME NEW t \in Threads, LockForQuery(t) PROVE SingleOf(u)'
  BY <1>3 DEF LockForQuery, Lock, Goto, ControlOK, Counts, SingleOf
<1>4. ASSUME NEW t \in Threads, Succeeds(t) PROVE SingleOf(u)'
  <2>0. Succeeds(t)
    BY <1>4
  <2>1. CASE statement[t] = Select /\ t = u
    BY <2>0, <2>1 DEF Succeeds, TakesEffect, WithWork, Once, None, Goto, ControlOK,
      Counts, SingleOf
  <2>2. CASE statement[t] = Select /\ ~(t = u)
    BY <2>0, <2>2 DEF Succeeds, TakesEffect, WithWork, Once, None, Goto, ControlOK,
      Counts, SingleOf
  <2>3. CASE statement[t] = Begin /\ t = u
    BY <2>0, <2>3 DEF Succeeds, TakesEffect, WithWork, Once, None, Goto, ControlOK,
      Counts, SingleOf
  <2>4. CASE statement[t] = Begin /\ ~(t = u)
    BY <2>0, <2>4 DEF Succeeds, TakesEffect, WithWork, Once, None, Goto, ControlOK,
      Counts, SingleOf
  <2>5. CASE statement[t] \notin {Select, Begin} /\ t = u
    <3>1. /\ pc'[u] = "unlock" /\ ok'[u] /\ statement' = statement /\ lost' = lost
          /\ (slipped'[u] <=> slipped[u] \/ (open /\ statement[u] = Single)) /\ pc[u] = "query"
          /\ work' = (IF open THEN Once(work, u) ELSE work)
          /\ stored' = (IF open THEN stored ELSE Once(stored, u))
      BY <2>0, <2>5 DEF Succeeds, TakesEffect, Goto, ControlOK
    <3>2. /\ statement[u] \in Statements
          /\ work[u][Single] \in Nat /\ stored[u][Single] \in Nat
          /\ Once(work, u)[u][Single]
                = work[u][Single] + (IF statement[u] = Single THEN 1 ELSE 0)
          /\ Once(stored, u)[u][Single]
                = stored[u][Single] + (IF statement[u] = Single THEN 1 ELSE 0)
      BY DEF Once, ControlOK, Counts
    <3>3. /\ (slipped'[u] <=> slipped[u] \/ (open /\ statement[u] = Single))
          /\ work'[u][Single] = work[u][Single]
                + (IF open /\ statement[u] = Single THEN 1 ELSE 0)
          /\ stored'[u][Single] = stored[u][Single]
                + (IF ~open /\ statement[u] = Single THEN 1 ELSE 0)
      BY <3>1, <3>2
    <3>4. statement[u] # Select
      BY <2>5
    <3>5. CASE statement[u] = Single
      BY <3>1, <3>2, <3>3, <3>4, <3>5 DEF SingleOf
    <3>6. CASE statement[u] # Single
      <4>1. work'[u][Single] = work[u][Single] /\ stored'[u][Single] = stored[u][Single]
        BY <3>2, <3>3, <3>6
      <4>2. ~slipped[u] => work[u][Single] = 0
        BY DEF SingleOf
      <4> QED BY <3>1, <3>4, <3>6, <4>1, <4>2 DEF SingleOf
    <3> QED BY <3>5, <3>6
  <2>6. CASE statement[t] \notin {Select, Begin} /\ ~(t = u)
    BY <2>0, <2>6 DEF Succeeds, TakesEffect, WithWork, Once, None, Goto, ControlOK,
      Counts, SingleOf
  <2> QED BY <2>1, <2>2, <2>3, <2>4, <2>5, <2>6
<1>5. ASSUME NEW t \in Threads, Fails(t) PROVE SingleOf(u)'
  BY <1>5 DEF Fails, Goto, ControlOK, Counts, SingleOf
<1>6. ASSUME NEW t \in Threads, AnswerIsLost(t) PROVE SingleOf(u)'
  <2>1. CASE t = u
    BY <1>6, <2>1 DEF AnswerIsLost, Breaks, Once, None, ControlOK, Counts, SingleOf
  <2>2. CASE ~(t = u)
    BY <1>6, <2>2 DEF AnswerIsLost, Breaks, Once, None, ControlOK, Counts, SingleOf
  <2> QED BY <2>1, <2>2
<1>7. ASSUME NEW t \in Threads, Reconnects(t) PROVE SingleOf(u)'
  BY <1>7 DEF Reconnects, ControlOK, Counts, SingleOf
<1>8. ASSUME NEW t \in Threads, UnlockAfterQuery(t) PROVE SingleOf(u)'
  BY <1>8 DEF UnlockAfterQuery, Unlock, Goto, ControlOK, Counts, SingleOf
<1>9. ASSUME NEW t \in Threads, AfterSelect(t) PROVE SingleOf(u)'
  <2>0. statement[t] = Select /\ pc[t] = "returned"
    BY <1>9 DEF AfterSelect, ControlOK, Counts, SingleOf
  <2>1. CASE Return(t) /\ t = u
    BY <2>0, <2>1 DEF Return, Goto, ControlOK, Counts, SingleOf
  <2>2. CASE Return(t) /\ ~(t = u)
    BY <2>0, <2>2 DEF Return, Goto, ControlOK, Counts, SingleOf
  <2>3. CASE ok[t] /\ Continue(t, Single) /\ t = u
    BY <2>0, <2>3 DEF Continue, Execute, Goto, ControlOK, Counts, SingleOf
  <2>4. CASE ok[t] /\ Continue(t, Single) /\ ~(t = u)
    BY <2>0, <2>4 DEF Continue, Execute, Goto, ControlOK, Counts, SingleOf
  <2> QED BY <1>9, <2>1, <2>2, <2>3, <2>4 DEF AfterSelect
<1>10. ASSUME NEW t \in Threads, AfterSingle(t) PROVE SingleOf(u)'
  BY <1>10 DEF AfterSingle, Return, Goto, ControlOK, Counts, SingleOf
<1>11. CASE BeginTransaction
  <2>1. CASE u = Dispatcher
    BY <1>11, <2>1 DEF BeginTransaction, Continue, Execute, Goto, PlacesOK, ControlOK,
      Counts, SingleOf
  <2>2. CASE ~(u = Dispatcher)
    BY <1>11, <2>2 DEF BeginTransaction, Continue, Execute, Goto, PlacesOK, ControlOK,
      Counts, SingleOf
  <2> QED BY <2>1, <2>2
<1>12. CASE AfterBegin
  <2>1. CASE u = Dispatcher
    BY <1>12, <2>1 DEF AfterBegin, Goto, PlacesOK, ControlOK, Counts, SingleOf
  <2>2. CASE ~(u = Dispatcher)
    BY <1>12, <2>2 DEF AfterBegin, Goto, PlacesOK, ControlOK, Counts, SingleOf
  <2> QED BY <2>1, <2>2
<1>13. CASE LockTransaction
  <2>1. CASE u = Dispatcher
    BY <1>13, <2>1 DEF LockTransaction, Lock, Execute, Goto, PlacesOK, ControlOK,
      Counts, SingleOf
  <2>2. CASE ~(u = Dispatcher)
    BY <1>13, <2>2 DEF LockTransaction, Lock, Execute, Goto, PlacesOK, ControlOK,
      Counts, SingleOf
  <2> QED BY <2>1, <2>2
<1>14. CASE AfterWrite
  <2>1. CASE u = Dispatcher
    BY <1>14, <2>1 DEF AfterWrite, Continue, Execute, Goto, PlacesOK, ControlOK,
      Counts, SingleOf
  <2>2. CASE ~(u = Dispatcher)
    BY <1>14, <2>2 DEF AfterWrite, Continue, Execute, Goto, PlacesOK, ControlOK,
      Counts, SingleOf
  <2> QED BY <2>1, <2>2
<1>15. CASE Commit
  <2>1. CASE u = Dispatcher
    BY <1>15, <2>1 DEF Commit, EndTransaction, WithWork, None, Goto, PlacesOK,
      ControlOK, Counts, SingleOf
  <2>2. CASE ~(u = Dispatcher)
    BY <1>15, <2>2 DEF Commit, EndTransaction, WithWork, None, Goto, PlacesOK,
      ControlOK, Counts, SingleOf
  <2> QED BY <2>1, <2>2
<1>16. CASE Rollback
  <2>1. CASE u = Dispatcher
    BY <1>16, <2>1 DEF Rollback, EndTransaction, None, Goto, PlacesOK, ControlOK,
      Counts, SingleOf
  <2>2. CASE ~(u = Dispatcher)
    BY <1>16, <2>2 DEF Rollback, EndTransaction, None, Goto, PlacesOK, ControlOK,
      Counts, SingleOf
  <2> QED BY <2>1, <2>2
<1>17. CASE CommitAnswerIsLost
  <2>1. CASE u = Dispatcher
    BY <1>17, <2>1 DEF CommitAnswerIsLost, Breaks, WithWork, None, Goto, PlacesOK,
      ControlOK, Counts, SingleOf
  <2>2. CASE ~(u = Dispatcher)
    BY <1>17, <2>2 DEF CommitAnswerIsLost, Breaks, WithWork, None, Goto, PlacesOK,
      ControlOK, Counts, SingleOf
  <2> QED BY <2>1, <2>2
<1>18. CASE EndFails
  <2>1. CASE u = Dispatcher
    BY <1>18, <2>1 DEF EndFails, Goto, PlacesOK, ControlOK, Counts, SingleOf
  <2>2. CASE ~(u = Dispatcher)
    BY <1>18, <2>2 DEF EndFails, Goto, PlacesOK, ControlOK, Counts, SingleOf
  <2> QED BY <2>1, <2>2
<1>19. CASE Release
  <2>1. CASE u = Dispatcher
    BY <1>19, <2>1 DEF Release, Unlock, Goto, PlacesOK, ControlOK, Counts, SingleOf
  <2>2. CASE ~(u = Dispatcher)
    BY <1>19, <2>2 DEF Release, Unlock, Goto, PlacesOK, ControlOK, Counts, SingleOf
  <2> QED BY <2>1, <2>2
<1>20. CASE ConnectionBreaks
  BY <1>20 DEF ConnectionBreaks, Breaks, None, ControlOK, Counts, SingleOf
<1>21. CASE UNCHANGED vars
  BY <1>21 DEF vars, ControlOK, Counts, SingleOf
<1> QED
  BY <1>1, <1>2, <1>3, <1>4, <1>5, <1>6, <1>7, <1>8, <1>9, <1>10, <1>11, <1>12, <1>13,
    <1>14, <1>15, <1>16, <1>17, <1>18, <1>19, <1>20, <1>21
  DEF Next, Query, Save

(* What a save has stored when it returned.                                 *)
LEMMA SaveStep ==
  TypeOK /\ PlacesOK /\ LockAgrees /\ TransactionOK /\ EndOK /\ SaveIsAtomic /\ [Next]_vars
    => SaveIsAtomic'
<1> SUFFICES ASSUME TypeOK /\ PlacesOK /\ LockAgrees /\ TransactionOK /\ EndOK /\ SaveIsAtomic, [Next]_vars
            PROVE  SaveIsAtomic'
  OBVIOUS
<1> USE ThreadsAssumption, BoundsAssumption DEF lock, server, Threads
<1>1. ASSUME NEW t \in Threads, CallSingle(t) PROVE SaveIsAtomic'
  BY <1>1 DEF CallSingle, Call, Execute, Goto, TypeOK, ControlOK, Counts, PlacesOK,
    LockAgrees, Holds, TransactionOK, Saving, Statements, Writes, Begin, Select, Single,
    EndOK, SaveIsAtomic
<1>2. ASSUME NEW t \in Threads, CallSelect(t) PROVE SaveIsAtomic'
  BY <1>2 DEF CallSelect, Call, Execute, Goto, TypeOK, ControlOK, Counts, PlacesOK,
    LockAgrees, Holds, TransactionOK, Saving, Statements, Writes, Begin, Select, Single,
    EndOK, SaveIsAtomic
<1>3. ASSUME NEW t \in Threads, LockForQuery(t) PROVE SaveIsAtomic'
  BY <1>3 DEF LockForQuery, Lock, Goto, TypeOK, ControlOK, Counts, PlacesOK,
    LockAgrees, Holds, TransactionOK, Saving, Statements, Writes, Begin, Select, Single,
    EndOK, SaveIsAtomic
<1>4. ASSUME NEW t \in Threads, Succeeds(t) PROVE SaveIsAtomic'
  <2>1. CASE t = Dispatcher
    <3>1. pc'[Dispatcher] = "unlock"
      BY <1>4, <2>1, SucceedsRow
    <3> QED BY <3>1 DEF SaveIsAtomic
  <2>2. CASE t # Dispatcher
    <3>1. /\ pc'[Dispatcher] = pc[Dispatcher] /\ ok'[Dispatcher] = ok[Dispatcher] /\ open' = open
          /\ statement' = statement /\ lost' = lost
          /\ N \in Writes /\ \A s \in Writes : stored'[Dispatcher][s] = stored[Dispatcher][s]
      BY <1>4, <2>2, SucceedsRow, Kinds
    <3> QED BY <3>1 DEF SaveIsAtomic
  <2> QED BY <2>1, <2>2
<1>5. ASSUME NEW t \in Threads, Fails(t) PROVE SaveIsAtomic'
  BY <1>5 DEF Fails, Goto, TypeOK, ControlOK, Counts, PlacesOK, LockAgrees, Holds,
    TransactionOK, Saving, Statements, Writes, Begin, Select, Single, EndOK,
    SaveIsAtomic
<1>6. ASSUME NEW t \in Threads, AnswerIsLost(t) PROVE SaveIsAtomic'
  BY <1>6 DEF AnswerIsLost, Breaks, Once, None, TypeOK, ControlOK, Counts, PlacesOK,
    LockAgrees, Holds, TransactionOK, Saving, Statements, Writes, Begin, Select, Single,
    EndOK, SaveIsAtomic
<1>7. ASSUME NEW t \in Threads, Reconnects(t) PROVE SaveIsAtomic'
  BY <1>7 DEF Reconnects, TypeOK, ControlOK, Counts, PlacesOK, LockAgrees, Holds,
    TransactionOK, Saving, Statements, Writes, Begin, Select, Single, EndOK,
    SaveIsAtomic
<1>8. ASSUME NEW t \in Threads, UnlockAfterQuery(t) PROVE SaveIsAtomic'
  BY <1>8 DEF UnlockAfterQuery, Unlock, Goto, TypeOK, ControlOK, Counts, PlacesOK,
    LockAgrees, Holds, TransactionOK, Saving, Statements, Writes, Begin, Select, Single,
    EndOK, SaveIsAtomic
<1>9. ASSUME NEW t \in Threads, AfterSelect(t) PROVE SaveIsAtomic'
  <2>0. statement[t] = Select /\ pc[t] = "returned"
    BY <1>9 DEF AfterSelect, TypeOK, ControlOK, Counts, PlacesOK, LockAgrees, Holds,
      TransactionOK, Saving, Statements, Writes, Begin, Select, Single, EndOK,
      SaveIsAtomic
  <2>1. CASE Return(t) /\ t = Dispatcher
    BY <2>0, <2>1 DEF Return, Goto, TypeOK, ControlOK, Counts, PlacesOK, LockAgrees,
      Holds, TransactionOK, Saving, Statements, Writes, Begin, Select, Single, EndOK,
      SaveIsAtomic
  <2>2. CASE Return(t) /\ ~(t = Dispatcher)
    BY <2>0, <2>2 DEF Return, Goto, TypeOK, ControlOK, Counts, PlacesOK, LockAgrees,
      Holds, TransactionOK, Saving, Statements, Writes, Begin, Select, Single, EndOK,
      SaveIsAtomic
  <2>3. CASE ok[t] /\ Continue(t, Single) /\ t = Dispatcher
    BY <2>0, <2>3 DEF Continue, Execute, Goto, TypeOK, ControlOK, Counts, PlacesOK,
      LockAgrees, Holds, TransactionOK, Saving, Statements, Writes, Begin, Select,
      Single, EndOK, SaveIsAtomic
  <2>4. CASE ok[t] /\ Continue(t, Single) /\ ~(t = Dispatcher)
    BY <2>0, <2>4 DEF Continue, Execute, Goto, TypeOK, ControlOK, Counts, PlacesOK,
      LockAgrees, Holds, TransactionOK, Saving, Statements, Writes, Begin, Select,
      Single, EndOK, SaveIsAtomic
  <2> QED BY <1>9, <2>1, <2>2, <2>3, <2>4 DEF AfterSelect
<1>10. ASSUME NEW t \in Threads, AfterSingle(t) PROVE SaveIsAtomic'
  BY <1>10 DEF AfterSingle, Return, Goto, TypeOK, ControlOK, Counts, PlacesOK,
    LockAgrees, Holds, TransactionOK, Saving, Statements, Writes, Begin, Select, Single,
    EndOK, SaveIsAtomic
<1>11. CASE BeginTransaction
  BY <1>11 DEF BeginTransaction, Continue, Execute, Goto, TypeOK, ControlOK, Counts,
    PlacesOK, LockAgrees, Holds, TransactionOK, Saving, Statements, Writes, Begin,
    Select, Single, EndOK, SaveIsAtomic
<1>12. CASE AfterBegin
  BY <1>12 DEF AfterBegin, Goto, TypeOK, ControlOK, Counts, PlacesOK, LockAgrees,
    Holds, TransactionOK, Saving, Statements, Writes, Begin, Select, Single, EndOK,
    SaveIsAtomic
<1>13. CASE LockTransaction
  BY <1>13 DEF LockTransaction, Lock, Execute, Goto, TypeOK, ControlOK, Counts,
    PlacesOK, LockAgrees, Holds, TransactionOK, Saving, Statements, Writes, Begin,
    Select, Single, EndOK, SaveIsAtomic
<1>14. CASE AfterWrite
  BY <1>14 DEF AfterWrite, Continue, Execute, Goto, TypeOK, ControlOK, Counts,
    PlacesOK, LockAgrees, Holds, TransactionOK, Saving, Statements, Writes, Begin,
    Select, Single, EndOK, SaveIsAtomic
<1>15. CASE Commit
  BY <1>15 DEF Commit, EndTransaction, WithWork, None, Goto, TypeOK, ControlOK,
    Counts, PlacesOK, LockAgrees, Holds, TransactionOK, Saving, Statements, Writes,
    Begin, Select, Single, EndOK, SaveIsAtomic
<1>16. CASE Rollback
  BY <1>16 DEF Rollback, EndTransaction, None, Goto, TypeOK, ControlOK, Counts,
    PlacesOK, LockAgrees, Holds, TransactionOK, Saving, Statements, Writes, Begin,
    Select, Single, EndOK, SaveIsAtomic
<1>17. CASE CommitAnswerIsLost
  BY <1>17 DEF CommitAnswerIsLost, Breaks, WithWork, None, Goto, TypeOK, ControlOK,
    Counts, PlacesOK, LockAgrees, Holds, TransactionOK, Saving, Statements, Writes,
    Begin, Select, Single, EndOK, SaveIsAtomic
<1>18. CASE EndFails
  BY <1>18 DEF EndFails, Goto, TypeOK, ControlOK, Counts, PlacesOK, LockAgrees, Holds,
    TransactionOK, Saving, Statements, Writes, Begin, Select, Single, EndOK,
    SaveIsAtomic
<1>19. CASE Release
  BY <1>19 DEF Release, Unlock, Goto, TypeOK, ControlOK, Counts, PlacesOK, LockAgrees,
    Holds, TransactionOK, Saving, Statements, Writes, Begin, Select, Single, EndOK,
    SaveIsAtomic
<1>20. CASE ConnectionBreaks
  BY <1>20 DEF ConnectionBreaks, Breaks, None, TypeOK, ControlOK, Counts, PlacesOK,
    LockAgrees, Holds, TransactionOK, Saving, Statements, Writes, Begin, Select, Single,
    EndOK, SaveIsAtomic
<1>21. CASE UNCHANGED vars
  BY <1>21 DEF vars, TypeOK, ControlOK, Counts, PlacesOK, LockAgrees, Holds,
    TransactionOK, Saving, Statements, Writes, Begin, Select, Single, EndOK,
    SaveIsAtomic
<1> QED
  BY <1>1, <1>2, <1>3, <1>4, <1>5, <1>6, <1>7, <1>8, <1>9, <1>10, <1>11, <1>12, <1>13,
    <1>14, <1>15, <1>16, <1>17, <1>18, <1>19, <1>20, <1>21
  DEF Next, Query, Save

-----------------------------------------------------------------------------
(* The invariant holds at the start.                                        *)
LEMMA InitInductive == Init => Inductive
<1> SUFFICES ASSUME Init PROVE Inductive
  OBVIOUS
<1> USE Kinds, ThreadsAssumption, BoundsAssumption
<1>1. Dispatcher \in Threads /\ IoThreads \subseteq Threads /\ Nobody \notin Threads
  BY DEF Threads
<1>2. TypeOK
  BY <1>1, NoneType DEF Init, TypeOK, ControlOK
<1>3. LockAgrees
  BY <1>1 DEF Init, LockAgrees, Holds
<1>4. ~Saving /\ pc[Dispatcher] = "idle" /\ statement[Dispatcher] = Select /\ ~open /\ work = None
  BY <1>1 DEF Init, Saving
<1>5. PlacesOK /\ TransactionOK /\ SaveIsAtomic
  BY <1>1, <1>4 DEF Init, PlacesOK, TransactionOK, SaveIsAtomic
<1>6. EffectsOK
  BY <1>4 DEF EffectsOK, BeforeOK, OpenOK, LastOK, OrderOK, LaterOK, EndOK
<1>7. SingleOK
  BY <1>1 DEF Init, SingleOK, SingleOf, None
<1> QED BY <1>2, <1>3, <1>5, <1>6, <1>7 DEF Inductive

(* Every step keeps it.                                                     *)
LEMMA NextInductive == Inductive /\ [Next]_vars => Inductive'
<1> SUFFICES ASSUME Inductive, [Next]_vars PROVE Inductive'
  OBVIOUS
<1>1. TypeOK'
  BY ControlStep, CountsStep DEF Inductive, TypeOK
<1>2. LockAgrees' /\ PlacesOK' /\ TransactionOK'
  BY LockStep, PlacesStep, TransactionStep DEF Inductive, TypeOK
<1>3. EffectsOK'
  BY BeforeStep, OpenStep, LastStep, OrderStep, LaterStep, EndStep DEF Inductive, EffectsOK
<1>4. SingleOK' /\ SaveIsAtomic'
  BY SingleStep, SaveStep DEF Inductive, EffectsOK
<1> QED BY <1>1, <1>2, <1>3, <1>4 DEF Inductive

(* The inductive invariant holds in every behaviour.                        *)
LEMMA AlwaysInductive == Spec => []Inductive
  BY InitInductive, NextInductive, PTL DEF Spec

(* The lock, the places of the threads, the flags and the counts of effects   *)
(* have their types, for any number of threads and statements, and however    *)
(* often the connection breaks and statements fail.                         *)
THEOREM DatabaseTypeCorrect == Spec => []TypeOK
<1>1. Inductive => TypeOK
  BY DEF Inductive
<1> QED BY AlwaysInductive, <1>1, PTL

(* database_lock is owned by the thread that executes a statement or has a     *)
(* transaction open, and as deeply: whatever fails, commit, rollback and      *)
(* executeQuery give back what was taken, and no more.                      *)
THEOREM LockAlwaysAgrees == Spec => []LockAgrees
<1>1. Inductive => LockAgrees
  BY DEF Inductive
<1> QED BY AlwaysInductive, <1>1, PTL

(* IOLoginData::savePlayer stores all or nothing while the connection holds,  *)
(* and, when it broke and true is returned, loses at most the statements       *)
(* before the break.                                                        *)
THEOREM SaveAlwaysAtomic == Spec => []SaveIsAtomic
<1>1. Inductive => SaveIsAtomic
  BY DEF Inductive
<1> QED BY AlwaysInductive, <1>1, PTL

(* What Database::executeQuery reports of a single statement is what the      *)
(* database holds.                                                          *)
THEOREM SuccessAlwaysStored == Spec => []SuccessIsStored
<1>1. Inductive => SuccessIsStored
  BY DEF Inductive, SingleOK, SingleOf, SuccessIsStored
<1> QED BY AlwaysInductive, <1>1, PTL
=============================================================================
