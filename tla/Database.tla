------------------------------ MODULE Database ------------------------------
(***************************************************************************)
(* The database (src/src/database.cpp, src/src/database.h): one MySQL        *)
(* connection for all threads, a recursive lock around its use, statements   *)
(* that are tried again while the server is away, and transactions.         *)
(*                                                                          *)
(* The dispatcher's thread saves players in a transaction                   *)
(* (IOLoginData::savePlayer) and executes single statements; the io thread    *)
(* looks addresses up while clients connect and deletes bans that expired    *)
(* (IOBan::isIpBanned).  Of a statement it matters whether it took effect,    *)
(* how often, and whether for good.                                         *)
(*                                                                          *)
(* The MySQL client and server are modelled from how they are used: a        *)
(* statement outside a transaction commits itself, BEGIN in a transaction    *)
(* commits that one, a transaction ends with its connection; the client      *)
(* connects again by itself (MYSQL_OPT_RECONNECT), after one error if the    *)
(* last answer it saw said that a transaction was open.                     *)
(***************************************************************************)
EXTENDS Integers

CONSTANTS IoThreads,  \* the threads that only execute single statements
          Dispatcher,
          Nobody,
          N,          \* the number of statements in the transaction of a save
          MaxLosses,  \* bound: how often the connection breaks
          MaxErrors   \* bound: how many statements fail

ASSUME ThreadsAssumption == Dispatcher \notin IoThreads /\ Nobody \notin IoThreads \cup {Dispatcher}
ASSUME BoundsAssumption == N \in Nat \ {0} /\ MaxLosses \in Nat /\ MaxErrors \in Nat

Threads == IoThreads \cup {Dispatcher}

(* Statements: those of a save are numbered.                                *)
Begin  == 0
Writes == 1..N
Select == N + 1   \* through storeQuery, like every other one through executeQuery
Single == N + 2   \* outside a transaction
Statements == 0..N + 2

VARIABLES
  owner, depth,  \* database_lock
  pc,            \* where each thread is
  statement,     \* the one that it executes or executed last
  ok,            \* whether that, or the whole save, succeeded
  up,            \* the connection is established
  open,          \* the server has an open transaction for it
  known,         \* the last answer said so
  work,          \* how often a statement took effect in the open transaction
  stored,        \* and for good, since its thread began its call
  lost,          \* the connection broke since a thread began its call
  slipped,       \* the statement of a thread took effect in the transaction of another
  losses, errors

lock == <<owner, depth>>
server == <<up, open, known, work, stored, lost, slipped, losses, errors>>
vars == <<lock, pc, statement, ok, server>>

None == [t \in Threads |-> [s \in Statements |-> 0]]

Init ==
  /\ owner = Nobody /\ depth = 0
  /\ pc = [t \in Threads |-> "idle"]
  /\ statement = [t \in Threads |-> Select]
  /\ ok = [t \in Threads |-> FALSE]
  /\ up = TRUE /\ open = FALSE /\ known = FALSE
  /\ work = None /\ stored = None
  /\ lost = [t \in Threads |-> FALSE]
  /\ slipped = [t \in Threads |-> FALSE]
  /\ losses = 0 /\ errors = 0

-----------------------------------------------------------------------------
(* database_lock, a recursive_mutex; a thread that does not own it cannot     *)
(* unlock it.                                                               *)
Lock(t) ==
  /\ owner \in {Nobody, t}
  /\ owner' = t
  /\ depth' = depth + 1

Unlock(t) ==
  IF owner # t THEN UNCHANGED lock
  ELSE /\ depth' = depth - 1
       /\ owner' = IF depth = 1 THEN Nobody ELSE t

Goto(t, label) == pc' = [pc EXCEPT ![t] = label]

Execute(t, s) ==
  /\ statement' = [statement EXCEPT ![t] = s]
  /\ Goto(t, "lock")

-----------------------------------------------------------------------------
(* What is stored after a commit.                                           *)
WithWork == [t \in Threads |-> [s \in Statements |-> stored[t][s] + work[t][s]]]

Once(effects, t) == [effects EXCEPT ![t][statement[t]] = @ + 1]

(* What the server does with a statement of t that it receives.             *)
TakesEffect(t) ==
  \/ /\ statement[t] = Select
     /\ UNCHANGED <<open, work, stored, slipped>>
  \/ /\ statement[t] = Begin
     /\ open' = TRUE
     /\ stored' = WithWork
     /\ work' = None
     /\ UNCHANGED slipped
  \/ /\ statement[t] \notin {Select, Begin}
     /\ work' = IF open THEN Once(work, t) ELSE work
     /\ stored' = IF open THEN stored ELSE Once(stored, t)
     /\ slipped' = [slipped EXCEPT ![t] = @ \/ (open /\ statement[t] = Single)]
     /\ UNCHANGED open

(* A connection that breaks takes an open transaction with it.              *)
Breaks ==
  /\ losses < MaxLosses
  /\ losses' = losses + 1
  /\ up' = FALSE
  /\ open' = FALSE
  /\ work' = None
  /\ lost' = [t \in Threads |-> lost[t] \/ pc[t] # "idle" \/ slipped[t]]
  /\ UNCHANGED <<known, errors>>

ConnectionBreaks ==
  /\ up
  /\ Breaks
  /\ UNCHANGED <<lock, pc, statement, ok, stored, slipped>>

-----------------------------------------------------------------------------
(* executeQuery and storeQuery.                                             *)

LockForQuery(t) ==
  /\ pc[t] = "lock"
  /\ Lock(t)
  /\ Goto(t, "query")
  /\ UNCHANGED <<statement, ok, server>>

Succeeds(t) ==
  /\ pc[t] = "query" /\ up
  /\ TakesEffect(t)
  /\ known' = open'
  /\ ok' = [ok EXCEPT ![t] = TRUE]
  /\ Goto(t, "unlock")
  /\ UNCHANGED <<lock, statement, up, lost, losses, errors>>

(* A plausible mistake: the error is only printed.                          *)
FailsUnnoticed(t) ==
  /\ pc[t] = "query" /\ up
  /\ errors < MaxErrors
  /\ errors' = errors + 1
  /\ ok' = [ok EXCEPT ![t] = TRUE]
  /\ Goto(t, "unlock")
  /\ UNCHANGED <<lock, statement, up, open, known, work, stored, lost, slipped, losses>>

(* An error that is not about the connection.                               *)
Fails(t) ==
  /\ pc[t] = "query" /\ up
  /\ errors < MaxErrors
  /\ errors' = errors + 1
  /\ ok' = [ok EXCEPT ![t] = FALSE]
  /\ Goto(t, "unlock")
  /\ UNCHANGED <<lock, statement, up, open, known, work, stored, lost, slipped, losses>>

(* The statement took effect, but its answer does not arrive: the loop goes   *)
(* on.                                                                      *)
AnswerIsLost(t) ==
  /\ pc[t] = "query" /\ up
  /\ statement[t] \notin {Select, Begin}
  /\ Breaks
  /\ stored' = IF open THEN stored ELSE Once(stored, t)
  /\ UNCHANGED <<lock, pc, statement, ok, slipped>>

(* Another turn of the loop without a connection.                           *)
Reconnects(t) ==
  /\ pc[t] = "query" /\ ~up
  /\ IF known THEN known' = FALSE /\ UNCHANGED up ELSE up' = TRUE /\ UNCHANGED known
  /\ UNCHANGED <<lock, pc, statement, ok, open, work, stored, lost, slipped, losses, errors>>

UnlockAfterQuery(t) ==
  /\ pc[t] = "unlock"
  /\ Unlock(t)
  /\ Goto(t, "returned")
  /\ UNCHANGED <<statement, ok, server>>

Query(t) ==
  \/ LockForQuery(t) \/ Succeeds(t) \/ Fails(t) \/ AnswerIsLost(t)
  \/ Reconnects(t) \/ UnlockAfterQuery(t)

-----------------------------------------------------------------------------
(* The calls.                                                               *)

(* A new call of t: the effects of its last one no longer matter.           *)
Call(t, s) ==
  /\ pc[t] = "idle"
  /\ Execute(t, s)
  /\ work' = [work EXCEPT ![t] = [r \in Statements |-> 0]]
  /\ stored' = [stored EXCEPT ![t] = [r \in Statements |-> 0]]
  /\ lost' = [lost EXCEPT ![t] = FALSE]
  /\ slipped' = [slipped EXCEPT ![t] = FALSE]
  /\ UNCHANGED <<lock, ok, up, open, known, losses, errors>>

(* increaseBankBalance and other single statements.                         *)
CallSingle(t) == Call(t, Single)

(* isIpBanned and savePlayer begin with a SELECT.                           *)
CallSelect(t) == Call(t, Select)

Return(t) ==
  /\ Goto(t, "idle")
  /\ UNCHANGED <<lock, statement, ok, server>>

Continue(t, s) ==
  /\ Execute(t, s)
  /\ UNCHANGED <<lock, ok, server>>

(* isIpBanned: the ban is there or not, and has expired or not.             *)
AfterSelect(t) ==
  /\ pc[t] = "returned"
  /\ statement[t] = Select
  /\ Return(t) \/ (ok[t] /\ Continue(t, Single))

AfterSingle(t) ==
  /\ pc[t] = "returned"
  /\ statement[t] = Single
  /\ Return(t)

(* savePlayer: the row says whether to save; DBTransaction::begin.          *)
BeginTransaction ==
  /\ pc[Dispatcher] = "returned"
  /\ statement[Dispatcher] = Select
  /\ ok[Dispatcher]
  /\ Continue(Dispatcher, Begin)

(* beginTransaction: the lock is taken after BEGIN; if that failed, the       *)
(* destructor of the DBTransaction, which is in STATE_START, rolls back.      *)
AfterBegin ==
  /\ pc[Dispatcher] = "returned"
  /\ statement[Dispatcher] = Begin
  /\ Goto(Dispatcher, IF ok[Dispatcher] THEN "begun" ELSE "rollback")
  /\ UNCHANGED <<lock, statement, ok, server>>

LockTransaction ==
  /\ pc[Dispatcher] = "begun"
  /\ Lock(Dispatcher)
  /\ Execute(Dispatcher, 1)
  /\ UNCHANGED <<ok, server>>

(* A plausible mistake: one failed statement does not end the save.         *)
AfterEveryWrite ==
  /\ pc[Dispatcher] = "returned"
  /\ statement[Dispatcher] \in Writes
  /\ IF statement[Dispatcher] = N
     THEN Goto(Dispatcher, "commit") /\ UNCHANGED <<lock, statement, ok, server>>
     ELSE Continue(Dispatcher, statement[Dispatcher] + 1)

(* savePlayer goes on, commits, or returns and thereby rolls back.          *)
AfterWrite ==
  /\ pc[Dispatcher] = "returned"
  /\ statement[Dispatcher] \in Writes
  /\ IF ok[Dispatcher] /\ statement[Dispatcher] < N
     THEN Continue(Dispatcher, statement[Dispatcher] + 1)
     ELSE /\ Goto(Dispatcher, IF ok[Dispatcher] THEN "commit" ELSE "rollback")
          /\ UNCHANGED <<lock, statement, ok, server>>

(* The end of a transaction on a connection that is up, or that was broken    *)
(* and is not known to have had a transaction: it is made up again first.    *)
EndTransaction(effects) ==
  /\ pc[Dispatcher] \in {"commit", "rollback"}
  /\ up \/ ~known
  /\ up' = TRUE
  /\ stored' = effects
  /\ open' = FALSE /\ known' = FALSE
  /\ work' = None
  /\ ok' = [ok EXCEPT ![Dispatcher] = pc[Dispatcher] = "commit"]
  /\ Goto(Dispatcher, "release")
  /\ UNCHANGED <<lock, statement, lost, slipped, losses, errors>>

(* mysql_commit, mysql_rollback                                             *)
Commit ==
  /\ pc[Dispatcher] = "commit"
  /\ EndTransaction(WithWork)

Rollback ==
  /\ pc[Dispatcher] = "rollback"
  /\ EndTransaction(stored)

(* The transaction is committed, but the answer does not arrive.            *)
CommitAnswerIsLost ==
  /\ pc[Dispatcher] = "commit" /\ up
  /\ Breaks
  /\ stored' = WithWork
  /\ ok' = [ok EXCEPT ![Dispatcher] = FALSE]
  /\ Goto(Dispatcher, "release")
  /\ UNCHANGED <<lock, statement, slipped>>

(* Neither is tried again.                                                  *)
EndFails ==
  /\ pc[Dispatcher] \in {"commit", "rollback"}
  /\ ~up /\ known
  /\ known' = FALSE
  /\ ok' = [ok EXCEPT ![Dispatcher] = FALSE]
  /\ Goto(Dispatcher, "release")
  /\ UNCHANGED <<lock, statement, up, open, work, stored, lost, slipped, losses, errors>>

(* A plausible mistake: the lock is only released after a commit.           *)
ReleaseAfterCommit ==
  /\ pc[Dispatcher] = "release"
  /\ IF ok[Dispatcher] THEN Unlock(Dispatcher) ELSE UNCHANGED lock
  /\ Goto(Dispatcher, "idle")
  /\ UNCHANGED <<statement, ok, server>>

Release ==
  /\ pc[Dispatcher] = "release"
  /\ Unlock(Dispatcher)
  /\ Goto(Dispatcher, "idle")
  /\ UNCHANGED <<statement, ok, server>>

Save ==
  \/ BeginTransaction \/ AfterBegin \/ LockTransaction \/ AfterWrite
  \/ Commit \/ Rollback \/ CommitAnswerIsLost \/ EndFails \/ Release

Next ==
  \/ \E t \in Threads :
       CallSingle(t) \/ CallSelect(t) \/ Query(t) \/ AfterSelect(t) \/ AfterSingle(t)
  \/ Save
  \/ ConnectionBreaks

Spec == Init /\ [][Next]_vars

-----------------------------------------------------------------------------
ControlOK ==
  /\ owner \in Threads \cup {Nobody} /\ depth \in Nat
  /\ pc \in [Threads -> {"idle", "lock", "query", "unlock", "returned",
                         "begun", "commit", "rollback", "release"}]
  /\ statement \in [Threads -> Statements]
  /\ ok \in [Threads -> BOOLEAN]
  /\ up \in BOOLEAN /\ open \in BOOLEAN /\ known \in BOOLEAN
  /\ lost \in [Threads -> BOOLEAN] /\ slipped \in [Threads -> BOOLEAN]
  /\ losses \in Nat /\ errors \in Nat

Counts == [Threads -> [Statements -> Nat]]

TypeOK == ControlOK /\ work \in Counts /\ stored \in Counts

(* How often t has locked: for the query that it executes, and for the       *)
(* transaction in which that is.                                            *)
Holds(t) ==
  LET inQuery == IF pc[t] \in {"query", "unlock"} THEN 1 ELSE 0
      inTransaction == IF /\ statement[t] \in Writes
                          /\ pc[t] \notin {"idle", "begun"}
                       THEN 1 ELSE 0
  IN inQuery + inTransaction

(* The lock is owned by the thread that executes a statement or has a         *)
(* transaction open, as deeply as it has to, and by nobody else: no error,    *)
(* whichever step of a save it hits, leaves it locked or unlocks it early     *)
(* (executeQuery, beginTransaction, commit, rollback).                      *)
LockAgrees ==
  /\ \A t \in Threads : Holds(t) > 0 <=> owner = t
  /\ depth = IF owner = Nobody THEN 0 ELSE Holds(owner)

(* A save of which the connection did not break stores all that it writes if  *)
(* savePlayer returns true, and nothing of it if that returns false.  When    *)
(* the connection breaks and it returns true, the first statements may be     *)
(* missing, and all those after one that is stored are stored too.          *)
SaveIsAtomic ==
  pc[Dispatcher] = "idle" /\ statement[Dispatcher] \in Writes \cup {Begin} =>
    /\ ~open
    /\ ~lost[Dispatcher] =>
         \A s \in Writes : stored[Dispatcher][s] = IF ok[Dispatcher] THEN 1 ELSE 0
    /\ ok[Dispatcher] =>
         /\ stored[Dispatcher][N] > 0
         /\ \A r, s \in Writes :
              r < s /\ stored[Dispatcher][r] > 0 => stored[Dispatcher][s] > 0

(* A single statement that succeeded was stored, once unless its answer was    *)
(* lost, and one that failed was not; except that what the io thread executes *)
(* between BEGIN and the lock depends on the transaction of the dispatcher.   *)
SuccessIsStored ==
  \A t \in Threads :
    pc[t] = "idle" /\ statement[t] = Single /\ ~slipped[t]
      => /\ ok[t] => stored[t][Single] > 0
         /\ ~lost[t] => stored[t][Single] = IF ok[t] THEN 1 ELSE 0

(* What makes these invariants inductive: how far the save of the dispatcher  *)
(* is, that only it has a transaction open, and what that did so far.       *)
Saving ==
  \/ statement[Dispatcher] \in Writes /\ pc[Dispatcher] \notin {"idle", "release"}
  \/ /\ statement[Dispatcher] = Begin
     /\ pc[Dispatcher] \in {"unlock", "returned", "begun"} /\ ok[Dispatcher]

Done == IF statement[Dispatcher] = Begin THEN 0
        ELSE IF pc[Dispatcher] \in {"lock", "query", "rollback"} \/ ~ok[Dispatcher]
        THEN statement[Dispatcher] - 1 ELSE statement[Dispatcher]

PlacesOK ==
  /\ \A t \in IoThreads : /\ pc[t] \in {"idle", "lock", "query", "unlock", "returned"}
                           /\ statement[t] \in {Select, Single}
  /\ LET p == pc[Dispatcher]
         s == statement[Dispatcher]
     IN /\ p = "begun" => s = Begin /\ ok[Dispatcher]
        /\ p = "commit" => s = N /\ ok[Dispatcher]
        /\ p = "rollback" => s \in Writes \cup {Begin} /\ ~ok[Dispatcher]
        /\ p = "release" => s \in Writes \cup {Begin}
        /\ p \in {"release", "idle"} /\ s = Begin => ~ok[Dispatcher]

TransactionOK ==
  /\ open => up /\ known /\ Saving
  /\ ~open => work = None
  /\ Saving /\ ~lost[Dispatcher] => open

(* Nothing before the transaction begins.                                   *)
BeforeOK ==
  pc[Dispatcher] # "idle" /\ ~Saving /\ pc[Dispatcher] # "release" =>
    \A s \in Writes : work[Dispatcher][s] = 0 /\ stored[Dispatcher][s] = 0

(* Each of its statements once while it is open.                            *)
OpenOK ==
  open => \A s \in Writes : /\ stored[Dispatcher][s] = 0
                            /\ work[Dispatcher][s] = IF s <= Done THEN 1 ELSE 0

(* Without it, a statement that succeeded is stored, unless it was the last   *)
(* before the connection broke.                                             *)
LastOK ==
  Saving /\ ~open /\ ok[Dispatcher] /\ statement[Dispatcher] \in Writes
    /\ pc[Dispatcher] \in {"unlock", "returned", "commit"} =>
    stored[Dispatcher][statement[Dispatcher]] > 0 \/ (~up /\ known)

OrderOK ==
  Saving /\ ~open =>
    \A r, s \in Writes :
      r < s /\ s <= Done /\ stored[Dispatcher][r] > 0 => stored[Dispatcher][s] > 0

LaterOK == Saving => \A s \in Writes : s > Done + 1 => stored[Dispatcher][s] = 0

EndOK ==
  pc[Dispatcher] = "release" =>
    /\ ~open
    /\ ~lost[Dispatcher] =>
         \A s \in Writes : stored[Dispatcher][s] = IF ok[Dispatcher] THEN 1 ELSE 0
    /\ ok[Dispatcher] =>
         /\ stored[Dispatcher][N] > 0
         /\ \A r, s \in Writes :
              r < s /\ stored[Dispatcher][r] > 0 => stored[Dispatcher][s] > 0

EffectsOK == BeforeOK /\ OpenOK /\ LastOK /\ OrderOK /\ LaterOK /\ EndOK

SingleOf(t) ==
  /\ ~slipped[t] => work[t][Single] = 0
  /\ (statement[t] = Select /\ pc[t] # "idle")
         \/ (statement[t] = Single /\ pc[t] \in {"lock", "query"}) =>
       ~slipped[t] /\ (~lost[t] \/ statement[t] = Select => stored[t][Single] = 0)
  /\ statement[t] = Single /\ pc[t] \in {"unlock", "returned", "idle"} /\ ~slipped[t] =>
       /\ ok[t] => stored[t][Single] > 0
       /\ ~lost[t] => stored[t][Single] = IF ok[t] THEN 1 ELSE 0

SingleOK == \A t \in Threads : SingleOf(t)

Inductive ==
  /\ TypeOK /\ LockAgrees /\ PlacesOK /\ TransactionOK /\ EffectsOK /\ SingleOK
  /\ SaveIsAtomic
=============================================================================
