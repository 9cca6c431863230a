# OTChronos in TLA+

OTChronos is a server for a massively multiplayer game (C++11, Boost.Asio, Lua).
This directory holds TLA+ specifications of the parts of it whose correctness
depends on the order of events, the TLC configurations that check them on small
instances, and proofs checked by TLAPS. Paths below are relative to the
repository's `src/`.

## The system

Three threads run the server:

* the **io thread** (the main thread, inside `ServiceManager::run`) runs the
  completion handlers of sockets and timers;
* the **dispatcher thread** runs tasks, one at a time: all of the game's state
  (players, items, map, chat, parties, ...) belongs to it;
* the **scheduler thread** hands events to the dispatcher when they are due.

| Component | State | Operations | Talks to | What makes it correct |
|---|---|---|---|---|
| Dispatcher (`tasks.cpp`) | task list, `m_threadState` | `addTask`, loop, `stop`, `shutdown` | everyone | no lost wake-up; FIFO; one task at a time; accepted tasks run; the thread ends |
| Scheduler (`scheduler.cpp`) | priority queue, id set, last id, state | `addEvent`, `stopEvent`, loop, `stop`, `shutdown` | dispatcher | events fire once, not early, not after they were stopped; no event overslept |
| Connection (`connection.cpp`) | state, pending counters, error flags, socket, timers, reference count | accept, parse, send, time-outs, close, release | io service, dispatcher, protocol, pool | one write at a time; nothing is used after it was deleted; closed connections end |
| OutputMessagePool (`outputmessage.cpp`) | free, autosend and waiting messages | `getOutputMessage`, `send`, `sendAll`, release | connection, protocol | each message is in one place; counts are exact |
| Protocol (`protocol*.cpp`) | connection, output buffer, reference count, player | first packet, `login`, `connect`, `disconnect`, release | connection, game | alive while a task, message or player refers to it |
| Server (`server.cpp`) | acceptors, retry flag | open, accept, close, stop | connection, scheduler | ports reopen; no socket is leaked |
| Startup and shutdown (`otserv.cpp`, `game.cpp`) | loader signal, game state | `mainLoader`, `setGameState`, `shutdown` | all threads | the process ends, whatever came up |
| Waiting list (`waitlist.cpp`) | two queues with time-outs | `clientLogin`, slots, cleanup | login | order of arrival; every place is used |
| Party (`party.cpp`) | leader, members, invitations | invite, join, revoke, leave, pass, disband | player | both sides agree on membership and invitations |
| Trade (`game.cpp`) | trade states, `tradeItems` | request, accept, look, close | player, items | no item is in two trades, lost or doubled |
| Moving items (`game.cpp`, `container.cpp`, `tile.cpp`, `player.cpp`) | item trees, stack counts, cached weights | `internalMoveItem` and the queries and notifications of the cylinders | trade, everything that holds items | items are conserved; no cycles; weights stay right; limits hold |
| Market (`game.cpp`, `iomarket.cpp`) | bank balances and depots in memory, offers in the database | create, cancel, accept, expire | database, scheduler, login and logout | nothing is made or lost; expired offers end |
| Database (`database.cpp`, `iologindata.cpp`) | one connection, a recursive lock | `executeQuery`, `storeQuery`, transactions, `savePlayer` | every thread | the lock is given back; a save is all or nothing; what succeeded is stored |
| Bans, raids, spawns, chat, houses, conditions, depots and mailboxes | tables and timers of their own | | dispatcher, scheduler, database | not modelled, see below |
| Rules of combat and creatures, Lua bindings, map, static data | large | | | not modelled: numerical, scripted or pure I/O |

What is hard: `addTask` and `addEvent` notify after they released their locks;
the thread states are read without a lock; completions, timers that fired just
before they were cancelled, and tasks bound to raw pointers cross between
threads; release by polling a reference count; one database connection, which breaks,
for all threads, with a transaction that is locked a moment after it began;
offers stored at once beside players stored later; and long commands (a move, an
accepted trade) whose later steps rely on answers from before the earlier ones. `PROJECT.json` lists these hazards at their lines, with the
properties that cover them.

## Modules

| Module | Models | Checked by |
|---|---|---|
| `TaskQueue` | abstract: what callers of `addTask` rely on | refined by `Dispatcher` |
| `Dispatcher` | `tasks.cpp`, and how `setGameState` and `Game::shutdown` end it | `MCDispatcher.cfg`, `DispatcherProofs` |
| `Timers` | abstract: what users of the scheduler rely on | refined by `Scheduler` |
| `Scheduler` | `scheduler.cpp` | `MCScheduler*.cfg`, `SchedulerProofs` |
| `Connection` | `connection.cpp`, with the life cycle of `protocol.cpp`, `protocolgame.cpp` and the messages of `outputmessage.cpp` | `MCConnection*.cfg`, `ConnectionProofs` |
| `PartyGroups` | abstract: parties as players see them | refined by `Party` |
| `Party` | `party.cpp`, with the commands of `game.cpp` and the events of `player.cpp` | `MCParty.cfg`, `PartyProofs` |
| `PartySharing` | shared experience, on top of `Party` | `MCPartySharing.cfg`, `PartyProofs` |
| `Cylinders` | what players, containers and tiles answer to a move (`player.cpp`, `container.cpp`, `tile.cpp`) | with `Trade`, `PlacesProofs`, `TradeProofs` |
| `Items` | `Game::internalMoveItem` and what it triggers | with `Trade`, `PlacesProofs`, `TradeProofs` |
| `Trade` | the commands: walk, move, request, accept and close a trade, login, logout | `MCItems.cfg`, `MCTrade.cfg`, `PlacesProofs`, `TradeProofs` |
| `Database` | `database.cpp` and the calls of two threads | `MCDatabase.cfg`, `DatabaseProofs` |
| `Market` | the market of `game.cpp` and `iomarket.cpp` over failing statements and crashes | `MCMarket.cfg`, `MarketProofs` |

### Dispatcher

A step is one critical section of `m_taskLock`, one notification, or one
statement between them. `calling[t]` is the task a thread passes to `addTask`
before it has the lock, `signal[t]` that it left the critical section with
`do_signal` set; `pc` is where the dispatcher's own thread is, `flushing` that
`shutdown()` still holds the lock while `flush()` runs what is left. `status`
follows each task from `new` to `ran`, `expired` or `refused`. Condition
variables may wake spuriously (`WakeSpuriously`). Tasks of the dispatcher's own
thread call `addTask` as well; `setGameState(GAME_STATE_SHUTDOWN)` is the task
`CloseTask`, which adds `ShutdownTask` and then stops the dispatcher.

* `NoLostWakeup`: the thread sleeps over a non-empty list only while somebody is
  about to notify it.
* `ClosingReachesShutdown`: a dispatcher that refuses tasks still holds the one
  that ends it.
* `ImplementsTaskQueue`: accepted tasks start in order, once, one at a time, or
  expire; none is accepted after closing. The task that was popped but not yet
  looked at is still in the abstract queue.
* `AcceptedTasksSettle`, `ClosingEnds`: liveness, with one exception the code
  has: a task run by `flush()` that calls `addTask` locks `m_taskLock` twice in
  one thread (`BlockedInFlush`). They show that nothing else keeps a task or the
  end waiting, not that this never happens.

### Scheduler

Like the dispatcher; `now` is the clock, `cycle[e]` the time of an event,
`eventId[e]` its id. `wait_until` reports a time-out if its deadline has passed
when the lock is held again. Ids wrap at `MaxId` (`uint32_t` in the code); the
guard `IdIsFree` bounds how many events are added while one is queued, i.e. an
id never meets an event that still carries it.

* `NoLateWait`: no event is overslept; `TimeoutHasEvent`: a time-out finds an
  event to pop; `IdsNameEvents`: `stopEvent` stops what it names.
* `ImplementsTimers`: an event fires once, not early, and never after it was
  stopped.
* `EveryEventFires`, `SchedulerEnds`: liveness. After `shutdown()` the thread
  ends when the deadline it waits for passes; if the queue was empty when it
  went to sleep nobody wakes it (`SleepsForever`). That the server has some event
  queued most of the time does not rule this out: `shutdown()` empties the queue
  itself, and a thread between its loop test and its lock then finds it empty and
  sleeps for ever. The property shows that nothing else keeps the thread from ending.

The comment in `shutdown()` that "this list should already be empty"
(`src/scheduler.cpp:153`) is not true of the code: `stop()` does not wait for
queued events, and `shutdown()` discards them.

### Connection

One connection, its protocol, and the messages addressed to it. `ioQueue` holds
the completions whose handlers are to run, in order, as the io service runs
them; timers that have expired are in it and are not taken out by `cancel()`.
`tasks` is the dispatcher's queue (an instance of what `TaskQueue` promises),
with only the tasks that concern this connection; other tasks are
`StartGameTask`, which may write to the client and is followed by `sendAll`.
`events` are the scheduler's. A message is in a list of the pool (`autoSend`,
`toAdd`), in a write (`writing`), in a completion, in the hands of a handler
that has returned (`dropping`) or on its way back (`tasks`); otherwise it is
free. Which messages are older than 10 ms or 10 s is a choice. An aborted
operation and a failed one are the same (`ok = FALSE`): every handler goes on to
`closeConnection()` after either.

* `OneWrite`: writes never overlap, although `closeSocket()` resets
  `m_pendingWrite` early.
* `BufferWaits`: what is written to an output buffer is still to be sent.
* `TasksFindProtocol`, `ProtocolUnreferenced`, `ConnectionOutlives`,
  `SocketNotNull`: no task, handler, timer, message or player outlives what it
  points to.
* `Consistent`: types, each message in one place, exact reference counts, and
  `closeConnectionTask` always finds `REQUEST_CLOSE`.
* `ClosedConnectionEnds`: liveness, for connections that are not left `CLOSING`.
* `connection_left_closing` (a violation run): a connection whose write was
  pending in `closeConnectionTask` is never released; the comment there says
  that the handlers will close it.

Not in the model: exceptions of the functions that start asynchronous
operations; a lost update of the plain reference counters when an OTClient's
greeting is allocated on the io thread; `closeAll` at shutdown.

### Party

Everything runs on the dispatcher's thread, so a step is a whole command; what
is hard is that membership and invitations are kept twice, by `Party` and by
`Player`, and that parties delete themselves in the middle of their callers.
`ties` holds the fields of all `Party` and `Player` objects; the methods of
`Party` are functions from ties to ties (`Disband`, `RemoveInvites`,
`LeaveParty`, ...) that call each other as in the code, and the commands of
`Game`, the login and the logout are the actions. An object of `Parties`
without a leader does not exist; one that is deleted can be created again, as
memory is. A player may invite himself, as in the code. `invitePartyList` and
`inviteList` are sets (they have no duplicates and their order decides nothing);
`memberList` is a sequence, because its first element inherits the leadership.

* `InvitesAgree`, `MembersAgree`: both sides say the same; nobody is in two
  parties or in one that was deleted.
* `NoEmptyParty`: a party ends when its last member or invitation goes.
* `OnlineOnly`: nothing refers to a player who logged out.
* `ImplementsPartyGroups`: forgetting the `Party` objects, the groups of leaders
  and followers change only as `PartyGroups` says; in particular leaving as a
  leader with one member and no invitation ends the party, and otherwise a
  member takes over with all invitations.

`PartySharing` adds `sharedExpActive`, `sharedExpEnabled`, `pointMap`, levels and
places. Each step of `Party` is conjoined with what it does to them; a method
that calls `updateSharedExperience` several times is taken as the last call,
which finds everything as the step leaves it.

* `SharingIsCurrent`: the cached `sharedExpEnabled` is what
  `canEnableSharedExperience` would say, except that points which have become
  too old are noticed only at the next change.
* `PointsOfMembers`: who leaves takes his points with him.

Not in the model: scripts that refuse `onLeave` or `onDisband` (the hooks are
disabled in `data/events/events.xml`; a refusal inside `leaveParty` would leave a
leader outside his own party), scripts that call the methods of `Party`
directly, and the loss of levels at a
death that does not remove the player (by a monster in a PvP zone), which the
code does not tell the party of.

### Moving items and trade

`Cylinders`, `Items` and `Trade` share one variable, `world`: where items are
(`parent` is the back pointer, `list` and `slot` what holds them), `count`,
the cached `weight` of containers and `carried` of players, positions, and the
fields of a trade. The methods of the cylinders are functions of a world, so a
command of a player, with everything that the code calls, is one step:
`MoveItem` asks for the destination, queries it, exchanges a worn item for
another, splits or merges stacks and notifies whoever watches, and `CloseTrades`
comes out of those notifications as in `Player::checkTradeState`. An empty slot that a
move names is asked for the pieces that are to come (`src/player.cpp:2758`); when any
slot will do, an empty one is asked for the whole stack (`src/player.cpp:2734`).

* `PlacesAgree`: every item is in one place, points back to it and is not inside
  itself.
* `WeightsAgree`: cached weights are those of the contents, at any depth.
* `LimitsKept`: pieces of stacks are conserved; room and capacity are kept. The
  code has an exception, which the property names (`LaidOff`): when a worn stack
  is exchanged for an item from a full container, it is laid into that container
  (`src/game.cpp:1273`) before the player is asked once more whether he can carry
  what is to come out of it; if he cannot, the move ends there and the container
  holds one item too many.
* `TradesAgree`, `OffersApart`: both players see the same trade; offers exist,
  are in reach and do not contain each other.
* `OfferIsFixed`: while the trade goes on, nothing is put into, taken from,
  merged with or split off what the partner was shown.
* `SwapIsWhole`: the last accept exchanges both items or none, and an item goes as a
  whole. Both additions are tried before either item moves (`src/game.cpp:2770`),
  but the second move, to the player who accepted last, merges no stacks, and nobody
  looks at its result. The property names what the code leaves open:
  * `HasOwnPlace`: if his only place for the other item is a stack it would join, or
    inside the item he gives away, he gives his item and gets nothing;
  * `Outgrown`: if his own item is a stack and joins that of his partner, the search
    for a place asks for the stack as it is now (`item->getItemCount()`,
    `src/player.cpp:2848`) and not for the pieces that come to him: he may get nothing
    because all of it would be too heavy;
  * `Overfull`: in a container that is too full (`LaidOff`), the places left,
    `capacity() - size()` at `src/player.cpp:2860`, are a huge unsigned number. The
    search ends with an index behind the container's end; or, if the item is too heavy,
    asks 2^32 times in vain.

Noted while reading: who opened a trade can accept before his partner has offered
anything, and that accept stands for whatever is then offered; the index that
`Player::__queryDestination` returns for a container counts only the items it
looked at (`src/player.cpp:2880`).

Not in the model: the tile's ground, fields and items that are always on top;
slots that depend on the other hand, the level or the vocation; depot, mailbox,
trash holder and teleport; house documents; the limit of 100 items in a trade;
scripts; transforming and decaying items.

### Database

A step is a lock, a statement as the MySQL server sees it, or an unlock. `pc`
and `statement` say where each thread is; `work` and `stored` count how often
each statement of a thread's current call took effect, in the open transaction
and for good. The connection breaks at any time (`lost`), also after a statement
took effect and before its answer came (`AnswerIsLost`); `known` is what the
client library believes about an open transaction, after which it refuses one
statement before it connects again. The saves of `savePlayer` are N numbered
statements; everything else is `Single` or `Select`.

* `LockAgrees`: `database_lock` is owned by whoever executes a statement or has a
  transaction, and as deeply as needed, whichever step fails.
* `SaveIsAtomic`: without a break, all of a save or nothing, as `savePlayer`
  reports; with one, a save that reports success lacks at most its first
  statements.
* `SuccessIsStored`: a statement that succeeded is stored, once unless its answer
  was lost.

The two exceptions are what the code does: the retry loop of `executeQuery`
(`src/database.cpp:103`) also runs inside a transaction, where trying again
defeats the library's refusal, so that the statements before the break are
gone while the rest is committed one by one and `savePlayer` returns true; and a
statement of the io thread that comes between `BEGIN` and the lock
(`src/database.cpp:64`) joins the dispatcher's transaction (`slipped`). Also:
`executeQuery` sleeps with the lock held, and after a failed `BEGIN` the
destructor of `DBTransaction` unlocks a mutex that its thread may not own (no
effect with pthreads) and rolls back without the lock.

Not in the model: loading players, the contents of rows, connecting at startup;
`iomapserialize.cpp` uses transactions of the same shape.

### Market

Offers are stored at once; what a player has is in memory while he is online and
stored when he logs out or the server saves everybody. A handler changes
`memory` in one step and puts the statements it executes into `writes`; each
then succeeds, fails, or takes effect and is executed again, and the server may
crash between them. A save (`SaveOf`) is one statement here, and so is loading, changing and saving
an offline owner (`Pay`, `Store`); `Database` has the single ones.

`executeQuery` executes a statement again when the connection was lost before the
answer came (`src/database.cpp:103`), and `Repeated` says what that does to each
kind: a new offer has a second row, a payment is added twice, an amount decreases
twice if the row has that much (it is unsigned, and the second `UPDATE` is an error
otherwise), and a row that is deleted twice is gone as before. A save is a
transaction of which the server rolls back what came before the repeated statement:
here the first statement, which writes the money (a bound: breaks after later statements
of a save, and rows it deleted that come back, are left to `SaveIsAtomic`). For an offline owner who is
loaded and stored that changes nothing, since he is given items only.

* `NothingIsMadeOrLost`: `Total` (what is in memory, in the tables and in the
  statements under way) changes by the fee of a new offer; when a statement fails, by
  exactly what that statement alone moves (`Moves`); when one is repeated, by what its
  second execution adds (`Doubles`); and otherwise not at all. The exception is a crash
  with something unsaved.
* `ExpiredOffersEnd`: whatever failed or was passed over before, an expired offer
  ends. Players who cannot be loaded can be later on; an offer of an item type that
  is unknown (`src/game.cpp:5608`) is passed over by every check, and with a check
  interval of 0 there is no check but that at startup. Neither is in the model.

What the exceptions stand for: a refund precedes a delete whose result is not
checked (`src/game.cpp:5343`, `5644`), so that an offer that could not be deleted
is refunded again; a failed save of an offline owner loses his share; an offer that
was inserted twice can be cancelled twice; and a crash between saves loses or doubles
what was offered or bought since. A fault does not stop the handler, so the property also
says that its other statements neither add to the damage nor make it good. The `continue`
for an unknown item type (`src/game.cpp:5609`) leaks the loaded player.

Not in the model: browsing, history and statistics, several kinds of items and
prices, limits of a request, which items of the depot are taken.

## Runs and bounds

| Run | Instance | Shows |
|---|---|---|
| `dispatcher` | 2 foreign threads, 5 tasks (2 with expiration) | all safety, refinement and liveness of Dispatcher |
| `scheduler` | 2 clients, 3 events, 2 ids, delays 0 and 2, clock to 3, `MinTicks` 1 | safety and refinement of Scheduler |
| `scheduler_live` | as above with 2 events | its liveness |
| `connection` | 2 messages, 1 queued task of the protocol | safety of Connection |
| `connection_ends` | 1 message | its liveness |
| `connection_left_closing` | 1 message | violation: CLOSING for ever |
| `party` | 4 players, 4 parties | safety and refinement of Party |
| `party_sharing` | 3 players (one exempt from points), 1 party at a time, levels 2 to 4, 2 places | shared experience |
| `items` | 1 player, 2 tiles, 2 slots, 2 containers of 2 places (`Room`), stacks of 2 and 1 with a spare object (`StackMax` 2), a sword, `Capacity` 2 | safety of moving items |
| `trade` | 2 players, tiles 0, 1 and 3, 2 slots, a container of 1 place, 2 stacks of 1, `Capacity` 2, `ThrowRange` 1 | safety of trade |
| `database` | dispatcher and 2 io threads, saves of `N` = 2 statements, `MaxLosses` 2, `MaxErrors` 1 | safety of Database |
| `market` | 2 players, 2 rows of offers, `Price` 10, `MaxAmount` 2, `MaxOffers` 2, `MaxFaults` 1 (crashes, failed and repeated statements, passed over offers) | conservation and expiry |

Two foreign threads are the io and the scheduler thread, which is all there are.
Five tasks let two droppable ones, an ordinary one, the closing one and the last
one be queued, taken and flushed in every order. Three events over two ids let
ids wrap and be stopped while two others are queued; the delays lie below and
above `SCHEDULER_MINTICKS`. Two messages let one be written while another waits,
and let a buffer be replaced while the old one is still in a list. Four players
let a party have a leader, a successor, a remaining member and an invitee who
leads another; with four parties nobody ever lacks one. Level 2 is too low for 4
but not for 3; players in the same place are in range of each other.

Two containers can be put into each other in both orders; with two places each
and stacks of two, everything is also tried full. Capacity 2 is below the weight
of a container with anything in it. In the trade, the item a player gives can be what
fills his only container, and he can carry any two of the three items. Tiles 0 and 1 are next to each other, 1 and 3 within the two tiles
of a trade, 0 and 3 out of it. With two statements a save can break before,
between and after them, and with two losses once more while it recovers; one
error of each statement shows what the code does with it. There is one io thread
in the server; the second shows that nothing depends on that. In the market alice
has 60 gold, enough for an offer to buy two items at a fee of 20, and bob one
item: an offer is accepted in part, alice offers the item for sale while the rest
of her first offer is open, and bob can buy it with what he earned. One fault is
enough for each kind; a new offer gets the first free row of `Ids`, since
the number of a row decides nothing, and the `INSERT` of one is repeated only if
`Ids` has a row left for the second.

Fairness: threads are scheduled and tasks return (weak fairness of each thread's
steps); time passes; a queued task has its turn because the queue is FIFO
(`TaskQueue`), which in `Connection`, where the tasks of others are not in the
queue, is strong fairness of `TakeTask`; a message gets older than 10 ms (strong
fairness of `SendNext`). In `Market`, a handler goes on to its end (weak fairness
of `Succeeds`; a statement that fails or is repeated also takes it a step further), and the
scheduled check has its turn whatever other handlers run, since scheduler and
dispatcher hand it over (`EveryEventFires`, `AcceptedTasksSettle`): strong
fairness of `Check`, because it is enabled only between handlers. Nobody is obliged to add tasks or events, and the peer
is not obliged to send or to accept anything.

## Proofs

Eight modules hold theorems. Each is for every value of the constants that
satisfies the named assumptions of the modules, which are about constants only:
that null values are not values (`NoMsg`, `NoPlayer`, `NoTask`, ...), that bounds
are natural numbers, that players and offers are
finitely many, that sets of things of different kinds are disjoint, that
containers have no more places than a client can name (`RoomAssumption`), and
that players start on a tile (`StartAssumption`). TLC evaluates them in the runs.

### Dispatcher and Scheduler

`DispatcherProofs` and `SchedulerProofs` prove, for any sets of threads, tasks and
events:

* the inductive invariant `Consistent` of each module. For the dispatcher it
  says where every task is (`ListOK`, `CallsOK`, `TakenOK`), what the thread
  holds at each `pc` (`ThreadOK`) and how far the end has come (`ClosingOK`);
  types alone are not inductive, because e.g. `Return` writes `status[task]`,
  which needs `task` to be a task, and that needs the place of the thread. For the
  scheduler it includes `IdsNameEvents`, `TimeoutHasEvent` and `NoLateWait`:
  that a time-out finds an event is only inductive together with what the
  thread was told to wait for and who is still to notify it;
* `NoLostWakeup`, which is inductive given `Consistent` (a thread that
  re-acquires the lock cannot have a notification of its own pending);
* the refinements `ImplementsTaskQueue` and `ImplementsTimers`: initial states
  map to initial states, and every step to a step of the abstract specification
  or to a stutter, using the invariants.

### Connection

`ConnectionProofs` proves all invariants of the run `connection` for
any number of messages and any bound on the tasks. None of them is inductive.
`IInv` has nine parts, each needed by another:

* `Types`; that the counters are natural numbers is not among them, it follows
  from what they count;
* `TaskOrder`, `IoOrder`: which tasks and completions are queued at most once and
  what does not come behind what. `closeConnectionTask` can drop the protocol
  because no `login` or `proto` task is behind it, and `onStopOperation` can
  delete the socket because no handler that uses it is behind it: what
  `TasksFindProtocol` and `SocketNotNull` say of one state follows from the order
  of the queues in all states before;
* `Writes`: in an open connection `m_pendingWrite` is not 0 as long as a write or its
  completion is on its way (`OneWrite`);
* `Placed`: each message is in one place. The one a handler has in its hands when
  it returns (`dropping`) is part of this;
* `Counted`: the reference counts of connection and protocol are the number of
  messages in use, plus the player's and the connecting task's reference;
* `Requested`: `REQUEST_CLOSE` if and only if the closing task is queued, and until
  it has run connection and protocol are bound to each other;
* `ProtocolLives`, `Released`: exactly one event or task will release the protocol,
  one event, task or operation the connection, and only the last of them finds no
  message left.

A lemma for each action shows that it keeps the nine parts, with one step for each
of them; `SendStep` serves every handler that goes on to send. The proof made two
things in the model explicit: a task of another subsystem is not a message
(`MessageAssumption`), and `sendAll` looks at the messages in a fixed order
(`InTurn`).

### Party

`PartyProofs` proves `Consistent`, `InvitesAgree`, `MembersAgree`, `NoEmptyParty`
and `OnlineOnly` for any players and parties. It first proves what each function
on ties does to ties on which both sides agree. `Consistent` is inductive, but
not in the middle of a method: when
`disband` is called from `leaveParty`, the leader is still named by a party that
is no longer his. `NearlyAgree(t, gs)` allows that for the parties that are
about to end, and `DisbandFacts` shows that agreement is back afterwards.

`PartyProofs` proves also that `Party` implements `PartyGroups`. `Leads` and
`Invitations` are the two views of the ties that the mapping takes.
`SettledFacts` says what they are of ties on which both sides agree, and
`GoesFacts` the main case: somebody leaves, and either a member takes over or the
party ends, with all the methods of `Party` that are called on the way. Then
every command, the logout with what it does to other people's invitations
included, is one step of `PartyGroups` or a stutter.

The second half of `PartyProofs` is about `PartySharing` and proves
`SharingIsCurrent` and `PointsOfMembers`, with
`SharingInv`, their conjunction with the types and the invariant of `Party`. Every
step leaves a party that shares either `Unconcerned` (nothing its rule asks for
has changed, but that points grew old) or `Updated` (the rule has been looked at
in the state after the step). One lemma for each kind of step finds out which;
`CurrentStep` concludes. This would fail for a death by a monster in a PvP zone, which is
not in the model because the code tells the party nothing then.

### Trade

The first part of `PlacesProofs` proves `TradesAgree`, for any players, items,
containers and tiles and any limits. The operators on items are long and call each
other, but few of them touch a trade: `Trading(w, xs)` says that `w` is consistent
but for the players `xs`, who have both accepted and swap their items at this
moment, and a lemma for each operator (`AddThingKeeps`, `RemoveThingKeeps`,
`MoveItemKeeps`, ...) shows that it keeps this, by way of `CloseTradesKeeps`: a closed
trade is closed on both sides. Types alone do not do: `Reset` at the end of a swap takes
two offers out of `tradeItems`, which is right only if no third player offers the
same item. That partners are near each other is part of `Trading`, because a walk
looks only at the one who walks; that his partner ends the trade as well
needs that they are in it with one another.

### Places of items

The rest of `PlacesProofs` proves `PlacesAgree`. The invariant is `Ordered`:
`Placed(world)`, with `Trading`, because a swap relies on two different offers. `Placed` says

* `PlaceTypes`, and that lists and slots fit the back pointers (`ListFits`, `SlotsFit`):
  every item that points to a container is in its list, once, and the other
  way round;
* `NoKnot`: a set of containers each of which is inside one of the set is empty.
  This says that no container is inside itself without counting levels;
* that exactly the items that exist are somewhere.

Induction over data is out of the prover's reach, so what recursive functions compute
comes from sets and their sizes. `Climb` is induction over `Nat` for a set
of numbers, `Recursion` says that a function defined by recursion over an
interval exists and has the values its definition gives, and `AboveFacts` and
`RootFacts` apply them: of the places above an item each is the parent of the one
before, and if there is no knot, the last is a player or a tile, since at
most `Cardinality(Bags)` containers can come before it. In the same way `BySize` is induction over the
size of a finite set and `TotalFacts` says what a sum over a set is.

Above these:

* `TakenOutLaid` and `PutInLaid`: an item is taken out of one place and put into
  a free one (`FreeAt`), which is not inside it;
* `RemoveFacts`, `AddFacts`, `UpdateFacts`, `DepartFacts`, `TransferFacts`: the
  operators of `Items` do just that, with the object of its own that a part of a stack
  becomes, and the pieces that join a stack (`Transferred`);
* `BagAnswer`, `PlayerAnswer`, `DestinationFacts`: what a cylinder answers as
  destination exists and can take an item (`Answers`, `Settling`). The loop of
  `internalMoveItem` ends with a cylinder that answers itself: every answer before
  it is a container further down, of which there are no more than
  `Cardinality(Bags)`; or it is the container above, asked with
  `MoveUp`, which is the first answer only;
* `RoomFacts`: if something is to arrive as an object of its own in a slot, the slot is empty;
* `MoveIntoFacts`, `ExchangeFacts`, `MoveItemFacts`, `SwapPlaces`: the moves and the
  swap of a trade; the second move of a swap needs that the first has left its
  item alone, and spare objects if both are stacks.

The proof made assumptions of the model explicit: things of different kinds are
different (`WorldAssumption`), and the bound on spare objects in `SplitsPossible` is that
the two stacks fit into one.

### Weights and limits

The first part of `TradeProofs` builds on `PlacesProofs` and proves `WeightsAgree`, `WithinLimits`
and `LimitsKept`, for any items, weights, capacity, room and stack size. The
invariant is `Balanced`: `Sound(world)`, with `Trading`. `Sound` says

* `Weighed`: `Placed`, and for each container and each player that the cached
  weight equals `Load`, the sum of the weights of what points to it.
  `WeightsAgree` speaks of the list or the slots instead; `ContentsInside` shows
  that they are the same, given `Placed`;
* `Bounded`: nobody carries more than `Capacity`;
* that the sum of all counts is what it was at first.

The code changes a cached weight in passing, at each container from the place of a
change up to the root, and tells the player at the root last. In between,
caches and contents disagree, and `Carrying(w, P)` says that all players but those of
`P`, who have not yet been told, have the right weight. The lemmas follow one
transfer:

* `TransferLoads`: what leaves one end arrives at the other, also when a part
  of a stack becomes an object of its own, when it joins another stack, and when
  one end is inside the other or both are in the same container;
* `PostLoads`, `PostTwice`: whoever holds one end or both has the right weight after
  both notifications, and nobody else was touched;
* `ExchangedLoads`: the same for a worn item that makes room;
* `NoDebt`: no cached weight is negative. A container with a negative one would
  have to hold another such container, and so on: a knot, which `Placed` excludes.
  That is why `Bounded` survives a removal;
* `TransferBounded`, `ExchangedBounded`: whoever gets something was asked whether he
  could carry it, in a state from which nothing has changed that matters. If
  he holds both ends, his load does not change (`HauledBounded`); `RootHolder` says
  that the player at the root, whom the code asks, is the one who holds the end;
* `TransferPieces`: what a stack loses, the other one gets;
* `StepsSound`, `HandlesSound`: each move, the swap of a trade and each command keeps
  `Sound`. A swap is two moves in a row, of which the second is tested anew.

`LimitsKept` is an action property. `ListLength` says that a list is as long as
there are items that point back to it; `NotFuller` that a list has room or is no
longer than before, which `TransferLists` shows of a transfer. Of an exchange it is
not true: `internalMoveItem` lays a worn stack into a full container before it asks whether
the player can carry what is to come out. `LaysOff` is this case, and
`StepsLists` and `HandlesLists` show that it is the only one: if the rest of the move
goes through, the list is no longer than it was, and the moves of a swap, which
name no slot (`Wherever`), exchange nothing.

### Offers

The second part of `TradeProofs` proves `OffersApart` and `OfferIsFixed`. No single check in
the code ensures them: it calls back every player who may see a change of a cylinder,
and each compares the item with his own offer. Whether that is enough depends on who sees
what (`Watching`), on where the callback is sent before or after the change, and
on what each callback compares (`Concerns`, `TradeLeaves`, `TradeLeavesBag`). The invariant
is `Offering`: `Placed` and `Trading`, with

* `Held`: each offer is `Near` who offers it: at the top it lies on a tile next to
  him, or he has it. `OffersApart` asks for the position only, which would not be
  inductive: what somebody else carries past has the right position too;
* `Separate`: no offer is inside another one. This needs `AlreadyTraded` to look in both
  directions when a trade begins, and afterwards that nothing enters an offer.

`Spared(w, v, xs)` says that from `w` to `v` each player but those who swap either
lost his trade or has the same offer with the same contents (`SameOffer`), and
`Fair` adds that all stay where they are. The lemmas:

* `HoldsKept`, `AboveKept`, `InsideKept`: a change of one parent changes neither what is inside
  an item nor what is above it, unless the moved item is or was related to it
  (`UpwardsFrom` cuts a way up in two);
* `NearWatches`: who has an offer related to a change is among those called
  back. A container tells those within two tiles, so this needs `Held`;
* `RemoveFair`, `AddFair`, `UpdateFair`: what `__removeThing`, `__addThing` and
  `__updateThing` do to an offer ends its trade. Containers and players tell it before they remove
  something, tiles afterwards; an item that is added to a tile or an inventory is not compared
  with offers at all, and need not be: it was nowhere before, and what is nowhere
  is not near anybody (`NowhereOffered`);
* `TransferFair`, `ExchangedFair`, `StepsFair`, `SwapsFair`: the same for a whole move, with its split,
  its merge and the worn item that makes room, and for a swap of two others;
* `GoesDeals`, `CloseDeals`, `MoveDeals`, `AcceptDeals`, `RequestDeals`: one for each command, put together in
  `NextDeals`.

### The last accept

The third part of `TradeProofs` proves `SwapIsWhole`. It needs no invariant beyond
`Offering` and `Balanced`, but has to follow two calls of `internalMoveItem`, of
which the second looks for a place after the first has changed containers, weights and
stacks. When the last of both accepts, the two are `Bargaining`: their items are
different, near who offers them, and neither is inside the other.

* `GiftMoves`: one call either leaves everything as it was (`Stays`), or all of the
  item goes (`Gives`), as a whole or into one stack. A call that returns an error after it
  changed something would be a third outcome: it does not happen, because a player
  who has no container that is too full (`Overfull`) is only sent to places that
  take the item (`Settling`);
* `FirstGiving` is what the first call does. `FirstInside`, `FirstCounts`, `FirstBags`,
  `FirstCapacity`, `FirstSlot` say that it leaves the partner's item with all that
  is in it, the free places of the one who gives, and his capacity;
* `SecondMay`: the parent and the count that `playerAcceptTrade` asks for afterwards
  are those of the offer, so the second call moves all of it;
* `FirstPlaceKept`: who had a place of his own for the partner's item (`HasOwnPlace`), and
  whose own item does not make it too heavy (`Outgrown`), still has one. With
  `TestedCapacity`, what `__queryAdd` tried beforehand, the second call succeeds;
* `GiftCarried`, `GiftRoots`: what each player carries afterwards; `FirstGiven` and
  `SecondGiven` add it up to `Swapped`, and `SwapGives` joins the cases.

`SearchComplete` says that the search for a place looks into every container that a player
has, but those it is told to leave out. Its answer is a place by number, which
`internalMoveItem` asks for again, and 254 means the container's parent
(`src/container.cpp:429`). So the proof needs that lists do not get that long:
`RoomAssumption`. The containers of `data/items/items.xml` have 32 places at most.

Attempts at this proof found an earlier wording of the property wrong in instances larger than the
run's. That is how `HasOwnPlace` came to count the room that the given item leaves, and
how `Outgrown` and `Overfull` came to be named.

### Database

`DatabaseProofs` proves `LockAgrees`, `SaveIsAtomic` and `SuccessIsStored` for any
number of threads, statements, losses and errors. They are not inductive: what
`AfterWrite` finds depends on which statements took effect before. `Inductive`
adds where the dispatcher is in its save (`PlacesOK`), that only it has a
transaction open and that the client knows (`TransactionOK`), and what the save
did so far: nothing before it began (`BeforeOK`), each statement up to `Done`
once while the transaction is open (`OpenOK`), after a break the last one that
succeeded, unless the connection is down again (`LastOK`), no gap between stored
ones (`OrderOK`), none beyond the next (`LaterOK`), and the outcome at the end
(`EndOK`); `SingleOK` does the same for single statements. Each part has a lemma
with a step for every action that can disturb it, and `NextInductive` puts them
together.

### Market

`MarketProofs` proves `NothingIsMadeOrLost` for any finite sets of players and of
rows, any price, amounts, number of offers and faults. The property compares
`Total` before and after a step. `Total` counts what the tables will be when the
handler that runs has executed its statements, so that a step which begins a handler
has to balance at once whatever that handler writes; a statement that succeeds changes
nothing. The invariant is `Invariant`: `Kept` and `Distinct`. `Kept` says

* the types of memory, of the tables and of the statements under way;
* `Fits`: before a statement that decreases an offer only its owner is paid, and the offer
  can afford the decrease. Without it, a decrease of a row that an earlier
  statement deleted would take away what is not there.

`Distinct` says that the statements of one handler do not get in each other's way:
any two are `Independent` (they concern different rows, or both add to one), a statement
that inserts is alone, and its row is free. Without it, a statement that fails or is
repeated could change by more than its own share what the statements after it do.

`Kept` was checked with TLC before it was proved. The lemmas below the actions are about sums and folds, which the prover
cannot unfold; as for the weights of items, induction over numbers and over the sizes
of sets (`Climb`, `BySize`) takes their place:

* `SumFacts`, `SumPut`: a sum of amounts can be taken in any order, and changes by what
  changes at one element; `HasSum` and `StakeSum` find such sums in `Total`;
* `FinalRuns`, `FinalJoin`, `FinalTwo`: what a sequence of statements leaves, one after
  the other, and that of two sequences in a row;
* `FinalAlike`: tables that differ only in which offers expired still do so after any
  statements (time may pass in the middle of a handler);
* `FinalSaves`: `saveGameState` writes what is in memory, in whatever order;
* `WealthMoves`: what is taken from one place and put into another leaves the sum;
* `Commute`, `FinalCommutes`: independent statements can be executed in either order, so
  the one that fails or is repeated may be taken to be the last;
* `ExecutedMoves`: as the last one, a statement adds `Moves` to the sum; `FailsAccounts`
  and `RepeatsAccounts` follow, the latter by `RepeatedIs`: to repeat a statement is to
  execute it, or a save with the money of before, or one more statement (`Again`).

`CreateKeeps`, `CancelKeeps`, `AcceptKeeps`, ... show for each action that it keeps
`Kept` and balances. An owner who accepts his own offer, or one who is offline and is
paid by a statement, are cases of `AcceptKeeps`. The check for expired offers ends any
number of them in one handler: `EndsOneMore` adds one offer and its owner's share, in memory or by
a statement, and `EndKeeps` is the induction over them. `StepAccounted` puts
the actions together.

The proof made two assumptions explicit: that there are finitely many players and rows, and
that `NoOffer` is not an offer (`MarketAssumption`).

### Only model-checked

* All liveness (`AcceptedTasksSettle`, `ClosingEnds`, `EveryEventFires`, `SchedulerEnds`,
  `ClosedConnectionEnds`, `ExpiredOffersEnd`): the prover has no rule for fairness here.

## Not modelled

* The start and the end of the process (`otserv.cpp`, `server.cpp`,
  `closeAll`): each runs once, before and after everything the modules are
  about. `Dispatcher` has the tasks that end it, `Scheduler` its end.
* The login itself and the waiting list (`waitlist.cpp`): two lists with
  time-outs on the dispatcher thread alone. Noted while reading: `clientLogin`
  erases an entry of one list with an iterator of the other
  (`src/waitlist.cpp`, `waitList.erase(it)`), which is undefined.
* Depots, mailboxes, houses, beds: they move items by the operations of `Items`
  and store players by those of `Database`.
* Raids, spawns, global events, conditions, chat, quests, guilds: tables with
  timers on one thread; their effects are rules, scripts or text.
* Creatures, combat, spells, weapons, path finding, Lua, the map, messages,
  ciphers and static data: numerical, scripted, or data without control.

## Plan

1. (done) `Dispatcher`, `Scheduler`, `Connection`, `Party`, with proofs.
2. (done) `Items` and `Trade`, `Market`, `Database` with proofs.
3. The end of the process with both threads, and the lock order of `m_taskLock`,
   `m_outputPoolLock` and `m_connectionLock` with the tasks run by `flush()`.
4. (done) Proofs of the safety of `Connection`, of `PartySharing`, of the refinement
   of `Party` and of `TradesAgree`.
5. (done) Proofs of `PlacesAgree`, `WeightsAgree`, `LimitsKept`, `OffersApart`,
   `OfferIsFixed` and, in `Market`, `NothingIsMadeOrLost`.
6. (done) A proof of `SwapIsWhole`.
