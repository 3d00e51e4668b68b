# YTalk in TLA+

YTalk is an instant messaging server. The repository holds two generations of it:

* `server1/` is the server that is built and works: an epoll network library
  (`netlib`), a MySQL connection pool (`mysql`), a logger (`base`) and the chat
  service (`IMServer`), all in one process with several threads;
* `server/` is an older design of brpc services (login, gate, route, IM, database
  proxy), most of whose routing is still "TODO".

Most models follow `server1`; the logger and the login of `server` have models too. TLC
checks every model on small instances; TLAPS proves safety properties of eight of them
for every value of the constants.

## 1. Inventory

### Threads

`Main.cpp` runs the *base loop* (`g_loop`), which accepts connections.
`EventLoopThreadPool` starts worker threads with one `EventLoop` each, and
`TcpServer` gives every new connection to the next of them. All callbacks of a
connection, and with them all handlers of its `ChatSession`, run on that loop.
Loops talk to each other by queueing functors (`queueInLoop`). They share, behind
mutexes, the session list, the offline caches, the user table, the MySQL pool and the
record list of the logger, and behind no mutex at all the identity of every session.
The logger has a writer thread of its own.

In `server`, each brpc request runs on a bthread; requests share maps behind mutexes, and
Redis and MySQL behind remote calls to the database proxy.

### Components

| Component | State | Operations | Talks to | Hard behaviour | What makes it correct |
|---|---|---|---|---|---|
| `MysqlManager` | idle connections, number opened | `init`, `getMysqlConn`, `putMysqlConn` | called by `UserManager` on every loop | waiters and barging, `notify_one`, commands that keep their connection | no double lending, no lost wakeup, nobody stuck without a leak |
| `UserManager` | users, friend lists, the next ids | load, register, relationships, groups, personal data | pool, `ChatSession` | database and memory are written in two steps with no lock over both; failed statements; restarts | friendship is mutual; memory agrees with the database; names are unique; what is answered is what was done |
| `ChatService`, `ChatSession` | `m_sessions`; identity and `m_isLogin` of each session | connect, disconnect, login, chat, group chat, add, answer, delete, status | `CacheManager`, `TcpConnection::send` | lookup, then use; logins against sends; kicks; several devices | messages are delivered or stored once and in order; one session per client type |
| `CacheManager` | offline messages and notices per user | add, get and erase | `ChatSession` | a login empties what a handler is about to fill | nothing is lost or doubled, or left behind for a user who is online |
| `TcpServer`, `TcpConnection`, `Acceptor` | connections, `m_state`, output buffer | accept, establish, read, write, close, destroy | base and worker loops | destruction over two loops, raw `this` in functors, descriptors that run out | UP once, DOWN once, release after that and in the end |
| `EPoller`, `Channel` | descriptor to channel map, index, events | update, remove, poll, `handleEvent` | kernel | descriptors that are used again; several callbacks per event | a connection that is up is watched |
| `EventLoop`, `EventLoopThread(Pool)` | functors, wakeup descriptor, `m_isQuited` | `loop`, `queueInLoop`, `wakeup`, `quit`, `startLoop`, destructor | all of the above | wakeups against sleep, quit against start | each functor is called once and in order, no sleep over work, `quit` stops |
| `sig_exit` (`Main.cpp`) | | destroys `TcpServer`, quits the base loop, stops the log | all of the above | a signal handler on a thread that may hold a mutex; worker loops that end one after another | the process ends; sessions are told; loops that are gone are not used |
| `LogService` | record list, writer thread, `m_isExited` | `output`, FATAL records, `stop` | everyone | notify without the mutex; a FATAL record writes the list itself | every record is written, once and in order; `stop` returns |
| `AsyncLog`, `LogFile` (server/base) | two buffers and the full ones, the files | `append`, the thread, `stop`, roll | the brpc servers | buffers that change hands outside the mutex; stop and crash | the thread never lacks a buffer; the files keep the order; what stop loses |
| `LoginServer` | gates by name: load and address | `Login`, `Auth`, `FirstSend`, `Notify`, `LastSend` | database proxy, gates | a pointer used after the unlock; test and set as two remote calls | a login is told a live gate and the token that is stored |
| `DBProxyServer` | two pools; Redis, MySQL | one service per query | Redis, MySQL | a silent Redis is taken for a missing key | as `MysqlManager` |
| `GateServer` | channels by user | `Login2Gate`, `Send2Route` | `LoginServer`, `RouteServer` | | a channel only for the authenticated |
| `RouteServer`, `server/IMServer` | sessions of the servers | receive and log | | routing is TODO | |
| `TimerQueue`, `Connector`, `TcpClient` | | bodies empty or not used by a program | | | |
| `Buffer`, `Socket*`, `BinaryStream`, `ConfigParse`, `TimeStamp` | bytes | reading and formatting | | sequential | |

`PROJECT.json` lists the components with their sources, and under `hazards` what is
hard to test in this code, with the line where it bites.

## 2. Modules

| Module | Models | Extended by |
|---|---|---|
| `ConnLease` | abstract: what a pool promises its callers | refined by `ConnPool` |
| `ConnPool` | `MysqlManager` and how each command of `UserManager` treats a connection | `MCConnPool`, `ConnPool_proofs` |
| `ConnLife` | abstract: what the library promises about one connection | refined by `TcpServer` |
| `TcpServer` | `TcpServer`, `TcpConnection`, `Acceptor`, `EPoller`, `Channel`, and the rounds of the loops | `MCTcpServer`, `TcpServer_proofs` |
| `EventLoopThread` | `EventLoop` and `EventLoopThread`: functors, wakeup, quit | `MCEventLoop`, `Threads_proofs` |
| `Shutdown` | `sig_exit` of `Main.cpp`, `~TcpServer` and the end of the worker loops | `MCShutdown`, `Shutdown_proofs` |
| `ChatService` | `ChatService`, `ChatSession`, `CacheManager` over the loops | `MCChatService`, `ChatService_proofs` |
| `Friends` | `UserManager` in memory and in the database, and the handlers that change it | `MCFriends`, `Friends_proofs` |
| `LogService` | `LogService` | `Threads_proofs` |
| `LogFile` | `LogFile`: the current file and the renamed ones | `AsyncLog` |
| `AsyncLog` | `AsyncLog` over `LogFile`, with stop, crash and restart | `AsyncLog_proofs` |
| `Login` | `LoginService`, `AuthService`, `Session`, `RedisService`, `Login2Gate` | `MCLogin`, `Login_proofs` |

### Grain

A step is what no other thread can see the middle of: a critical section, or one
access to something shared without a lock. What runs on one loop between two such
points is one action. A call that goes on in another function is part of the action of
its caller (`handleClose` disables the channel, calls the connection callback and
queues the removal in one step: all three happen on the loop of the connection, and
only the queue is visible to others).

### ConnPool

`free` is `m_mysqlConns`, `count` is `m_initConnCount`, `pc`, `conn` and `cmd` say where
each thread is in its command, `lost` are connections nobody will return and
`crashed` is the process after a null pointer was dereferenced. `Take`, `Open`,
`OpenFails` and `Wait` are the branches of the loop in `getMysqlConn`, `Resume` and
`SpuriousWake` its returns from `m_cond.wait`, `Execute` the SQL statement with the
`return` that may follow it, `putMysqlConn` the critical section of that name. The
nine commands differ in three bits: whether the pointer is tested, and whether the
connection is put back after success and after failure.

### ChatService

`sessions` is `m_sessions`, and `arrival` the order of that list (sessions are only ever
added at its end); `uid`, `ctype`, `isLogin` are fields of each session; `link` is `m_state`
of its connection; `task[l]` is the handler loop `l` is in; `pending[c]` are the sends to
`c` among the functors of its loop, in their order (a send writes to one connection, so
nothing depends on how the sends to two connections are mixed); `wire[c]` is what client
`c` was sent. `cacheMsg` and `cacheNotify` are the two maps of `CacheManager`. Login is
`LoginAccepted`, `getSessionByUserIdAndClientType` (the search for a clashing session),
`Kick`, `AdoptId`, `AdoptRest`, `DrainMsgs`, `DrainNotify`, then the fan-out. The commands
share `Command`, `getSessionsByUserId`, `Snapshot`, `Push` and `Store`: `StoresMsg`,
`StoresNotify` and `Rechecks` say which handler stores what for whom, and which test
`vaild()` again; `Audience` is whom a command goes through, the members of the group for one
who joins or leaves it (`toAddGroup`, `toDelFriend`). `ForceClose` is a package `onRead`
refuses; `Disconnected` is the DOWN callback.

Both lookups go through `m_sessions` under its mutex and read the identity of one session
after the other, which other loops change under no lock. A step reads one session: the
task holds the sessions it has passed in `read` and what it found in `found`, and from the
first to the last of them nobody else searches, connects or disconnects (`Unlocked`). With
all read, `Snapshot` is what the handler works on from there. `onDisconnected` holds the
mutex throughout and is one step; an identity that changes meanwhile shows only in who gets
the notice.

Who may log in is `Credentials`. It may hold groups, whose rows have a password like those of
users (`ChatSession.cpp:392` does not ask which it is), and ids that nobody has: a name
nobody has leaves `u_id` uninitialised (line 372), and an empty password passes for
whatever it holds. In `social` a group logs in; ids nobody has are for `Friends` (`Stray`).

`Connected` leaves `ctype` undetermined, as the constructor of `ChatSession` does not
initialise it. `Reaches` lets `apply` go to friends only: `isFriend` answers 0 for
friends, and `toAddFriend` stops on any other answer.

A message that is stored is marked with the place of its user in the audience (`turn`):
a list may name a friend twice, and each copy is followed on its own. `seen`, `absent`,
`kicked`, `overlap` and `raced` are history, read by no action: whom a snapshot found and
whom it did not, and the two races the properties name.

Abstracted: the contents of messages, the replies to the client that sent the command (but
for the answer to a login), and the database (a failed `saveChatMsg2DB` changes nothing in
the handler; a handler that waits for ever in `getMysqlConn` is the matter of `ConnPool`,
and of `Shutdown` for what it means to the end of the process). Friend lists are a constant
here; `Friends` changes them. A raced access to `m_onlineUserInfo` reads the old or the new
value. A login sets `u_id` in one step and the client type in a later one; the other fields
are not modelled.

### TcpServer

`state`, `events`, `index`, `channels`, `connections`, `pending` are the members of
those names. `round` says where a loop is: in `epoll_wait`, at the callbacks, or at the
functors. `active` is `m_activeChannels` as a set, the kernel giving them in any order;
`current` is `m_curActiveChannelPtr` while it has callbacks left, and `revents` are those
callbacks, called in the order of `Channel::handleEvent` (`First`). `running` is the local
vector of `doPendingFunctors`, and `kept` are the connections that called functors of the
batch still own: the vector is destroyed as a whole when the function returns, which is
the step `EndBatch`. Until then a connection whose `connectDestroyed` was called is told
DOWN and not yet released. `sender[l]` is a thread between the test of `m_state` in
`TcpConnection::send` and the queueing of the functor. `Alive` is the reference count:
`m_connections`, functors bound to a `shared_ptr`, a sender. `peer` and `inbox` are
the client. `told` is what `m_connectionCallBack` was told.

`removeChannel` keeps the condition of the code: `index != kAdded || index != kDeleted`
holds always, so the entry stays. The functor of `send` is bound to the bare object; on an
object that is gone `RunSend` does nothing, the behaviour being undefined, and
`TargetsAlive` says when that can occur.

### EventLoopThread

`pending` and `running` are the two vectors of `doPendingFunctors`, `eventFd` the counter
of the wakeup descriptor (zero or not), `isQuited`, `calling` and `loopPtr` the
members. `producer[p]` is another thread between the unlock and the wakeup in
`queueInLoop`; `owner` is the thread that starts and destroys the `EventLoopThread`.
Functors run or queue a further functor; a channel callback may queue one as well.
`Returns` is `epoll_wait` coming back for a socket or for its timeout.


### Shutdown

The base thread is `basePc`; `bound` is the functor it is about to queue. A signal may find
it anywhere: `caught` keeps where, and what it holds there stays locked (`LoopLocked` while
it is in `queueInLoop` of a worker, `LogLocked` while it puts out a record). The handler is
`Destroy` for each connection (the body of `~TcpServer`), `Quit` and `Join` for one worker
after another (its member `m_eventLoopThreadPool`), then `g_loop.quit()` and
`LogService::stop`: `Stop` sets the flag, `NotifyOne` notifies without the mutex,
`JoinWriter` waits for the writer. `writer` is where `threadProc` is (`Look`, `Wait`,
`SpuriousWake`, `End`), as in `LogService` when the last record has been written: between
its test and its wait it misses the notify (`missed`), and the join hangs. `stop` ends in
`fclose` of a null pointer and may end the process there. If it returns, `Resumed` says
where the interrupted thread goes on. On another thread than the base thread the assertion
of `~TcpServer` writes a FATAL record (`SignalElsewhere`). A worker whose handler waits for
a database connection that never comes is `Block`. The workers are those of
`EventLoopThread` with quit and wakeup in one step, the connections those of `TcpServer`
without sockets, buffers and descriptors. Clients stay: they are accepted, leave, send wrong
packages and messages to others until their loop is gone.

### Friends

`order` is `m_users` (ids, in the order of the list), `list[a][b]` how often `b` is in
`u_friends` of `a`, `field` the password, the birthday and the rest of the profile in
memory; `table`, `names`, `rows`, `column` are the tables. A handler is `task[l]`: it begins with a command
(`Answer`, `Join`, `Delete`, `Change`, `Create`, `Register`), then does its statement
(`Insert`, `DeleteRows`, `Update`, `InsertUser`, `InsertGroup`), which may fail, and then
its change of memory under `m_mutex` (`Link`, `Unlink`, `Keep`, `Push`). No lock spans the
two, so another loop may come between them. `Start` is `UserManager::init`, the first time
or after the process ended at any point: a user whose relationships cannot be read is kept
without any (`unloaded`). It reads the birthday under the key "u_bithday", which the result
does not have (`UserManager.cpp:141`), and `MResultSet::getInt` answers 0: `Load` sets the
birthday of every user to that. `InsertGroup` writes the row `createGroup` does, with the
name of the group in the column of the password and an empty nickname, and `Push` keeps it
in memory the other way round.

`Answered` is the value `buildFriendRelationship` and `releaseFriendRelationship` return:
`continue` skips the test for completion after the smaller id, so they return 3 when that
is the last of `m_users`. `Answer` may name any id: the packet is not checked against
an application. `Callers` are the ids a session may act under: 0 after a kick, users, groups,
and ids nobody has (`Stray`, see `ChatService`). One DELETE takes all rows of a pair, and one
deletion takes one entry out of each list: `left` counts the entries that stay. `Join` needs `list[me][g] > 0`
as `isFriend` is inverted, so it is members who join, again.

Not in the model, though seen while reading: `g_ownerid`, which no start loads and nobody
reads; `toChangeUserInfo` asks for "u_facetype" and reads "u_faceType" (a client has to send
both); a user may register with a name that is the number of a group. `tables.sql` has
`g_owner_id` where the INSERT of `createGroup` names `g_ownerid`, and lacks the
`u_id2_remarks` that the SELECT of the friends names: against that schema the two
statements fail, always, which the model has as statements that may fail.

### LogService

`buffer` is `m_logBuffer`, `hand` the record the writer has popped, `written` the output.
`writer` is where `threadProc` is; between its tests and its wait it holds `m_mutext`,
which is the state `sleepy` with `Free` false. A FATAL record takes the mutex for good:
`Fatal`, `Drain`, `WriteFatal`, `crash`. `stop` sets `m_isExited` without the mutex and
notifies in a step of its own. After the join it calls `fclose` on a null pointer
(line 73 has the test the wrong way round), which need not return: `closing`.

### LogFile and AsyncLog

`cur`, `nex`, `buffers` are `_curBuffer`, `_nexBuffer` (there or not), `_buffers`; `new1`,
`new2` and `toWrite` belong to the thread. `append` is one critical section, `Swap` the
one of the thread; `Write` gives one buffer to the file, `Refill` keeps two buffers.
`Rotate` is what `append` does with a full buffer. Records are of length 1, or as long as
a buffer. `stop` and `Join` end the process, `Crash` does at any point, and
`Restart` opens the files again with counters at zero.

`Renamed` is `changeLogFileName`, the wrong name it removes included (nothing is
removed; the rename writes over the oldest). `_hadWrittenBytes` is never reset, so the
file rolls with every append after the first roll; after a restart `_logFileCount` starts
at zero again and the first rolls write over ".1" while ".2" stays. The order of what is
left holds all the same (`FilesInOrder`). A record longer than a buffer is dropped without
a word (`dropped`).

### Login

`clientsPerServer` and `gateServerMap` are the two maps of `Session`, with the start of the
gate an address is of; `freed` are deleted `GateServerMsg` objects. `token` and `online` are
the keys in Redis. A request is a record `req[r]` that goes through the remote calls of
`Login` or of `Login2Gate` in their order: each may fail, be done and reported as failed,
or be reported as done though Redis did not answer (an empty answer is taken for a
missing key). `GetGate` picks a gate with the fewest clients and keeps the pointer, which is
used in `Answer`. `Tick` is the clock the digest is made of: two logins of one user in one
second get the same token.

Nobody in `src` but the tests calls `Notify` and `LastSend`: a gate that ends stays
registered. `Admit` keeps the test of `GateService.cpp:84` as it is: a channel is given to
the user whose authentication failed, and refused to the one whose succeeded.

## 3. Runs

Passing:

| Run | Instance | Distinct states | Shows |
|---|---|---|---|
| `pool` | 3 threads, 1 connection at start, 2 at most, 2 commands each, all nine commands | 355,703 | `NoLostWakeup`, refinement of `ConnLease`, `EveryCallReturns` |
| `chat` | 3 connections on 3 loops: u1 online, u2 logs in from two places with the same client type; 2 commands (chat, group) | 3,292,658 | delivery, order, storage, uniqueness, who acts as user 0 |
| `social` | 2 connections; apply, join, answer, delete, status; wrong passwords and wrong packages on c2, where a user or the group logs in; 1 command, 2 logins | 157,347 | `SeenGetsIt` |
| `conn` | 2 connections on 2 workers and the base loop, 2 descriptors, 2 packages, every reaction | 529,749 | `TargetsAlive`, `OrphansOnlyByReset`, `CutOnlyIfOvertaken`, `GoneIsReleased` |
| `reuse` | 3 connections, 2 descriptors | 2,481,356 | refinement of `ConnLife`, EMFILE, and descriptors that are used again |
| `loop` | 2 producers, 4 functors | 3,618 | order, wakeups, quit and join |
| `shutdown` | 2 connections on 2 workers, 1 send between them | 1,756,285 | the end of the process, of the sessions, of the loops and of the log's writer |
| `log` | 4 records, each of which may be FATAL | 876 | order, what a FATAL record overtakes, `stop` |
| `async_log` | 5 records, buffers of 3, 3 files, roll at 2, one restart | 210,612 | the buffers suffice, order over buffers and files, what a stop loses |
| `friends` | 2 loops, 1 user and ids for one more user and one group, 3 commands, one restart | 591,552 | memory against database, mutual friendship, unique names |
| `login` | 2 requests of one user, 2 gates with 2 starts each, 2 instants, one expiry | 1,337,046 | the maps of the gates, the pointer into them, the token of an answer, the online flag |

One run refutes what a message of the code says; it is the finding in `PROJECT.json`:

| Run | Property | What happens |
|---|---|---|
| `friends_error` | `ErrorBuiltNothing` | after a restart the user with the smallest id accepts an application: both lists and the row are written, and "error to build relation" is logged |

The properties of the passing runs are stated around defects and races of the code, and
say exactly how far each one reaches. Each names the one history that leads to the bad
state, and excludes all others:

* `UniqueUnlessOverlap`: two settled sessions of one user and client type only from
  overlapping logins. The search for a clash and the adoption of the identity are two
  critical sections (`ChatSession.cpp:394`, `:408`). The two logins need not ask for the
  same type: a session that has taken its user and not yet its type, which the constructor
  leaves uninitialised or an earlier login left there, may be found and kicked in place of
  the one that clashes.
* `SenderOrder`: what a client sends arrives in the order it was sent. Equal numbers are
  allowed: a group message reaches a client twice when the list names its user twice, or
  when the session becomes that of another member between two snapshots of one fan-out.
* `OfflineConserved`: each copy that had to be stored is in one place. It counts copies and
  not messages: a group that names a member twice stores two copies for one user.
* `OnlyKickedActAsNobody`: a session that was kicked keeps its connection and `m_isLogin`,
  and goes on sending commands as user 0. Nobody else ever acts as user 0.
* `StrandedOnlyByRace`: a stored message waits for an online user only if the handler had
  looked for the user, or had passed the session while looking, before the login took the
  identity, and stored after it had emptied the store.
* `UnwatchedOnlyByReuse`: `removeChannel` never erases its entry (`EPoller.cpp:129`), so
  a descriptor used again on the same loop is not watched; nothing else leaves a
  connection unwatched.
* `CutOnlyIfOvertaken`: `shutdown` closes the writing side only over output that is all
  with the socket (with output pending it never does: `TcpConnection.cpp:240` calls
  `shutdown` where `shutdownInLoop` is meant). What is refused after that (EPIPE, the data is
  dropped) is only a send of another loop that had found the connection up and was on its way
  (`TcpConnection.cpp:64-74`, `:140-153`).
* `JoinReturnsUnlessEarly`: a `quit` between the publication of the loop and its first
  test is forgotten (`EventLoop.cpp:80`), and only then `join` hangs.
* `OrphansOnlyByReset`: the message callback of a session that is gone is called only when
  the client reset the connection with data still unread: `handleEvent` calls the error
  callback, which closes, and then the read callback.
* `SilentOnlyIfTardy`: a session is not told of the shutdown only if its `connectDestroyed`
  was queued while its loop called functors or was about to test `m_isQuited`.
* `SignalEnds`: a signal that finds the base thread in `loop()` and without a mutex ends the
  process, unless a worker had not yet entered its loop, a worker waits for ever for a
  connection of the pool, or the writer of the log missed its notify.
* `StopReturnsUnlessMissed`, `StopLosesOnlyExposed`: what `stop` of the two loggers does
  not do, and when.
* `MemoryMatchesRows`: when no handler runs, memory differs from the tables only by pairs
  half built, or built and released at once; by list entries that a deletion of several rows
  left; by fields two handlers changed at once; and by fields no handler has changed since
  they came to memory as something else than their column: the birthday after a start, the
  profile of a user registered since, the fields of a group made since.
* `GateIsCurrent`: the two maps of `Session` agree, and hold an old address only after a
  restart without `LastSend`. Of a login that holds a pointer while a gate moves it says
  nothing.
* `AsymmetricOnlyHalfBuilt`, `NamesUniqueUnlessOverlap`, `TokenIsStored`,
  `OnlineUnlessUndone`: the histories are the variables marked so in the modules.

A user with two devices who disconnects one is announced as offline to the friends
(`ChatService.cpp:73`); that is how `Disconnected` is modelled, and no property is
about it.

### Bounds, and why they are enough

* `pool`: waiting, barging and a waiter that is overtaken need one thread more than there
  are connections; two connections distinguish "one free" from "all free". Two commands
  per thread let a thread come back for a connection it returned or leaked.
* `chat`: the races are between one sender and one receiver, or two logins of one user;
  two messages are needed for order. The run starts with u1 logged in: how u1 came
  there is what two logins of u2 explore. In `social` u1 may leave, u2 may log in twice, or
  once and the group once, on a session that is logged in already; one command has both
  parties' logins and departures against it.
* `conn` and `reuse`: a release involves the worker of the connection and the base
  loop; the second connection is a sender to the first, or the next owner of its
  descriptor. Two workers put them on different loops; with three connections the third
  returns to the loop of the first. The refinement is checked with three because two
  cannot share a batch of functors and leave one outside. Two packages let a connection be refused or shut
  down after it has output waiting.
* `loop`: one functor in each of `ran`, `running` and `pending`, and one more to come.
* `shutdown`: one worker ends while the other is still at work, and each has a connection
  that may be up, on its way up or on its way down; one send between them.
* `log`: one record in each of `written`, `hand` and `buffer`, and one more, FATAL or not.
* `async_log`: a buffer holds two short records or none that is long, so that five records
  fill more buffers than the two that are ready; three files are the fewest where a
  renamed file is renamed again and one is written over (the code has four).
* `friends`: the races are between two handlers of one pair, one user or one name; a third
  command lets a pair be built, released and built again, or built twice and released. One
  registered user, an id for one more and an id for one group give a pair of users, a user
  and a group, and a new id of either kind; the id of the second user may act before it is
  given out (`Stray`). One restart on tables any of that left behind.
* `login`: two requests are two logins, or a login and a gate's question. A gate that
  starts twice has an old and a new address; a second gate may have fewer clients.

The bounds are constants: `CallBudget`, `MaxCommands`, `MaxLogins`, `MaxRequests`,
`MaxJobs`, `MaxSends`, `MaxRecords`, `MaxRestarts`, `MaxUserId`, `MaxGroupId`, `MaxNow`, `MaxStarts`,
`MaxExpiries`, and each client connection is opened once. `friends` and `login` use
symmetry of loops, requests and gates; they have no liveness properties. Deadlock is not
checked: when the bounds are spent, all clients have gone or the process has crashed,
the system rests, and in `pool` threads that wait for leaked connections are stuck for
good (the theorem `PoolStuckOnlyByLeak` says so).

### Fairness

* `pool`: each thread goes on when it can (`Progress(t)`: resume after a wakeup, end its
  statement, put the connection back). A woken thread may still find the list empty and
  wait again, nothing strong is assumed of the mutex.
* `social`: every loop finishes its handler and empties its queue on every round, a
  queued `forceCloseInLoop` included. Nothing is assumed of clients.
* `conn`: each loop thread runs (`WF(Loop(l))`): poll returns when something is ready, and
  callbacks and functors end.
* `loop`: the threads run. Nothing is assumed of `Returns`, so no property relies on
  the timeout of `epoll_wait` to repair a lost wakeup.
* `shutdown`: the handler goes on where it can, and the workers and the writer of the log
  run; a worker that is blocked in the pool does not. Nothing is assumed of a spurious
  wakeup of the writer, of clients, nor of `epoll_wait` returning without a reason.
* `log`: the writer, a FATAL record and `stop` go on when they can. No spurious wakeup is
  relied on, and nobody need put out a record or call `stop`.
* `async_log`: the thread goes on, also from its wait, which has a timeout
  (`waitForSeconds`). Nobody need append, stop or crash.

## 4. Mutants

Next to the definition it changes, each model has variants marked as mutations: a
dropped notify, a queue filled from the front, a removal that forgets one side, a statement
whose error is not seen. Every property of a passing run fails under the one
`PROJECT.json` pairs it with, in the same instance. They are used by no action.

## 5. Proofs

Every theorem is about the specification with all its constants open; the assumptions are
the named ones of the module. Each begins with an inductive invariant `IInv`, proved one
action at a time, that TLC found to hold in all reachable states of the run first.

`ConnPool_proofs`, for any set of threads, any commands and any bounds, from
`PoolAssumption` and `CommandAssumption`:

* `Invariance`: `Spec => []IInv` with `IInv == TypeOK /\ Ownership /\ WaitersMeanFull /\
  NoLostWakeup`. `NoLostWakeup` alone is not inductive: a thread that goes to wait must
  find the list empty, and one that opens a connection must not meet waiters, which is
  `WaitersMeanFull` (nobody waits before the limit is reached). `Ownership` is needed
  for the bound on the list and for the put, which appends a connection that is not
  there. The arithmetic of woken threads against free connections is in the lemmas
  `AwakeCount` and `AwakeLess`.
* `PoolTypeOK`, `PoolOwnership`, `PoolNoLostWakeup`.
* `PoolStuckOnlyByLeak`: from the invariant; with a waiter, nobody awake and nobody
  working, the limit is reached, the list is empty, and so every connection is lost.
* `PoolImplementsLease`: `Spec => Lease!Spec`. Initial states map to initial states, and
  every step to `Lease`, `Release`, `Forget` or a stutter; `Ownership` gives that what is
  taken from the list was in no hand.

`ChatService_proofs`, for any finite set of connections, any loops, users, groups, friend
lists and credentials, and any numbers of commands and logins, from `ChatAssumption`:

* `ChatInvariance`: `IInv == Base /\ SessionInv /\ PushingInv /\ WaitingInv /\ CopyInv`.
  `Base` is `TypeOK`, `Listed` (the list holds the sessions of live connections) and
  `GoodTasks` (what a task holds in each of its steps). From it alone come the lemmas
  about single steps: what happens to a task (`StepTask`, `SnapshotTask`, ...), to the
  user of a session (`UidSteps`), to a wire (`WireSteps`: untouched, answered, sent to,
  flushed or drained), and to a store (`StoreSteps`). Each part above is proved from those.
* `SessionInv`: a session that is logged in has a user or was kicked (`LoginInv`); and, for
  two sessions, two logins, and a login and a session its search did not find, that one
  user and type is a recorded overlap (`UniqueInv`). The last of the three is the one
  `UniqueUnlessOverlap` does not say: between search and adoption the clash is in no table.
* `PushingInv`: whom a handler will push to is valid or kicked (`PushInv`), and a session
  can be written to by others only after its login is answered, or from the queue of the
  loop that is about to answer it (`AnswerInv`). That answers come first rests on a send
  from another loop going through that queue, which is emptied between handlers.
* `WaitingInv`: what waits for a user, and who is about to store for one, raced with a
  login or has a login still to come to the store (`StrandInv`, `StoringInv`), for which a
  handler in the middle of its search must have found every session of the user it has
  passed, or have raced (`LookingInv`); and, for
  each sender and receiver, the wire is in order, what is handed over is in order and newer,
  and nothing is newer than the command the sender's loop is at (`OrderInv`).
* `CopyInv`: a command is run by one handler and its audience is gone through once
  (`OneHandler`, `AbsentDone`), so a copy that is new is nowhere yet (`NumberedInv`); from
  then on it is in one place (`PlaceInv`).
* `ChatTypeOK`, and each property of the run `chat`: `ChatPushedToSeen`,
  `ChatLoginAnsweredFirst`, `ChatSenderOrder`, `ChatStrandedOnlyByRace`,
  `ChatUniqueUnlessOverlap`, `ChatOfflineConserved`, `ChatOnlyKickedActAsNobody`. The run
  starts with u1 logged in; the theorems start with an empty server.

`Threads_proofs`, of `EventLoopThread`, for any producers and any number of functors, from
`LoopAssumption`:

* `LoopInvariance`: `IInv == TypeOK /\ BatchInCall /\ RunOnceInOrder /\ WakeupPending /\
  QuitPending`. The last two strengthen `NoLostWakeup`: the wakeup must be pending from
  the moment the loop has swapped the vectors, not only while it polls, which is why
  `queueInLoop` wakes a loop that is calling functors (`m_callingPendingFunctors`).
* `LoopTypeCorrect`, `LoopRunOnceInOrder`, `LoopNoLostWakeup`.

`Threads_proofs`, of `LogService`, for any number of records and any of them FATAL, from `LogAssumption`:

* `LogInvariance`; `LogTypeOK`; `LogWrittenOnceInOrder`; `LogCrashLosesOnlyHand`: what a
  FATAL record leaves unwritten is at most the record in the writer's hand;
  `LogSleepsOnlyByMissed`: a writer asleep over a record or over `stop` missed a notify.

`AsyncLog_proofs`, for any records, buffers, files and restarts, from `FileAssumption` and
`AsyncAssumption`:

* `AsyncInvariance`: `IInv == FileOK /\ OwnOK /\ NextGoneOnlyIfAside /\ BuffersSuffice`;
  `AsyncTypeOK`; `AsyncBuffersSuffice`: the thread finds the buffers it takes. What is
  missing from `new1`, `new2`, `_curBuffer` and `_nexBuffer` must be among the buffers to
  be written, which `NextGoneOnlyIfAside` says of `_nexBuffer`.
* `AsyncAgreement`: `Spec => []Agree` on top of that, with `Agree == OrderInv /\ Emptied /\
  StopInv`. `OrderInv` says of the queue of buffers (those left by the exchange, those put
  aside, the current one) that it is in order, younger than what was written and than every
  file, and together with what was written all that this process was asked to append. Each
  action is then an operation on that queue: `append` extends its last buffer or adds one,
  the exchange adds an empty buffer and changes nothing else, a write takes the first. A
  renamed file stays older than those below it. `StopInv` follows the records that `stop`
  finds: those the thread has, and those it will come for, since it is at or in its wait.
* `AsyncWrittenOnceInOrder`, `AsyncStopLosesOnlyExposed`, `AsyncFilesInOrder`. They say of
  positions (`InOrder`) what is usually said of concatenations; the recursion over the
  data is not needed, and would be out of the prover's reach.

`Friends_proofs`, for any users, groups, loops and bounds, from `FriendsAssumption`:

* `FriendsInvariance`: `IInv == TypeOK /\ ListsOfKnown /\ AsymmetricOnlyHalfBuilt`;
  `FriendsTypeOK`; `FriendsMutual`: friendship in memory is mutual but for the histories
  `AsymmetricOnlyHalfBuilt` names. `ListsOfKnown` (who is in a list is in `m_users`, or
  was read from the table) is what a `Link` needs to reach both sides.
* `FriendsAgreement`: `Spec => []Agree`, a second invariant on top of the first, with
  `Agree == TablesOK /\ IdsGiven /\ NewcomersOwned /\ NamesInv /\ RowsInv /\ FieldsInv`. The
  properties speak of states without handlers; `Agree` says of the others how far each
  handler has come. What a list lacks of the rows is as many friends as handlers are on
  their way to link (`Settled`); a row that is gone and still in a list has one handler on
  its way to unlink it, as long as nobody crossed it (`Deleted`). A user in the table and
  not in `m_users` is the newcomer of one handler. Who looked for a name and found it free
  either registers alone, or shares the name with a handler that makes them twins. A field
  differs from its column only while one handler is about to keep it, or as what it came to
  memory as, while nobody has written it (`Unwritten`). `Settled` and `Deleted` count the
  entries in `left` with the rows.
* `FriendsMemoryMatches`, `FriendsNamesUnique`: the two properties, from `Agree` when
  every handler is idle. `FriendsAssumption` says for them that the first table has no two
  users of one name, as registrations one after the other leave it, and that the loops are
  finitely many, since `Settled` counts them.

`Login_proofs`, for any requests, users, gates and bounds, from `LoginAssumption`:

* `LoginInvariance`: `IInv == TypeOK /\ SessionInv /\ AuthHoldsNone /\ GateIsCurrent /\
  FreedOnlyInBetween /\ TokenIsStored /\ OnlineUnlessUndone`, and one theorem for each
  property of the run. `SessionInv` ties the two maps of `Session` to each other,
  `AuthHoldsNone` says that only a `Login` holds a pointer.

`Shutdown_proofs`, for any connections and workers, from `ShutdownAssumption`:

* `ShutdownInvariance`: `IInv == ServerTypeOK /\ Sessions /\ QuitAfterDestroy /\ BoundOK`;
  the types of the writer and of `missed` are added on top.
  `Sessions` follows a connection that is up and no longer in `m_connections` to the
  `connectDestroyed` that takes it down: in the batch its loop is calling, or in the queue
  of a loop that has yet to look, unless `~TcpServer` came too late (`tardy`). For that,
  `connectEstablished` must come before `connectDestroyed` in queue and batch. `BoundOK`
  is about the functor the base thread holds when the signal finds it, also within the
  critical section of `queueInLoop`.
* `ShutdownTypeOK`, `ShutdownSilentOnlyIfTardy`, `ShutdownEndedLoopsUnreachable`.

`TcpServer_proofs`, for any connections, descriptors and worker loops, and any of the
reactions of the message callback, from `ServerAssumption`:

* `TcpInvariance`: `IInv == ServerTypeOK /\ Lifetime /\ ChannelInv /\ FdInv /\ ResetInv`.
  `Lifetime` is about objects: what was told is what `m_state` says (`ToldIsState`), a
  connection that was not accepted is nowhere (`Unborn`), one that is not down is in
  `m_connections` (`Held`), a functor in a queue says how far its connection has come
  (`QueuesKnow`), callbacks and functors have their part of the round (`Rounds`), a channel
  about to be called belongs to a connection the server holds or whose `connectDestroyed`
  still waits behind the callbacks (`ActiveHeld`), and every bare `send` stands in front of
  that `connectDestroyed` (`SendsFirst`). `ChannelInv` is about the poller: events, index and
  output buffer follow the state (`Follows`), and an entry of the table is a channel that
  was added under its descriptor (`Entries`). `FdInv`: live connections have different
  descriptors, and one that is up and not watched met the entry of a dead one. `ResetInv`:
  an error, or data of a session that is down, is a reset.
* Why so much of it: `TargetsAlive` needs the whole of `Lifetime`. That a called object is
  alive rests on the removal going round over the base loop and coming back as a functor
  behind everything queued before; that is an order between two queues and the vector
  being called, and not a statement about the state of one connection.
* The argument: what a callback or a functor does is one of a few bodies (`handleClose`,
  `sendInLoop`, `shutdown`, the message callback, ...), each shown once to keep the channel of its
  connection in step and to queue only what `QueuesKnow` allows; `ServesKeeps` then takes
  the invariant over any step that serves one connection. Accepting, polling, taking and
  ending a batch, and queueing a send are proved on their own.
* `TcpTypeOK`, `TcpTargetsAlive`, `TcpOrphansOnlyByReset`, `TcpCutOnlyIfOvertaken`,
  `TcpUnwatchedOnlyByReuse`: each property of `conn` and `reuse` that is no liveness.
* `TcpImplementsLife`: `Spec => Life!Spec`. Every step is `Up`, `Down`, a release or a
  stutter of `ConnLife`, for any number of connections. A proof of this with telling and
  release in one step fails: the last functor of a batch would tell one connection and
  release another, which no step of `ConnLife` does, and which `TLC` finds with three
  connections. The code releases after the last call, hence `EndBatch`.

Only model-checked:

* liveness: `EveryCallReturns`, `SeenGetsIt`, `GoneIsReleased`,
  `QueuedIsCalled`, `JoinReturnsUnlessEarly`, `SignalEnds`, `LoggedIsWritten`,
  `StopReturnsUnlessMissed`, `AppendedIsWritten`. TLAPS does not prove liveness under
  fairness;
* what the refuting run shows.

## 6. Not modelled

* Timers: `TimerQueue` stores and runs none.
* `Connector`, `TcpClient`: no program uses them, and `retry` schedules nothing.
  `HalfClose` takes `shutdown` from there.
* A server without workers (`Workers # <<>>` is assumed), a second signal while the first
  is handled, a signal that finds the base thread inside a critical section of its own queue
  or of the allocator, and the order in which `Main.cpp` reads its configuration and starts the parts.
* High water mark and write complete callbacks: never set.
* Parsing, formatting, buffers, sockets, configuration, time: sequential or system calls.
* Teams and remarks of friends, and the contents `saveChatMsg2DB` stores.
* After `~TcpServer`, a functor of the base loop that is bound to it: undefined; `Shutdown`
  ends there in `undefined`.
* The read of `m_loopPtr` without the mutex in the destructor of `EventLoopThread`
  (`EventLoopThread.cpp:31`): it meets a write only if somebody else quits the loop of a
  worker, and nobody does.
* `LogService`: files are not rolled (`LogService.cpp:59` switches it off).
* `server/`: `Register` of `LoginService`, `RedisPool` and `MySqlPool` of the database
  proxy (the algorithm is that of `ConnPool`), `MySqlService`; `RouteServer`,
  `BusinessSession` and `server/IMServer`, whose handlers log and answer ("TODO");
  `Logging`, `ConfigParse` and `Time` of `base`.
* Interface files of the brpc services and third-party libraries. Of the lines under
  `src`, about two thirds are the copy of rapidjson in `server1/thirdparty`, so the mapped
  lines are a small share of the whole and a large one of what the repository's authors
  wrote with state.

## 7. What is left

* The length prefixes of `BinaryStream` and the framing of `onRead`, as functions checked
  against a reference definition.
* `SeenGetsIt` and the other liveness properties stay with TLC, on the
  instances of the runs.
