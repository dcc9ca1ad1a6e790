# LdpLocation: a TLA+ model of the location query service

LdpLocation is a multi-threaded HTTP service. Clients ask for the location of a
mobile number; every request is paid from an *order* that the user has bought at
DataHub, a remote marketplace. Orders, counters, tokens and cached answers are
in Redis. This directory holds TLA+ models of the program, TLC configurations
for small instances, and TLAPS proofs for all instances.

## 1. The system

| Component | State | Operations | Talks to |
|---|---|---|---|
| Server thread (`UserQueryServer`) | epoll interest list, `m_mpSocketTask` (descriptor -> task) | accept, read event, `PutTask`, `GetFreeTask` | worker queues (mutex), status queues (no lock), kernel |
| Worker threads (`UserQueryWorkThreads`) | task queue + mutex + condition, status queue, counters, hive-log queue, a Redis adapter | take a task, run it under the mutex, push a status | server, Redis, DataHub, operator's API |
| `Lock` | pthread mutex, condition | lock, trylock, wait, notify | |
| Task (`TaskMain`) | request, locals, `g_strDataHubToken` | check tokens, choose/load/check/charge/close the order, look up the cache, ask the operator, reply | Redis, DataHub, operator |
| Call to DataHub (`BdxGetDatafromDataHub`, `TcpSocket`) | `InitSSLFlag` and a mutex, one socket and SSL objects per call | connect, initialise OpenSSL once, write, read, destroy | DataHub |
| Update thread (`UserQueryUpdate`) | last date, members to report | once a day report every open order | Redis, DataHub |
| Redis client (`redisCommon`) | `context_`, selected data base, `lock_` | `KeepConnect`, one command per call, `DisConnect` | Redis |
| Statistics (`UserQueryCount`) | sums, daily report file | every interval add up and clear the workers' counters, write them | workers (no lock) |
| Hive log (`UserQueryHiveLog`) | hourly file | drain the workers' log queues | workers (no lock) |
| Log (`CLog`) | file of the day, mutex | write a line; new directory and file when the day changes | all threads |
| Main, `Conf`, `Thread` | settings, static vectors of queues, thread table | read the file section by section; make and start the threads one by one | all |
| `UrlEncode`, `Base64`, parameters | none | encode, decode, split a query string | tasks |

What is hard here: the server and a worker share a queue through a *try*lock,
and the mutex is held for as long as a request runs; descriptors name tasks and
are reused by the kernel; status queues, counters, hive records and a global
token are shared with no lock at all; threads run while the vectors they index
still grow; no lock spans two Redis commands, so an order is loaded, checked and
charged by several workers and the update thread at once; Redis commands,
DataHub calls, file operations and `pthread_create` fail, some of them after they
took effect; the process may die between any two steps while Redis and the disk
stay as they are.

What makes each part correct:

* dispatch: no two threads on one socket, no lost wakeup, no task used after it
  was deleted, none forgotten, the server never blocked by a worker;
* orders: charged to the right item, overdrawn by a bounded amount, never billed
  beyond what was served, not lost between DataHub and Redis;
* requests: nobody served without a token DataHub accepted, replaced tokens
  forgotten in the end, cached answers that fit and parse, no socket lost;
* DataHub call: OpenSSL initialised once and before use, no descriptor lost, calls
  that return;
* Redis client: the right data base, no call counted twice, recovery after every
  kind of failure, calls that return;
* reports and logs: no count reported twice or lost without cause, records in
  order, lines in the file of their day, no use of a closed stream, a process
  that dies only for a reason one can name;
* start: settings from their own section, an end to reading them, entries in every
  vector before a thread uses them, each thread in its own routine.

## 2. Modules

| Module | Models | Built on |
|---|---|---|
| `Dispatch` | server thread, worker threads, lock, task and socket life | |
| `ConnLife` | abstract life of one connection; `Dispatch` implements it | |
| `OrderQuota` | a user's orders: workers, update thread, Redis keys, DataHub | |
| `RedisClient` | `CDataAdapter`/`CDataRedis`/hiredis against a failing server | |
| `TaskRequest` | a request from its bytes to the reply; tokens, cache, operator | |
| `HubCall` | the call to DataHub over TLS, in workers and update thread | |
| `DayFiles` | clock, directories, files, descriptors and the process | |
| `LogFile`, `StatsReport`, `HiveLog` | the three parts that write files | `DayFiles` |
| `Reporting` | the three in one process that dies and restarts | all four |
| `ConfigLoad` | `BdxInitConfig` and its getters | |
| `Startup` | `UserQueryMainCore`, `AdWorkInit`, `CThreads` | |
| `StatusQueue` | the `std::deque` between a worker and the server, word by word | |
| `Conversions` | URL and base64 coding, query strings, expiry in 32 bits | |
| `Main` | load, then start, then run: the four above in one process | all four |
| `MCDispatch`, `MCOrderQuota`, `MCReporting`, `MCMain` | values, symmetry and restrictions for TLC | |
| `DispatchProofs`, `OrderQuotaProofs`, `RedisClientProofs`, `HubCallProofs`, `TaskRequestProofs`, `ReportingProofs`, `MainProofs` | theorems about the module of that name; `DispatchProofs` also that `Dispatch` implements `ConnLife` | |
| `ConversionsProofs` | the conversions on texts of every length | `Conversions` |

Definitions named *Faulty variant* (`BadKey`, `PatientPing`, ...) are not part of
any specification. Each is a plausible mistake in the definition that follows it,
and putting it in that definition's place makes TLC refute the property it is
paired with in `PROJECT.json`: they show that the properties can fail.

### Dispatch

A step is what a thread does between two points at which another thread can
interfere. `srvPc` is "free" in `BdxServerGetFreeTask`, "wait" at `epoll_wait`,
"event" in the event loop, "put"/"push" in `BdxServerPutTask`. `workPc` is "lock"
at `MutexLock`, "check" at the test of the queue, "wait" in `MutexWait`, "serve"
and "reply" in `BdxRunTask`, "unlock" after it, "hung" in an endless
`TcpSslReadLen`. `owner[w]` is the worker's mutex. A task is named by its
descriptor. `peer` is what the kernel knows of a client socket; clients may send,
close and reset at any time. A task that the server deletes leaves its descriptor
open ("leaked"), for `~CUserQueryTask` does not delete the socket. Requests and
replies have no content here: a request is served or refused, a reply is written
or not. `pthread_cond_wait` may wake up for no reason. Two branches of the code
("can not find ... Task") are in the model and never taken: `TasksAccounted` is
the reason. `OTHERERROR` of `PutTask` needs a trylock that fails otherwise than
with `EBUSY`, which an initialised mutex never does.

Two things are taken as atomic that are not so in C++: push and pop on the status
queue, which the server does without a lock, and the server's handling of one
status. `StatusQueue` justifies the first, up to the one race it shows.

### OrderQuota

One user. `orderid` is the sorted set `<user>#orderid`; an order's id is its
score too. A key is an item (repository and item) and a subscription id. Each
Redis command and each DataHub call is a step. `list` are the orders of a
`BdxApiGetUserOrder` answer that remain to be loaded (in any order). `Write` and
`Get` fail when `RedisFaults` is TRUE, since the code ignores the result of
writes and takes a failed read for a missing key. A failed DataHub call may have
taken effect. `Crash` ends all threads and keeps Redis and DataHub. The tokens
and parameters before the order, and the search for the location after it, are
reduced to `Request` and `Serve`; `TaskRequest` has them. `served` is a history
variable.

### RedisClient

One connection per client. A call goes through "connect", "select", "ping",
"send", "read". The server stops, starts, refuses commands while it loads its
data, closes connections, or the network is lost. Two operations dereference a
`NULL` reply and kill the process (`Dies`). An adapter whose `Init` failed has a
mutex that was never initialised: locking it may work or block. `counter`,
`calls`, `acked` and `failed` are for the properties.

### TaskRequest

One action per Redis command, DataHub call, socket operation or assignment to
`g_strDataHubToken` in `BdxRunTask`/`BdxGetHttpPacket`. A query has a type (1 here,
2 info, 3 nearby), a place and an Id; `Md5Key` is the cache key the code makes of
it, `Asked` what the operator is asked. Redis reads may return nothing and writes
may get lost. DataHub may replace a user's token at any time; keys in Redis
expire. Assigning the `std::string` is two steps (`GSet`, `GSetEnd`): another
thread in between reads garbage, or the process ends. The choice and the charge of
an order are `OrderQuota`'s, a DataHub call is one step here and `HubCall` there.

### HubCall

Callers are the workers and the update thread, which has its own copy of the
function but the same flag and mutex. `TcpConnect` fails or the TLS handshake
does: `ConnectFails` then destroys SSL objects that were never made (the process
may end) and loses the descriptor. `SslRead` and `SslReadAgain` are the loop of
`TcpSslReadLen`: `SSL_ERROR_ZERO_RETURN` and `SSL_ERROR_WANT_READ` (the socket's
one-second timeout) both go round again.

### DayFiles, LogFile, StatsReport, HiveLog, Reporting

The clock counts hours. `Fopen` gives `NULL` when the directory of the day is
missing or the descriptors are used up; using `NULL` ends the process (`Dies`).
`CLog` makes a day's directory when a line is logged; the constructors of the
report and the hive log make that of the day they run on, their loops do not.

`LogFile` follows `write_d`: lock, `LogCreatLogDir`, write, unlock, and after a
failed write the `fclose` that comes when the mutex was already released.
`StatsReport` splits `m_strUserInfo[name].x++` into finding the element and
incrementing it, since the report thread's `clear()` may come between. `HiveLog`
opens the file on every pass and closes the stream before only when the file of
the hour is new. `Reporting` constructs the three in the order of
`UserQueryMainCore`, and `Restart` starts the program again on the files that
are there.

### ConfigLoad, Startup, StatusQueue, Conversions, Main

A file is a sequence of lines, each what `CConf` makes of it: a section, a key
with a value, or neither. `section` is `szSection`, through which one getter hands
the next section to the loop. `URLS` values are groups of fields, five to an entry.

`Startup` appends each worker's entries to the four static vectors and models the
growth of `m_vecTaskBuf` as freeing the old storage and then replacing the pointer,
while started workers load the pointer and then the element; a worker that uses
freed storage is "wild" and stays so. `CreateThead` may fail; `m_fpFun` then keeps
its value.

`StatusQueue` has the map, the nodes and the two iterators of the `std::deque`;
each pointer store is a step, in the order of libstdc++'s `push_back`,
`_M_reallocate_map` and `pop_front`. Reordering by the compiler is left out
because the makefile builds without optimisation, and x86 keeps the order of
stores and of loads. Those steps are external code and marked so.

`Conversions` gives `url_encode`, `url_decode`, `base64_encode`, `base64_decode`,
the splitting of a query string and the `int32_t` of an order's time to live as
functions on bytes and numbers; numbers are counted in units of 128 seconds so
that 2^32 seconds fit TLC's integers (86400 and 2^31 are multiples of 128, so no
value is rounded).

## 3. Runs

| Run | Instance | Distinct states | Shows |
|---|---|---|---|
| `dispatch` | 2 workers, 2 descriptors, 2 events | 141 thousand | locking, hand-over, bookkeeping; implements `ConnLife` |
| `dispatch_live` | 2 workers, 2 descriptors | 281 thousand | polling, queued tasks run, closed connections released |
| `order_quota` | 2 workers, 1 order of 1 unit, 4 requests, failures, crashes | 3.5 million | bounded overdraft, never overbilled |
| `order_items` | 2 workers, 2 orders of 2 items, 2 requests, crashes | 184 thousand | right item, no order lost |
| `order_delete` | 2 orders of one item | | violated: the wrong order is deleted |
| `order_reload` | 1 order, no Redis failure | | violated: a second load wipes the count |
| `redis_client` | 1 client, 3 increments | 11 thousand | data base, exact counts, one failure, calls return |
| `reporting` | 1 worker, 2 logging threads, 2 users, 2 hours, 4 descriptors, faults, a restart | 1.3 million | causes of death, log stream and mutex, day of a line, open streams, counts, records in order |
| `hub_call` | 3 callers, 4 descriptors, 2 failed connections | 86 thousand | initialised once, descriptors accounted for, calls return |
| `hub_closed` | 1 caller | | violated: a closed connection is read for ever |
| `task_request` | 1 worker and the update thread, 1 user, 2 tokens, 2 query types, Redis faults | 387 thousand | verified users, issued tokens, cache, sockets, replaced tokens forgotten |
| `main` | files of up to 4 lines, 4 workers, failing threads, 9 statuses in nodes of 2, all bytes | 370 thousand | settings, start, status queue, conversions |

Bounds. Two workers are needed for every race between workers. Two connections
can be queued for one worker, run by two, and meet in the status queues; a
connection is refused (`PutNoFree`) when the workers are busy, hung, or just
testing their queues. With `EVENT` at 2 for two descriptors and the listener the
event array fills up. One unit per order puts the limit within reach of the first
request; four requests let two workers load, overdraw, reload and settle it.

A Redis client shares nothing with another but the server, so one is enough, and
the theorems are for any number. Three callers of DataHub are two waiting for a
third at the mutex. In `task_request` the races that count are between a worker
and Redis, DataHub or the update thread; one worker is what five minutes allow
with failing commands, and any number of them is what `TaskRequestProofs` is for.

`MCReporting` adds `busy`: in a behaviour one of the three parts has work, while
the others' threads run and open their files. Faults of the disk come with the
log, restarts with the hive log. `HoursPerDay` is 1, so that each new hour is a new
day, the case with a new directory; four descriptors are one for each part and
one to leak. In `MCMain` threads are started only for the file that gives `NUM`,
at most one thread or all fail, and statuses and conversions, which share nothing,
are not mixed. Four workers make `m_vecTaskBuf` grow twice with workers running
(at 1 and at 2 elements), and it is full again when the last is in. Nodes of two
statuses and a map of five make nine statuses cross nodes and move the map (64
and 8 in the program). Texts are every byte alone and short texts over the
characters with a meaning and the ends of the range; days are those around each
multiple of 2^31 seconds.

Descriptors, workers, threads and users are interchangeable where a run says
`SYMMETRY`; no run with a liveness property uses it. Deadlock is not checked in
`reporting`, `hub_call`, `hub_closed`, `task_request` and `main`: there the process
may end, and counters reach their bounds. It is in the others.

Fairness. Threads are created once and never cancelled, so a thread that can step
does: weak fairness of the server, of each worker, client and caller, of a push
that began and of the server's loop over the status queue. The mutex of the
DataHub call is strongly fair (`SF` on `Lock`): glibc does not promise it, but a
caller holds it for a few instructions and then spends seconds on the network.
Redis drops a key whose time has come. Nothing is assumed of users, of spurious
wakeups, of the Redis server, DataHub or the network, but that the reset provoked
by writing to a closed connection arrives. `TaskHangs` is a worker step, so the
liveness properties of `Dispatch` hold with hung workers; `Stuck(f)` is the
exception they state. `CallReturns` of `RedisClient` is conditional on the network
not being lost for ever, since commands have no time limit; that of `HubCall` on
a peer that answers or breaks the connection. That reading the configuration ends
is stated without fairness: `LoadProgress` says that each step leaves less to do.

## 4. Findings

With a run that shows them:

* `TaskMain.cpp:543-546`: of two workers closing an order the second deletes the
  next order, unused and marked retrieved at DataHub (`order_delete`). It takes a
  second order: `DeletesTheOnlyOrder`.
* `TaskMain.cpp:470`: loading an order twice resets its count; it then serves more
  than its quota (`order_reload`). What is *counted* stays bounded,
  `QuotaOvershoot`, and the second load is the only way past the limit:
  `QuotaKeptWithoutReload`.
* `TcpSocket.cpp:817-819`: "nread=0;//ret 0", but the function does not return when
  the peer closes: it reads for ever (`hub_closed`).

Seen while modelling, and part of the models:

* `UserQueryServer.cpp:96`: "-5:no free thread" is also returned while an idle
  worker holds its mutex to test its queue; the connection is dropped and leaks.
* `TaskMain.cpp:476-478`: the order whose `set_retrieved` failed is not the one
  that is removed; the lowest one is.
* `TaskMain.cpp:633,645`: answers of types 1 and 3 are kept under the same key.
* `UserQueryHiveLog.cpp:93`: of the last hour's streams only the last one is closed.
* `UserQueryMain.cpp:137`: a section without a getter, such as `[MYSQLSERVER]`, keeps
  the program from starting; the loop tests it for ever.
* `UserQueryMain.cpp:71`: "start work threads ok." is logged whatever `CreateThead`
  did; connections queued for a worker without a thread are never served.
* `TaskMain.cpp:471`: an order of 24856 to 49710 days never expires, one of 49711
  days in less than a day.

## 5. Proofs

All theorems are for arbitrary constants satisfying the named `ASSUME`s: a
positive number of workers, any set of descriptors not holding the two special
values, any finite set of workers and any orders with natural ids and quotas, any
set of clients, any finite set of callers with a descriptor for each, a `NULL` that
is no file, nodes and a map of at least one entry, texts of any length whose bytes
are bytes, any queries, files whose lines of `URLS` complete their last entry (what a
line that does not leaves in a reused buffer is not modelled). Every `TypeOK` is proved; those
of `Dispatch`, `OrderQuota`, `RedisClient` and `HubCall` are theorems only and not
part of their runs, and so are `LiveTaskOpen` and `OnlyFailuresKill`. The theorems
are about `Spec` of the component; the restrictions of an MC module are not in them.
Each inductive invariant was checked by TLC on the run's instance before it was
proved.

*Dispatch.* `TypeInv = TypeOK /\ Control`: `Control` ties the program counters to
what the threads hold, and the pending events to the interest list, without which
`ReadEvent` could take a descriptor that is already queued. `LockInv` (mutex
ownership and no lost wakeup) is inductive over it: the worker tests its queue
and goes to sleep under the mutex the server pushes under; `MutexHeld` follows.
`PlaceInv = OnePlace /\ TasksAccounted /\ LiveTaskOpen` has to be proved as a
whole: a connection moves from place to place only because the map, the places
and the open descriptors agree. The lemmas `PushSeq`, `PopSeq` say what a push or
a pop does to a family of queues, `PushPlaces`, `TakePlaces`, `ReplyPlaces`,
`PopPlaces` how each step moves one connection.

*Refinement.* `Stage` maps the threads' state to `ConnLife`. Each step moves at
most one connection one stage, or stutters; `RoomToRun` shows that a worker that
takes a task leaves fewer than N running before.

*OrderQuota.* `Ledger` follows every count from where it was read: what a thread
holds, what Redis holds and what DataHub was told are each at most `served`
(`NeverOverbilled`), and a worker past the checks has an order with keys of its
item (`ChargedToItem`). For `QuotaOvershoot` the bound must account for workers
between check and increment: `Bounded` says the count plus the workers past the
check, where one exists, stays within the units plus the other workers.
`StoredSoFar` lists what is in Redis at each point of the load, for
`RetrievedIsStored`; it needs Redis without failures, as the property says.
Three theorems say how far the two findings about orders go. By the same bound no
step replies on an order whose count stands at the bound (`RepliesWhileOpen`). When
no step sets a count back (`NotReloaded`, a hypothesis about the behaviour) and Redis
does not fail, what was served is what was counted (`AllCounted`), hence within the
quota. And `DeletesItsOrder` holds for a user with one order.

*RedisClient.* `ClientInv = TypeOK /\ Linked /\ Counting /\ Recovered`: a
connection that survives a call has the right data base; counts differ from
acknowledgements only by the call in progress; a client that failed on a healthy
server has no connection left.

*HubCall.* The type of `fds` and the accounting need each other: a descriptor is
closed only by a call in progress, so `fds` stays natural only because
`FdsAccounted` holds, and `FdInv` has both. `SslReady` needs who holds the mutex
(`MutexInv`) and that the flag is set exactly when the one initialisation has run,
or is about to be recorded by the holder (`FlagInv`).

*TaskRequest.* A request takes many steps, and each part needs what a worker
carries from one to a later one. `RequestInv`: past "idle" a worker has a request.
`GateInv`: the gateway's token a worker fetched and has not assigned yet was issued,
and so is the one in `g_strDataHubToken` while no two threads met in it; then
`SettledWithIssued` follows, for any number of workers. `AnswerInv`: an answer is
kept under the key of the query it answers, and the answer a worker carries to the
store is the operator's to its own request; this is what makes `CacheUsable` hold
although a worker reads the cache long before another writes it. `SocketsAccounted`
is inductive with the types once the waiting workers are counted (`WaitBegins`,
`WaitEnds`).

*Reporting.* The three parts meet in few variables, so each has an invariant of its
own and `LogChanges`, `StatsChange` and their like say which steps touch it.
`LogInv` is `LogGuarded` with what the closing thread still holds. `FdsInv` counts
the streams and needs to know which part was constructed; `DirsInv` that every open
file lies in a directory that exists. `CauseInv` follows every `NULL` stream back to
its cause, for `DeathExplained`. `DayInv` says which day's file is open between the
test of the day and the write. `CountInv` is the sum behind `CountsReported`: written,
added up, and in the workers' maps, less what is in two places between adding and
clearing. The workers' share is the cardinality of a set with one element per count
(`Tally`), so that no sum over the workers is needed; `HeapGrows`, `HeapShrinks` and
the lemmas around them say how one worker's change changes it. `SettledInv` counts
requests in flight. `HiveInv` has `InOrder`, which survives a restart, and `NoneLost` has
`Exact`, which holds until the process dies.

*Main, start.* `MakeInv` gives the length of each vector at each place of
`UserQueryMainCore`; `GrowInv` says that the pointer names freed storage only during
the growth; `RoutineInv` which threads there are and what runs next; `ReadInv` that a
worker holds a pointer to freed storage only if it was in the vector when it grew.
The capacities are defined without recursion, as the least set with 1 that is closed
under doubling (`Capacities`), so the argument is for any number of workers.

*Main, status queue.* Nodes are numbered as they are allocated, hence a slot's place
gives the number of the status that belongs there (`Number`). `PushInv` says that
finish is behind the last whole status at each step of a push, `TakeInv` that the
server has taken exactly the statuses before start, `MapInv` that the entries of the
map from start to finish are consecutive nodes, also half way through a move or a
change of node, and `SlotInv` that what waits between the two is in its slot. The
one case they exclude is recorded in `raced`: `Crossing => ~Moving` is part of
`TakeInv`, and the only steps that can break it, `Move` and `Pop`, set `raced`.
`MoveFits` is the arithmetic of `_M_reallocate_map`.

*Main, configuration.* `FileInv`: `szSection` is the header above the line read last
and is empty only at the end, and each setting has its value from the last line so
far that gives it. `ApisInv` says the same of the table of APIs: it is the table of
the groups in the lines of `URLS` read so far (`TableOf`). One line more is an
insertion after the other (`AddApis`), which comes to keeping the old entries of
other hosts and adding the last of each host (`AddApisAre`, `TableNext`); and the
fields, counted in fives over all groups of a line, fall where the groups do
(`EntriesAre`). Two hypotheses are needed, and TLC's files satisfy both. A header `[]`
would end the loop early, so `ConfIsFromFile` asks for named headers
(`NamedSections`); a section without a getter is tested for ever, so
`LoadAlwaysProgresses` asks for known ones (`KnownSections`).

*Conversions.* These are recursive functions over texts, and the provers cannot use a
theorem of induction. Each argument is therefore by a least counterexample: a set of
lengths or positions that is not empty has a least member (`LeastOf`; `LastIn` for
the greatest), and the step before it is right. That a recursive function exists and
satisfies its equation is proved first in the same way (`FlattenExists`,
`DecodeExists`).
`UrlRoundTrip`: `url_decode` reads a prefix of its text into a prefix of its output,
and an encoded byte is one that `DecodeAt` takes whole (`EncodeCharFacts`,
`DecodePlain`, `HexRoundTrip`). `DecodeIsFit` bounds the output by the text, which is
why the caller's buffer is long enough.
`Base64RoundTrip`: the text falls into groups of three bytes with a last one of one
or two, the encoding into groups of four (`GroupsJoin`, `EncodedGroups`), the pads
are those of the last group (`CutEncoded`), and a group comes back whole
(`GroupRoundTrip`, with the shifts and masks as arithmetic). `Base64OfText` states the
encoding bit by bit: code k has the bits 6k to 6k + 5 of the text.
`ParamKept` counts the tokens of a query whose parts all have two; `ExpiryFits` is the
arithmetic of days in an `int32_t`. `ConvInv` ties the result to the call, and
`ConversionsAreRight` has all five.

*Not proved.* Liveness under fairness (`ServerKeepsPolling`, `QueuedIsRun`,
`GoneIsReleased`, both `CallReturns`, `RevokedForgotten`, `StatusTaken`) is beyond the
prover and only model-checked, and so are the three counterexamples. Every invariant
of a passing run is a theorem.

## 6. Plan

Done: all parts that keep state and run, and a theorem for every invariant of a
passing run. Next:

1. More action properties as theorems, after those of `OrderQuota`: what a step of
   `RedisClient` may never undo.
2. `OrderQuota` and `TaskRequest` composed, with the request's order in both.

## 7. Not modelled

* HTML mail and monitoring in `UserQueryUpdate` (366-644, never called), with the
  base64 of mails; MySQL, UDP and `update_adapter` (unused); Redis operations
  without callers.
* The choice of a shard: one server is configured. `UserPutOrderSet` shards by
  score and `UserGetSortedSet` by key, which would not survive a second server.
* A request that arrives in several segments: `TcpRead` reads once, and a request
  is here read whole or refused.
* MD5, the stop watch, the texts of JSON, HTTP and log lines.
* Whether the update thread should settle an order that is used up *and* expired
  (`UserQueryUpdate.cpp:745`) where the workers take *or*: modelled as written.
* The options of `main`, and `BdxPrintConfig`.
* The headers below `include/` (MySQL, JSON, hiredis, OpenSSL) are other projects'
  and about two thirds of the repository's 27,800 lines. The program's own sources
  have some 8,000 lines; the models stand for about 3,300 of them, and the rest is
  the unused code above, the parts named in this list, logging, includes and
  declarations.
