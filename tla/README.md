# TLA+ verification of envoxy

envoxy is a Python framework for microservices on uWSGI: it gives a service
clients for ZeroMQ, PostgreSQL, MQTT, CouchDB, Redis and Celery, an ORM layer, a
response cache, and a bootstrap (`envoxyd`) with a systemd watchdog. Services
call these clients from many threads, so the parts worth a model first are those
in which threads, library threads and remote peers share state: the worker pool
of the ZeroMQ client, the PostgreSQL connection pool, the MQTT connector with its
callbacks, and the watchdog. The rest has less concurrency and other hazards:
check-then-act without a lock, operations of which one half fails, retries, the
many ways a process starts, and conversions with boundaries.

Paths below are relative to `src/` of the repository's copy; `envoxy/` stands for
`src/src/envoxy/`.

## 1. The system

### Components

| Component | Source | State | Operations |
|---|---|---|---|
| ZeroMQ client | `envoxy/zeromq/dispatcher.py` | queue of worker identifiers, per worker a poller and a REQ socket, cached routes | `send_and_recv`, `send_and_recv_future`, `get_or_create_socket`, `free_worker`, `close_and_unregister_socket` |
| PostgreSQL connector | `envoxy/postgresql/client.py` | per server a configuration and a semaphore-guarded pool, a class lock, thread-local connection | `connect`, `_get_conn`, `query`, `insert`, `transaction`, `release_conn`, `reload_config` |
| MQTT connector | `envoxy/mqtt/dispatcher.py` | per server a lock, a paho client, the stored subscriptions; per client two flags | `publish`, `subscribe`, `create_subscription`, `connect`, `disconnect`, `reconnect`, `_on_connect`, `_on_disconnect` |
| Watchdog | `envoxy/utils/watchdog.py`, heartbeat in `vendors/envoxyd/run.py` | failure count, `uwsgi.opt["last_event_ms"]` | `start`, `send_notification`, `_test_http` |
| Singletons | `envoxy/utils/singleton.py` | class attributes `_instance_lock`, `_instance`, `_thread_local` | `instance`, `instance_with_queue` |
| ORM session managers | `envoxy/db/orm/session.py`, `envoxy/postgresql/sqlalchemy/session.py` | dictionary `_MANAGERS`, an engine and a session factory each | `get_manager`, `dispose_manager`, `dispose_all`, `session_scope`, `transactional` |
| Response cache | `envoxy/cache/`, `envoxy/decorators.py` | entries in Redis with a TTL | `get`, `set`, the decorator `cache` |
| CouchDB client | `envoxy/couchdb/client.py` | a session per server | `find`, `get`, `post`, `base_request`, `_execute_request` |
| Boot and AppContext | `vendors/envoxyd/run.py`, `vendors/envoxyd/templates/uwsgi/embed/`, `envoxy/auth/` | the application, the backend, the watchdog's thread | the hook, `app`, `load_modules`, `load_packages` |
| ORM naming and listeners | `envoxy/db/orm/` | handlers on mappers | `EnvoxyMeta`, the normalization of `__table_args__`, `before_insert`, `before_update` |
| Migration tools | `envoxy/tools/` | none | the namespace, the managed prefix, `include_object`; discovery and commands |
| Assertions | `envoxy/asserts.py` | none | the `assertz` functions |
| Encoders, dates | `envoxy/utils/encoders.py`, `datetime.py` | none | conversions |
| LRU cache, throttle | `envoxy/utils/cache.py`, `envoxy/utils/throttle.py` | a bounded dictionary; a time of the last call | nothing in the repository uses them |
| Database facade, Redis and Celery clients | `envoxy/db/dispatcher.py`, `envoxy/redis/`, `envoxy/celery/` | singletons of the clients | delegation, one library call each |
| HTTP views | `envoxy/views/` | Flask's | registration, dispatch |
| Logging, configuration, profiling | `envoxy/utils/` | none | I/O and formatting |

### How they interact

The facades (`envoxy.ZMQC`, `PGC`, `MQTTC`, ...) hold one singleton client each
and delegate. The ZeroMQ client reads the response cache before a call and
writes it after. A view handler runs in a uWSGI thread; what it calls runs in
that thread, except MQTT callbacks, which run in paho's network thread, and
`send_and_recv_future`, which hands the call to an executor. The request hook in
`run.py` sets `last_event_ms`, which the watchdog thread reads. Clients do not
share locks or connections with each other, so each is a module of its own.
Two compositions matter: `session_scope` implements the abstract unit of work,
and the start of a process (`Boot`) runs the hook, the clients' initialization,
the ORM's listeners and the watchdog's start one after the other and hands the
result to the rows the service saves.

### What is hard, and what makes each component correct

| Component | Hard behaviour | Correct when |
|---|---|---|
| ZeroMQ client | a worker goes back to the queue before its reply is decoded; late, missing and malformed replies; every exception retried | a reply belongs to its request; a worker has one holder, is never lost, and comes back |
| PostgreSQL connector | a semaphore and a pool that have to agree without a common lock; racing lazy connects; pools replaced or closed under a query; connections that break | a connection has one user and carries nobody else's work; permits and connections match; nobody with a permit is refused; queries run on their server; transactions start |
| MQTT connector | a non-reentrant lock that callbacks take too; flags set before the broker answers; a list of subscriptions that grows while it is recovered; two reconnecting threads | stored topics are subscribed on every accepted connection; calls return |
| Watchdog | two timers (the service's and systemd's) with a test of variable length between them; a heartbeat that outlives its service | no sound service is killed; every stopped one is, in bounded time |
| Singletons | the lock that guards the construction is itself created without a lock | no more instances than locks; once published, an instance stays |
| ORM managers | `_MANAGERS` is tested, read, filled and deleted from without a lock; commit, rollback and close may each raise, and a lost answer leaves the outcome open | a disposed manager does not come back; a caller who hears no exception has had its rows kept; every block is over before its caller hears of it |
| Response cache | `SET` drops the TTL and `EXPIRE` follows as a second command, both from concurrent requests | answers are out of date by a bounded time |
| CouchDB client | a POST whose answer is lost is repeated; `find` consumes its caller's dictionary | a post stores at most a document per attempt and gives up only after all; every find sends the caller's conditions |
| Boot, listeners | two places start a watchdog; a step may raise or exit; mappers are configured at any time after their import; an insert is rolled back and repeated | one watchdog at most and only where wanted; every saved row is stamped |
| Names | normalization runs again in every subclass; names are shortened; ORM and migrations read different environment variables | a name tells what it is made of and is prefixed and shortened once; a service migrates its tables and no other's |
| Dates | rounding at the end of a second, seconds before 1970, naive and aware values | texts read back as what was written; the styles name one second |
| Assertions | two calling conventions, with and without `reply`, with and without a key; truth values | both conventions give one verdict |

`PROJECT.json` lists the hazards line by line with the properties that cover them.

## 2. Plan

| | Modules | State |
|---|---|---|
| 1 | `ZmqDispatcher`, its MC module and `ZmqDispatcher_proofs` | done |
| 2 | `PgClient`, `PgClient_proofs` | done |
| 3 | `MqttConnector`, `MqttConnector_proofs` | done |
| 4 | `Watchdog`, `Watchdog_proofs` | done |
| 5 | `Singletons`, `Singletons_proofs` | done |
| 6 | `UnitOfWork`, `SessionManagers`, `SessionManagers_proofs`: an abstract specification and its implementation | done |
| 7 | `ResponseCache`, `CouchClient`, `Boot`, composed with 5 and 6 in `MCLifecycle` (one run); `Lifecycle_proofs` | done |
| 8 | `Asserts`, `DateFormats`, `OrmNames`, called by `MCHelpers` (one run); `Helpers_proofs` | done |
| 9 | `ExclusivePool`: what a pool promises, as the abstract specification that `ZmqDispatcher` (workers) and `PgClient` (connections) implement | done |

How many connections a pool gives out at most is not part of `ExclusivePool`: it
holds for a server's first pool object only, and `PermitsMatch` states it there.
Theorems: every safety property of a passing run is proved (section 5).

## 3. The modules

Every module names its constants with an assumption (`ZmqAssumption`, ...), has
one action per step another actor can come between, and states its properties
at the end. A definition commented *Fault:* is a plausible bug in the code below
which it stands; no specification uses one. They are the mutants of
`PROJECT.json`: put in the place of the definition that follows, each makes a
property of its run fail. `MC*` modules add what TLC needs, the symmetry sets.

### ExclusivePool

An abstract specification: what a pool promises to the threads that share it.
A user takes an item, is alone with it, and gives it back (`Give`) or drops it
(`Drop`); `Renewed` says whether items are made and dropped while the program
runs. `Pool == INSTANCE ExclusivePool` maps two components to it:

- `ZmqDispatcher`: the items are the workers, never renewed; `free` is what is in
  the queue, and a thread holds its worker from `queue.get` to `queue.put`.
  `WorkersPooled` is claimed where replies decode: after a malformed one a worker
  is in the queue twice (below), so `zmq_replies` counts instead.
- `PgClient`: the items are the connections, renewed; `free` is what waits in any
  pool of any server, and a thread holds a connection from psycopg2's `getconn` to
  its `putconn`. Into which pool it goes does not matter to
  `ConnectionsPooled`; that it goes in clean is `NoForeignWork`.

`Exclusive` says what an implementation gains: one holder or the pool, and
nothing missing where items are not renewed.

### ZmqDispatcher

`send_and_recv` (line 177) of one server, for any number of calling threads.
`pc[t]` is the point of the function, its locals are `held` (`_worker_id`),
`var` (`_socket`), `attempts` and `got`.

- `Enter` (lines 177-222) the cache look-up; `Retry` (331-355) enters again.
- `TakeWorker`, `GetOrCreateSocket`: `queue.get` and the socket of the worker,
  created if it has none or a closed one (110-137).
- `Send` to `Recv`: a REQ socket that is not ready raises; the poll loop counts
  empty polls only, and ignores an event on another socket.
- `FreeWorker` (263) comes **before** `Decode`; `DecodeFails` therefore frees the
  worker a second time (351). `again` counts that: it is the one way a worker
  gets into the queue twice, and the invariant `TokensConserved` says so.
- `CloseSocket` and `ReturnWorker` are the two halves of
  `free_worker(close_socket=True)`, which are not under one lock.

The peer answers a request at most once and at any later time, or never
(`PeerReply`); the cache may expire an entry or raise.

Abstracted: the message and its serialization (a request is a model value, a
reply carries the request it answers), the order of the queue (a bag), other
servers, the length of sleeps. `Dispatcher`'s facade is stateless and left out.

### PgClient

`Client` with its semaphore-guarded pool. psycopg2's `ThreadedConnectionPool` is
external: sets `idle` and `used` under its own lock, so one step per call, with
`PoolError` for a foreign connection or a closed pool. The semaphore is taken and
released in separate steps (`AcquirePermit`/`GetConn`, `Put`/`Signal`), as the
code does. Locals of a call are `conn`, `via` (the pool object), `tries`.

- `Begin`: `_get_conn` tests for a pool without a lock; `Connect` and `StorePool`
  (268-304) create and store it, so two threads may both connect.
- `GetConnFails` gives the permit back; `Discard`/`Discarded` put an unhealthy
  connection back with `close=True`.
- `CheckHealth` runs `SELECT 1`, which leaves the connection in a transaction.
  psycopg2 refuses `conn.autocommit = False` (370) there, and the assignment stands
  before the `try`: neither connection nor permit comes back (`SetAutocommitRaises`;
  `lost` keeps those connections). So a transaction never gets to its body, and
  what follows it (371-395, the thread-local branch of `query` at 413 and 454) is not
  modelled: no run of the program reaches it.
- `ReleaseConn` reads the instance's pool again (326), which may be another one, and
  whether the configuration wants a health check (328-333): both answers are
  modelled. `Recheck` is that check, a step of its own before `Put`.
- The server drops a connection whenever it likes (`BreakConn`), and the client
  notices when it next uses it: till then it is `silent`. A silent connection that is
  put back makes psycopg2's `_putconn` raise in its rollback, before the pool forgets
  having given the connection out, while lines 62-71 release the permit all the same.
  `stuck` keeps those. `NoConnectionLost` says that a connection gets out of all
  hands in these two ways only, `PermitsMatch` and `NeverExhausted` what the second
  one costs: a thread with a permit may then meet an exhausted pool.
- `ReloadBegin` to `ReloadEnd`: one changed, added or removed key. A changed key
  connects while `_lock` is held.

Abstracted: rows, paging and SQL (`Execute` leaves work on a connection or
raises), the configuration (one key per reload).

### MqttConnector

The connector of one server key. Actors are the application threads and, named
by its client, each paho network thread. `lock` is the instance's
`threading.Lock`, not reentrant: an actor that takes it twice waits for itself.

- `Publish`, `Subscribe` (append, then `create_subscription`), `IsConnected`,
  `Choose` (the `if` of 329-338), `Send`.
- `Connect`, `Disconnect`, `Joined`, `NewClient`, `WaitConnected`, `WaitFails`:
  `connect` with the `disconnect` it begins with, and the wait of 10 * 0.1 s
  under the lock. A client whose `connect` raised stays without its thread.
- `Reconnect` sets `connected_flag` before the broker answers.
- `OnConnect`, `Recover`, `OnRefused`, `OnDisconnect`, `NetRetry`: paho's thread
  and the callbacks; `Recover` walks the stored topics one by one and calls
  `create_subscription` for each.
- `Accept`, `Refuse`, `Drop`: broker and network.

Constants switch the environment: `SlowBroker` (a CONNACK later than the wait),
`RefusingBroker`, `Unreachable`. Payloads, QoS and topic patterns are left out.

### Watchdog

The loop of `send_notification` with a clock of seconds. `Tick` is a second: the
thread's wait, a hanging test, the age of the last request and systemd's timer
advance together, and what is due happens first. `app` is what the service does
(serves, refuses, hangs, or its main thread ended); it may change at any time
and a request may be answered at any time it serves. `TestFails` without an
`http.bind` in the configuration always fails. A notification that raises ends
the thread (`NotifyRaises`). `down` is a history of the outage, counted to one
beyond `DetectionTime`. `HttpTimeout` is the longest a test takes:
`timeout=5` bounds the connection and each read separately, so a deployment's
value may be above 5. One process with its heartbeat and one thread are
modelled; how many threads a process starts is `Boot`'s question.

### Singletons

`instance` of `Singleton` (double-checked locking, lines 1-43) and of
`SingletonPerThread`, one action per read or write of a class attribute. The
class may begin with or without its `_instance_lock`, because an earlier call may
have failed in its constructor. `ReadLock` stands for the second read of the
attribute in the `with` statement: it may see another lock than the one the
thread tested or created. Objects are numbered; `built` and `locks` count them.

The comment in the code (line 26) takes the creation of the lock for a benign
race that "first writer wins". The last one does, and two threads that meet in
the first call may each lock their own lock and construct. `OneInstancePerLock`
states the bound that does hold, `Settled` that the race is over for good once
an instance is published and nobody constructs another.

### UnitOfWork, SessionManagers

`UnitOfWork` is the abstract specification: a caller's unit is open, then kept or
dropped, then heard of; "ok" only if it was kept. `SessionManagers` implements
it: `Unit == INSTANCE UnitOfWork` maps the transaction's fate as the server sees
it to `status` while the caller is inside `session_scope`, and what the caller
heard to `heard` when it has left. `CommitRaises` leaves the fate open (an answer
may be lost), `Rollback` may raise too, and `BodyRaises` goes past the rollback
for a `BaseException`.

`get_manager` is five steps (test, read or configuration, engine, store), because
`_MANAGERS` has no lock; `ReadCached` may meet a deletion (a `KeyError`).
`DeleteManager` deletes what the dictionary holds by then. A decorated function
keeps its manager (`KeepManager`, then `OpenSession` from idle), so it goes on
using one that was disposed: `RetiredGone` speaks of the dictionary, which
`reload_config` relies on.

### ResponseCache

The decorator over `RedisCache` for one key and any number of concurrent
requests, with a clock of ticks. `Set` and `Expire` are two steps, each of which
may fail with or without effect. `neglected` is a history: an `expire` was lost
and none has succeeded since, in which case an entry may stay for ever
(`cache/redis.py:47`); `ServedWithin` speaks of the rest, and its bound of two
requests' time above the TTL is reached: a second request, which missed
before the first one's `set`, expires the entry anew. An empty body is stored and
counts as a miss.

### CouchClient

One caller. `GetSelector` takes the paging out of the caller's dictionary, so a
second `find` with it is unbounded; `FindsSendAlike` says exactly that.
A condition is sent under the key the caller wrote, `version__gt` with its suffix
(`client.py:67`), where `docs/COUCHDB.md:5-23` documents a condition on `version`.
`AnsweredOtherwise` is a status below 400 that `post` does not expect (213-219): it
returns the body, stored or not. So neither a result nor an exception tells whether
a document was stored, and `PostsAccountedFor` counts documents and attempts instead.
`Failed` is a `RequestException` before or after the server executed the request,
`Wait` and `GiveUp` the loop of three attempts with doubled waits.

### Boot

The stages from the embedded hook to the application that serves, for a set of
options (`Confs`). A stage that raises or exits ends the start. Importing
modules or packages defines models; `Configure` is SQLAlchemy's use of a mapper at
any later time, and `Insert`, `Update`, `CommitRow` and `RollbackRow` are what the
service then does, with `before_insert` and `before_update`. `DefaultBackend`
asks for the ZeroMQ client even when the configured key needs none
(`run.py:349`), so a broken ZeroMQ configuration, which its own stage only logs,
stops the start.

### Asserts, DateFormats, OrmNames

Pure functions as operators. A Python value in `Asserts` is a record of its type,
its truth and the grammars it matches, as a whole or in a prefix; the grammars
themselves (regular expressions, `json`, `uuid`) are not modelled; `GrammarAssumption`
asks of `Values` that only strings match them, and not both as a whole and in a
prefix. A datetime in
`DateFormats` is seconds, microseconds and an offset: rounding, the zones and the
order are modelled, the calendar is not. A name in `OrmNames` is the sequence of
its words, its length counted in words, with the limits scaled
(`Limit`, `Kept`, `VersionLimit`); pluralization and the hash are parameters, and
`MCHash` is injective. Each module ends with what its callers rely on, in terms of
the functions; exceptions the code really makes are part of the statement, and where a
doc says otherwise the comment above it and "Also met" (section 4) name the doc.
What the mixin does not see when it makes a name, the columns of a unique, foreign
key or exclude constraint (`About`), is not in the name; an offset with seconds makes
an ISO text that does not parse (`OffsetText`).

### MCHelpers, MCLifecycle

`MCHelpers` calls one function with one of a set of inputs per behaviour.
`MCLifecycle` extends five modules that share no state: a behaviour is one of one
of them, chosen in the initial state, so the state spaces add up and no
interleaving is lost. Its properties are those of the modules.

## 4. The runs

| Run | Bounds | Shows |
|---|---|---|
| `zmq_replies` | 2 threads, 2 workers, 4 sockets, 2 requests (one cached), 2 polls, 1 malformed reply per worker | `ReplyAnswersRequest`, `RecvNeverBlocks`, `TokensConserved` while two threads share a worker after a malformed reply |
| `zmq_pool` | 2 threads, 1 worker, one message that does not serialize, replies that decode | `WorkersPooled` (the refinement); under fairness `WorkerReturned`, `QueueServed` |
| `zmq_bad_data` | as `zmq_pool` | **violation**: finding 1 |
| `pg_client` | 2 threads, 1 server, 2 pools, 4 connections, `max_conn` 1, 2 tries, one reload of any kind | `ConnectionsPooled` (the refinement), `NoForeignWork`, `PermitsMatch`, `NeverExhausted`, `NoConnectionLost` |
| `pg_transaction` | 1 thread, 1 server, 1 pool, 2 connections, no reload | **violation**: finding 2 |
| `pg_reload` | 1 thread, 1 server, a changed key | **violation**: finding 3 |
| `mqtt_recovery` | 2 threads, 2 clients, 1 topic, slow, refusing and unreachable broker | `Resubscribed` in every interleaving; `ClientStays`: the client for whose CONNACK a `connect` waits is not replaced under it |
| `mqtt_calls` | 1 thread, 2 clients, 2 topics, prompt broker, drops | under fairness `ResubscribesAfterReconnect`, `CallsReturn` |
| `mqtt_unreachable` | 1 thread, 1 client, 1 topic, broker that may be unreachable | **violation**: finding 4 |
| `lifecycle` | singletons: 3 threads; sessions: 2 callers, 2 server keys of which 1 configured, 3 managers; cache: 3 requests, TTL 2, a request takes up to 1 tick, 2 versions; CouchDB: 3 attempts, 2 finds; boot: 8 configurations, 3 models of which 1 foreign, clock and identifiers up to 3 | `OneInstancePerLock`, `Settled`, `RetiredGone`, `UnitsOfWork` (the refinement, with its liveness), `ServedWithin`, `PostsAccountedFor`, `FindsSendAlike`, `OneWatchdog`, `RowsStamped` |
| `helpers` | 32 values in 7 forms for 21 assertions; 4 instants with 18 microsecond values at rounding boundaries, 5 zones, one with seconds in its offset; 8 namespaces, names of constraints shorter and longer than `Limit` (5 words) | `RepliesButForPrefixes`, `KeyMakesNoDifference`, `IsoTextsReadBack`, `StylesNameOneSecond`, `ApiTextsReadBack`, `NamesNormalized`, `OwnTablesManaged`, `ServicesKeptApart` |
| `watchdog` | interval 3, HTTP timeout 2, WatchdogSec 5 | `KilledForFailures`, `DetectedInTime`; under fairness `DownServiceKilled` |

Why these bounds. *ZeroMQ*: a hazard needs two threads and a worker they share;
two workers let them also be apart; `#sockets = #threads + #workers` is what can
be referenced at once, and closed ones are reused. `MaxAgain` bounds the
malformed replies, each of which adds an identifier to the queue for good.
*PostgreSQL*: with `max_conn` 1 the second thread meets every limit; two pools are
the fewest with which one replaces another; a second thread and a reload make
three concurrent actors. Pool objects are not reused, so the run ends when they
are used up (`CHECK_DEADLOCK FALSE`). *MQTT*: two clients are one current and one
replaced; a third thread would repeat the second; in `mqtt_recovery` threads may
really block each other for ever (see below), so deadlock is not an error there,
and in `mqtt_calls` `CallsReturn` says more than the absence of deadlock.
*Watchdog*: the interval, the timeout and the forgiven failures all differ, and
`WatchdogSec = Interval + HttpTimeout` is the boundary at which
`KilledForFailures` starts to hold; `DetectionTime` less one second is violated,
so the bound is exact. *Lifecycle*: with three threads one can be ahead of, between
and behind the other two; three managers let one be disposed, one be stored and
one be created at a time, and made managers are not reused; three requests are
one that computed, one that expires anew and one that reads. `MCConfs` has one start for each
branch that the options decide. Starts end and the bounded resources run out, so
deadlock is not an error there. *Helpers*: the inputs are chosen for the branches
and boundaries of the functions (.9995 of a second and its neighbours, seconds
below 0, names at and above the limit, namespaces of which one begins another).

### Fairness

- ZeroMQ: a thread inside a call keeps running (`WF` of its steps). Nothing is
  assumed of the peer: it need not answer. The sleeps are finite and polls have
  timeouts, so this is the scheduler's fairness only.
- PostgreSQL (`pg_reload`): threads keep running; the violation is a self-deadlock,
  which fairness cannot cure.
- MQTT: application and network threads run, and a broker that received a CONNECT
  answers it (`SlowBroker` and `RefusingBroker` are off where liveness is claimed).
- Sessions (`UnitsOfWork`): a block that was entered ends, and the server or its
  socket answers (`WF` of the steps that end a session). Nothing makes a caller
  ask for a manager, and nothing is assumed of the outcome.
- Watchdog: time passes, the thread and systemd act when due. Nothing is assumed
  of the service.

### Findings

1. `zeromq/dispatcher.py:239` says of a message that cannot be serialized "Don't
   retry - this is a data problem, not a connection problem"; its `ValueError` is
   caught by the outer `except Exception` (346), which calls `send_and_recv`
   again, until the nested calls reach Python's recursion limit (about a thousand).
2. `docs/POSTGRES.md:16` offers `pgsqlc.transaction("main")` for "a transactional
   context"; the health check has left the connection in a transaction when
   `conn.autocommit = False` (`postgresql/client.py:370`) is tried, psycopg2 refuses, and
   the call ends there with the connection and its permit gone. The trace is a
   transaction on a pool with one connection that works.
3. `reload_config` calls `connect`, which takes the lock `reload_config` holds
   (`postgresql/client.py:298`): a changed or added server blocks the caller.
4. A first `connect` that raises (`mqtt/dispatcher.py:208`) leaves a client whose
   network thread was never started; `reconnect` does not start it either, so
   stored topics are not recovered, although `docs/MQTT.md:38` says they are.

Also met, and kept as hazards or stated as exceptions of a property:

- *PostgreSQL*: a rollback that raises inside `putconn` loses a connection
  (`postgresql/client.py:349`). *ZeroMQ*: a malformed reply multiplies a worker.
- *MQTT*: with a CONNACK later than the wait, `connect` calls `disconnect` with the
  lock in its hands (`mqtt/dispatcher.py:241`), and `disconnect` may join a thread that
  waits for that lock (116). `CallsReturn` is checked with one thread and a prompt
  broker and covers neither; `SelfDeadlock` proves the first.
- *Watchdog*: `WatchdogSec` equal to `keep_alive`, which the docstring suggests
  (`watchdog.py:97`), lets one slow health test kill a sound service: below the
  precondition of `KilledForFailures`. The class's docstring (85-87) says that multiple
  calls of `start()` are not prevented; the code prevents them (112-117), which
  is what `OneWatchdog` relies on.
- *Singletons*: the comment at `singleton.py:26` (above).
- *CouchDB*: `docs/COUCHDB.md:5-23` and the suffix of keys; the results of 213-219 (above).
- *Assertions*: the docstring of `assertz_reply` (`asserts.py:39`) says that it returns a
  dictionary instead of raising; for a prefix match `assertz_regex` (553-558) raises
  all the same, which `RepliesButForPrefixes` excepts. `tests/unit/test_asserts.py:39-40`
  expects `assertz_mandatory` to refuse a username that is the empty string
  (`tests/fixtures/fixtures.py:7`); under a key the code lets it pass, as its docstring says
  (73, 81).
- *Dates*: the carry of a rounded fraction is dropped (`datetime.py:207`); `format_unix`
  truncates (299) where the docstring of `Format.unix` says "rounded" (469), and towards
  zero before 1970; an offset with seconds does not read back (252-254).
- *Names*: `.github/instructions/copilot-instructions.md:66-67` promises
  `uq_{table}_{cols}` and `fk_{table}_{local_col}_to_{ref_table}`; the mixin sees no columns
  (`mixin.py:145`, 195, 255), so two unnamed unique constraints of a table, or two foreign
  keys to one table, get one name. `NamesTell` states what a name does tell.
- *Migrations*: with `SERVICE_NAMESPACE` alone (`env.py:85`) they run and look for
  `aux_<ns>_`, while the ORM names its tables `aux_`: `OwnManaged` says nothing of that case.
- *ZeroMQ*: the `IOError` branch of `send_and_recv` (324-333) frees the worker in a `try` of its
  own before it goes on like every other exception; `Retry` stands for both.

Seen and not modelled: `redis/client.py:56` calls `encode` on the bytes
that redis-py returns, which raises for every key that exists; `keep_alive` = 1 makes
the watchdog wait 0 seconds; while Celery looks for its tasks, packages are imported
before the listeners are registered (`Boot` has the order, and it does no harm,
because mappers are configured later).

## 5. What is proved

`tlapm` checks every leaf; the only assumptions are the named ones on constants.

**`ZmqDispatcher_proofs`**, for any finite sets of threads, workers and sockets,
any messages, and any number of polls and malformed replies.

- `TypeCorrect`: `TypeOK` is inductive by itself; its last conjunct (a thread
  between taking and returning has a worker and a socket) is what makes the
  function updates well typed.
- `RepliesMatch`: `ReplyAnswersRequest` is not inductive. It needs to know, of
  every thread past `Send`, that its socket is either closed or still in the
  REQ cycle of its own message. That two threads may share a worker after a
  malformed reply does not break it, because a REQ socket refuses a second send:
  `SocketInv` says that a thread polling or reading on an open socket is the
  only one, and that the socket carries its message.
- `RecvReady` follows from the same invariant.
- `WorkersConserved`: tokens plus holders is one plus `again`. The lemmas
  `SameHolders`, `OneMoreHolder`, `OneLessHolder` say what a step of one thread
  does to the cardinality of the holders, one of them for each kind of action.
- `WorkersExclusive`: without malformed replies `again` is zero
  (`OnceOnlyStep`), and one token plus holder is exactly one of the two.
- `WorkersAreAPool`: the same without malformed replies, step by step: taking a
  worker and returning one are `Take` and `Give` of `ExclusivePool`
  (`WorkerTaken`, `WorkerGiven`; the second needs `TokensConserved`, a worker that
  is returned is not in the queue), every other step leaves the pool alone.
  `PoolIsExclusive` proves of the abstract specification what it is for, so both
  together say `WorkersExclusive` again, from another side.
- `DataErrorsRetryForever`: finding 1 for all sizes. A call whose message does not
  serialize and is not cached stays a call for that message: no step leads back
  to its caller (the recursion limit is not modelled). `Serialized` is the invariant: it never gets past `Send`.

**`Watchdog_proofs`**, for any interval above 1, HTTP timeout and `WatchdogSec`.

- The inductive invariant has four parts. `TypeOK`; `Pace`, how long systemd has
  not been notified, from where the thread is (waiting: the part of the wait
  that is over; testing: the whole wait and the test so far); `Budget`, that an
  outage is at most the last request's grace plus one period per forgiven
  failure plus the time since the last notification; `Events`, that no request
  was answered since the outage began.
- `NoEarlyKill` follows from `Pace`, `Detection` from `Budget` and systemd's limit.

**`SessionManagers_proofs`**, for any callers and server keys.

- `DisposedStayGone`: `RetiredGone`, which is about the dictionary only, needs to know who may hold a manager (`Held`):
  one that is still to be stored (`Fresh`) is in no other hand and in no place,
  one that is being disposed (`Victim`) is at most at the key that will be
  deleted. `Counted` says that numbers are given out in order, so a new manager
  differs from all others.
- `ScopeIsUnit`: every step is a step of `UnitOfWork` or leaves its variables
  unchanged. `Progress` says what is known of the transaction at each step of
  `session_scope`; in particular that `Leave` finds it kept or dropped, and kept
  if the caller hears no exception. One lemma per kind of step says what the
  mapped variables do.

**`Singletons_proofs`**, for any finite set of threads.

- `InstancesBounded`: `built <= locks` is not inductive. The invariant counts
  (`Counted`): instances built plus threads about to construct are at most the
  locks, locks plus threads about to create one are at most the threads, and
  until the first publication every instance built is in the hand of a thread
  about to publish it. The step that needs an argument is the second look under
  the lock: a thread that finds no instance there holds a lock, and so does each
  one that constructs or publishes, all of them different ones
  (`RoomForOneMore`, by an injection into the locks).
- `SettledStays` needs only the types: a thread goes on to construct only if it
  finds no instance.

**`PgClient_proofs`**, for any finite sets of threads, servers, pools and
connections, any `max_conn` and number of tries. None of the five safety
properties is inductive; one invariant carries them all. Its parts:

- `Called`: what a call knows at each of its steps. It goes on with the server it
  began with, has a connection exactly between `getconn` and `putconn`, and got
  it from a pool object of that server.
- `Dialled`: which pool objects exist, for which server, and that the pool a
  server has now is one of its own.
- `Apart`, `ConnectionExclusive`: a connection is in one place, idle in one pool,
  used from one pool, or closed, and in at most one thread's hand.
- `Worked`: there is uncommitted work on open connections only, and none on one that
  waits in a pool or that a thread has got and not used yet.
- `Stranded`: a connection that is `stuck` stays counted by a pool.
- `PermitsMatch`, `Answered`: for a server with one pool object so far, permits
  plus used connections that are not `stuck` plus the threads between the two halves of
  `getconn` or `putconn` are `max_conn`, and every used connection is in a thread's
  hands, `lost` or `stuck`. `NeverExhausted` follows by counting: a thread that holds a
  permit and no connection is itself one of those in between, so where none is
  stuck the used connections are fewer than `max_conn` (`PermitSuffices`). After a
  reload a server may have two pool objects with one semaphore each, and
  `release_conn` may return to the other: the count is claimed for the first only,
  because it is not true of more.

From it also follow, two of them with a further invariant:

- `ConnectionsAreAPool` (`Undialled`: nothing waits in a pool not made yet): what
  psycopg2 hands out is taken from what waits or is new (`ConnectionTaken`), what
  comes back was in one thread's hands (`ConnectionGiven`), a new pool's
  connections are made (`ConnectionMade`), and the rest are drops or leave the
  pool alone (`PoolStep`).
- `QueriesRunAtHome`: a query runs on a connection of the server it names; no
  reload, replaced pool or retry leads it to another one.
- `ReloadHangs` (`Locking`: a reload that connects holds the lock): finding 3 for all
  sizes. Once `reload_config` is where it stores the new pool, it stays there, and
  so does every thread that has dialled a pool and waits to store it.

**`MqttConnector_proofs`**, for any threads, clients and topics and whatever the
broker does.

- `SubscriptionsRecovered`: `Resubscribed` speaks of the moments when the network
  thread is back in its loop, and says nothing in between. `Recovering` adds
  them: while the connection is up, a stored topic is subscribed, or a call is on
  its way to subscribe it, or `on_connect` has not come to it yet. `subscribe`
  appends before it tests the connection, so a topic stored too late for
  `on_connect` is one a call is on its way to.
- `AwaitedClientStays`, an action property: `Held` says that whoever joins a
  network thread or waits for a CONNACK holds the lock, so there is one of them at
  most, and that a client that is waited for is there.
- `LoopNeverStarts`: finding 4 for all sizes. The network thread of a client
  starts in `connect` only, right after it was made; a client without one that is
  the instance's stays without one as long as it is.
- `SelfDeadlock`: an actor that comes to `connect` or `disconnect` with the lock in
  its hands (lines 140, 241 and 246) keeps the lock and waits for ever.

**`Lifecycle_proofs`**, for any constants of the three modules.

- `PostsAreAccountedFor` (`CouchInv`): the attempts made determine the next wait
  (`Attempted`, with the lemma `Doubling` for powers of two) and how many documents
  a post may have left at most; `FindsAreAlike`: `Drained`, what a dictionary has lost.
- `CacheIsFresh` (`CacheInv`): `BodiesFresh`, what a view read is out of date by no
  more than its request has taken; `EntryFresh`, a stored one by that plus what any
  request under way has taken since; `EntryExpires`, an entry with a TTL is gone in
  time, and one without will be given one by a request on its way, unless an
  `expire` was lost. `MaxVersion` is at least 1: there is data.
- `ServesWithOneWatchdog`, `SavedRowsStamped` (`BootInv`): where the start stands
  determines which of the two watchdogs started; the listeners are registered
  before a model is configured (`ListenersFirst`, `Listened`); `RowKept` relates an
  object to its row before, between and after its saves, rolled back ones
  included, and `IdsDiffer` keeps two objects from one identifier.

**`Helpers_proofs`**, for every input. The functions are unfolded, so there is no
invariant but that a behaviour of `MCHelpers` is one call.

- `RepliesDifferOnPrefixesOnly`, `KeysJudgeAlike`: any value, in any form, for each
  assertion.
- `StylesNameTheSecond`, `ApiTextsRoundTrip`, `IsoTextsRoundTrip`: any seconds,
  microseconds, offset and number of digits. The lemmas on rounding say by how
  much `Round` and the truncations miss, and what a lost carry costs.
- `OwnTablesIncluded`, `ForeignTablesUntouched`, `VersionsKeptApart`,
  `NormalizedOnce`, `ForeignKeysFindTables`: any words, limits, plurals and hash
  values. The lemmas say when one sequence of words begins another
  (`PrefixMeans`) and what prefixing does to a name that begins so already.
- `NamesTellWhatIsSeen`: two constraints of a table without a name of their own get
  one name exactly if they are of one kind and agree in what the mixin sees of them. It
  asks of the digest what the code asks of eight digits of SHA1 (`HashTells`): of two
  names, the hash of a long one is not the last word of what the other is
  shortened to. Without that the statement is false; `ShorteningTells` is the argument.
- The `Calls...` theorems state the properties of the run. Their
  constants are the run's for the dates, and free for values, limits, plurals and
  hash. `CallsNormalizeNames` takes `HashTells` for the names the run
  makes from `HashAssumption`, which TLC evaluates with the run's hash.

**Only model-checked**: the liveness properties (`WorkerReturned`, `QueueServed`,
`ResubscribesAfterReconnect`, `CallsReturn`, `DownServiceKilled`, and the fairness
that `UnitsOfWork` promises), which are out of the prover's reach; that the
violations are reached, by their nature (what follows from three of them is proved).

## 6. What is not modelled

- Database facade, Redis client: delegation, one library call each, no state.
- LRU cache, throttle: nothing in the repository uses them.
- Encoders, SQLAlchemy types (`sqltypes.py`), the encoding of cache keys and
  bodies (a body that has keys `payload` and `status` is read back as another
  answer): conversions of data the models do not look into.
- HTTP views: a request is mapped onto Flask and requests without a state of its
  own; the start's share of it (`set_flask`, `authenticate_container`) is in `Boot`.
- The facades of ZeroMQ, MQTT and CouchDB (`Dispatcher`): they build messages and
  keep nothing.
- Migration tools other than the naming: discovery of models, the URL and the
  commands drive Alembic over files, run alone and change no state of a service.
- Celery beyond its initialization, logging, configuration, profiling: I/O.
- Two threads that call `Watchdog.start` at once: the hook and the bootstrap call
  it one after the other, in one thread.
- Libraries (pyzmq, psycopg2, paho, SQLAlchemy, redis-py, requests, systemd) are
  modelled from how the code uses them, and marked external in the map.
