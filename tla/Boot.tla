-------------------------------- MODULE Boot --------------------------------
(***************************************************************************)
(* The start of an envoxyd process: the embedded watchdog hook, then       *)
(* AppContext.app (vendors/envoxyd/run.py) up to the application that      *)
(* serves, and the rows its models save afterwards with the listeners of   *)
(* envoxy/db/orm/listeners.py.                                             *)
(*                                                                         *)
(* A step of the start that raises ends in "raised", exit(-10) in          *)
(* "exited".  Importing a package while Celery looks for its tasks may     *)
(* define its models, but does not use them yet.                           *)
(***************************************************************************)
EXTENDS Naturals

CONSTANTS
  Confs,      \* the configurations to start with: sets of options
  Models,     \* mapped classes of the service, one object of each
  Foreign,    \* those that do not inherit from EnvoxyBase
  MaxNow,     \* bound on the clock
  MaxId       \* bound on the identifiers given out

\* embed_keep_alive is the one of the hook's section "boot"; pid is set when
\* WATCHDOG_PID is, own_pid when that is this process, master when uwsgi
\* says this process is its master.
Options == {"test", "credentials", "amqp", "modules", "packages", "zmq", "mqtt",
            "backend", "keep_alive", "embed_keep_alive", "pid", "own_pid",
            "master"}

ASSUME BootAssumption ==
  /\ Confs \subseteq SUBSET Options /\ Foreign \subseteq Models
  /\ MaxNow \in Nat /\ MaxId \in Nat

VARIABLES
  conf,        \* the options set
  stage,       \* the next step of the start
  watchdogs,   \* live threads named watchdog
  zmq,         \* ZMQ.instance() exists
  handlers,    \* mapper_configured handlers on the Mapper class
  mapper,      \* of each model: absent, defined or configured
  listening,   \* the models whose mappers have the two listeners
  object,      \* the attributes of each model's object
  state,       \* of the object: new, inserted, saved or changed
  saved,       \* the row in the database, or NoRow
  now, ids     \* the clock and the identifiers given out so far

starting == <<conf, watchdogs, zmq, handlers>>
mapping  == <<mapper, listening>>
rows     == <<object, state, saved, now, ids>>
boot     == <<starting, stage, mapping, rows>>

NoRow  == [id |-> 0, created |-> 0, updated |-> 0, href |-> 0]
Custom == MaxId + 1     \* an href the service chose itself

BootInit ==
  /\ conf \in Confs /\ stage = "embed"
  /\ watchdogs = 0 /\ zmq = FALSE /\ handlers = 0
  /\ mapper = [m \in Models |-> "absent"] /\ listening = {}
  /\ object = [m \in Models |-> NoRow] /\ saved = [m \in Models |-> NoRow]
  /\ state = [m \in Models |-> "new"]
  /\ now = 1 /\ ids = 0

To(from, to) == stage = from /\ stage' = to

-----------------------------------------------------------------------------
(* The start.                                                              *)

\* Fault: the look for a running thread is left out of Watchdog.start.
WatchdogStartAnyway ==
  watchdogs' \in {watchdogs + 1, watchdogs}

\* Creating the thread may fail, which is only logged.
WatchdogStart ==
  watchdogs' \in IF watchdogs > 0 THEN {watchdogs} ELSE {0, 1}

EmbedHook ==
  /\ To("embed", "app")
  /\ IF "embed_keep_alive" \in conf THEN WatchdogStart ELSE UNCHANGED watchdogs
  /\ UNCHANGED <<conf, zmq, handlers, mapping, rows>>

\* In test mode there is nothing but the index and the health check.
CreateApp ==
  /\ To("app", IF "test" \in conf THEN "serving" ELSE "credentials")
  /\ UNCHANGED <<starting, mapping, rows>>

\* It raises without credentials and for an answer that is no JSON, and exits
\* when they are incomplete or the server does not answer with 200.
Authenticate ==
  /\ \/ "credentials" \in conf /\ To("credentials", "celery")
     \/ \E end \in {"raised", "exited"} : To("credentials", end)
  /\ UNCHANGED <<starting, mapping, rows>>

DefinesModels ==
  \E new \in SUBSET {m \in Models : mapper[m] = "absent"} :
    mapper' = [m \in Models |-> IF m \in new THEN "defined" ELSE mapper[m]]

InitializeCelery ==
  /\ \/ To("celery", "exclusive")
     \/ "amqp" \in conf /\ To("celery", "raised")
  /\ IF {"amqp", "packages"} \subseteq conf THEN DefinesModels
     ELSE UNCHANGED mapper
  /\ UNCHANGED <<starting, listening, rows>>

RefuseBoth ==
  /\ To("exclusive", IF {"modules", "packages"} \subseteq conf THEN "exited"
                     ELSE "register")
  /\ UNCHANGED <<starting, mapping, rows>>

\* register_envoxy_listeners; services call it again without effect.
RegisterListeners ==
  /\ To("register", "load")
  /\ handlers' = IF handlers > 0 THEN handlers ELSE 1
  /\ UNCHANGED <<conf, watchdogs, zmq, mapping, rows>>

\* load_modules and load_packages: the imports may raise.
LoadViews ==
  /\ \E next \in {"views", "raised"} : To("load", next)
  /\ IF conf \cap {"modules", "packages"} # {} THEN DefinesModels
     ELSE UNCHANGED mapper
  /\ UNCHANGED <<starting, listening, rows>>

\* View(), set_flask, and the MQTT subscriptions that set_flask makes.
SetFlask ==
  /\ \E next \in {"zmq", "raised"} : To("views", next)
  /\ UNCHANGED <<starting, mapping, rows>>

\* Dispatcher.initialize logs what goes wrong.
InitializeZmq ==
  /\ To("zmq", "mqtt")
  /\ zmq' \in IF "zmq" \in conf THEN BOOLEAN ELSE {FALSE}
  /\ UNCHANGED <<conf, watchdogs, handlers, mapping, rows>>

InitializeMqtt ==
  /\ To("mqtt", "backend")
  /\ UNCHANGED <<starting, mapping, rows>>

\* The default of the server key asks zmqc.instance(), which tries again what
\* initialize may have failed in; its exception is not caught here.
DefaultBackend ==
  /\ \/ "backend" \notin conf /\ To("backend", "watchdog") /\ UNCHANGED zmq
     \/ {"backend", "zmq"} \subseteq conf /\ To("backend", "watchdog")
        /\ zmq' = TRUE
     \/ "backend" \in conf /\ ~ zmq /\ To("backend", "raised") /\ UNCHANGED zmq
  /\ UNCHANGED <<conf, watchdogs, handlers, mapping, rows>>

\* Only the process systemd expects the notifications from, or else uwsgi's
\* master, starts one here.
AllowedToStart ==
  /\ "keep_alive" \in conf
  /\ IF "pid" \in conf THEN "own_pid" \in conf ELSE "master" \in conf

BootstrapWatchdog ==
  /\ To("watchdog", "serving")
  /\ IF AllowedToStart THEN WatchdogStart ELSE UNCHANGED watchdogs
  /\ UNCHANGED <<conf, zmq, handlers, mapping, rows>>

-----------------------------------------------------------------------------
(* Mappers, listeners and rows, once the views are loaded.                 *)

\* SQLAlchemy configures a mapper when it is first used; mapper_configured
\* raises for a class that is not an EnvoxyBase.
Configure(m) ==
  /\ stage \in {"views", "serving"} /\ mapper[m] = "defined"
  /\ handlers > 0 => m \notin Foreign
  /\ mapper' = [mapper EXCEPT ![m] = "configured"]
  /\ listening' = IF handlers > 0 THEN listening \cup {m} ELSE listening
  /\ UNCHANGED <<starting, stage, rows>>

\* Fault: an identifier is made for every insert.
BeforeInsertAnew(row) ==
  [id |-> ids + 1, created |-> IF row.created = 0 THEN now ELSE row.created,
   updated |-> now, href |-> IF row.href = 0 THEN ids + 1 ELSE row.href]

BeforeInsert(row) ==
  LET id == IF row.id = 0 THEN ids + 1 ELSE row.id
  IN  [id |-> id, created |-> IF row.created = 0 THEN now ELSE row.created,
       updated |-> now, href |-> IF row.href = 0 THEN id ELSE row.href]

BeforeUpdate(row) == [row EXCEPT !.updated = now]

Usable(m) == stage = "serving" /\ mapper[m] = "configured"

\* The service may choose identifier and href itself.
Prepare(m) ==
  /\ Usable(m) /\ state[m] = "new" /\ object[m] = NoRow /\ ids < MaxId
  /\ \E id \in {0, ids + 1}, href \in {0, Custom} :
       /\ object' = [object EXCEPT ![m].id = id, ![m].href = href]
       /\ ids' = IF id = 0 THEN ids ELSE id
  /\ UNCHANGED <<starting, stage, mapping, state, saved, now>>

Insert(m) ==
  /\ Usable(m) /\ state[m] = "new" /\ ids < MaxId
  /\ object' = [object EXCEPT ![m] =
                   IF m \in listening THEN BeforeInsert(@) ELSE @]
  /\ ids' = IF object'[m].id > ids THEN object'[m].id ELSE ids
  /\ state' = [state EXCEPT ![m] = "inserted"]
  /\ UNCHANGED <<starting, stage, mapping, saved, now>>

Update(m) ==
  /\ Usable(m) /\ state[m] = "saved"
  /\ object' = [object EXCEPT ![m] =
                   IF m \in listening THEN BeforeUpdate(@) ELSE @]
  /\ state' = [state EXCEPT ![m] = "changed"]
  /\ UNCHANGED <<starting, stage, mapping, saved, now, ids>>

CommitRow(m) ==
  /\ state[m] \in {"inserted", "changed"}
  /\ state' = [state EXCEPT ![m] = "saved"]
  /\ saved' = [saved EXCEPT ![m] = object[m]]
  /\ UNCHANGED <<starting, stage, mapping, object, now, ids>>

\* An object whose insert is rolled back is new again and keeps what the
\* listener set; one that was saved is read again from its row.
RollbackRow(m) ==
  /\ \/ state[m] = "inserted" /\ UNCHANGED object
        /\ state' = [state EXCEPT ![m] = "new"]
     \/ state[m] = "changed" /\ object' = [object EXCEPT ![m] = saved[m]]
        /\ state' = [state EXCEPT ![m] = "saved"]
  /\ UNCHANGED <<starting, stage, mapping, saved, now, ids>>

Tick ==
  /\ stage = "serving" /\ now < MaxNow
  /\ now' = now + 1
  /\ UNCHANGED <<starting, stage, mapping, object, state, saved, ids>>

BootNext ==
  \/ EmbedHook \/ CreateApp \/ Authenticate \/ InitializeCelery \/ RefuseBoth
  \/ RegisterListeners \/ LoadViews \/ SetFlask \/ InitializeZmq
  \/ InitializeMqtt \/ DefaultBackend \/ BootstrapWatchdog \/ Tick
  \/ \E m \in Models : \/ Configure(m) \/ Prepare(m) \/ Insert(m) \/ Update(m)
                       \/ CommitRow(m) \/ RollbackRow(m)

BootSpec == BootInit /\ [][BootNext]_boot

-----------------------------------------------------------------------------
(* Properties.                                                             *)

\* Two places start a watchdog, the hook and the bootstrap: a process that
\* serves has one thread at most, and none that neither was to start.  (The
\* docstring at utils/watchdog.py:85-87 says that repeated calls of start are
\* not prevented; the guard of start at 112-117 prevents them.)
OneWatchdog ==
  /\ watchdogs <= 1
  /\ watchdogs = 1 => "embed_keep_alive" \in conf \/ AllowedToStart

\* Whatever models the start has loaded, when their mappers are configured,
\* and however often an insert is rolled back and repeated: a saved row is of
\* an EnvoxyBase, has an identifier of its own for good, that its href names
\* unless the service chose another, and was created before it was updated.
RowsStamped ==
  \A m \in Models : saved[m] # NoRow \/ state[m] = "saved" =>
    /\ m \notin Foreign
    /\ saved[m].id \in 1 .. ids /\ saved[m].href \in {saved[m].id, Custom}
    /\ saved[m].created \in 1 .. saved[m].updated
    /\ object[m].id = saved[m].id /\ object[m].href = saved[m].href
    /\ \A n \in Models \ {m} : object[n].id # saved[m].id
=============================================================================
