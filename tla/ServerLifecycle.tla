---------------------------- MODULE ServerLifecycle ----------------------------
(***************************************************************************)
(* The life of a replica, app.Run: it opens the store, migrates the schema *)
(* under a session lock of the database that all replicas share, starts    *)
(* its workers and serves until a signal, and joins the workers before it  *)
(* closes the store. Replicas start together and may die anywhere.         *)
(***************************************************************************)
EXTENDS Integers, Sequences, Functions

CONSTANTS
    Servers,        \* replicas
    Workers,        \* its maintenance workers
    LastVersion,    \* migrations are 1 .. LastVersion
    MaxStarts       \* bound: how often replicas are started

ASSUME LifeAssumption ==
    LastVersion \in Nat /\ MaxStarts \in Nat /\ "none" \notin Servers

VARIABLES
    schema,         \* history: the migrations that took effect, in order
    recorded,       \* rows of schema_migrations
    lock,           \* the session that holds pg_advisory_lock
    phase,          \* where Run is
    version,        \* the migration it is at
    worker,         \* what each worker does
    reachable,      \* whether connections may bring requests
    handlers,       \* whether requests are being handled
    cancelled,      \* signalCtx is over, and the workers' context with it
    store,          \* whether the pool is open
    starts          \* how often a replica was started

database   == <<schema, recorded, lock>>
process    == <<phase, version, worker, reachable, handlers, cancelled, store>>
serverVars == <<database, process, starts>>

NoSession == "none"
To(r, p) == phase' = [phase EXCEPT ![r] = p]

-------------------------------------------------------------------------------
(* service.New and repository.Migrate *)

Open(r) ==
    /\ phase[r] = "down" /\ starts < MaxStarts
    /\ To(r, "opened")
    /\ store' = [store EXCEPT ![r] = "open"]
    /\ version' = [version EXCEPT ![r] = 1]
    /\ starts' = starts + 1
    /\ UNCHANGED <<database, worker, reachable, handlers, cancelled>>

Acquire(r) ==
    /\ phase[r] = "opened" /\ lock = NoSession
    /\ To(r, "migrating")
    /\ lock' = r
    /\ UNCHANGED <<schema, recorded, version, worker, reachable, handlers, cancelled, store, starts>>

SkipApplied(r) ==
    /\ phase[r] = "migrating" /\ version[r] \in recorded
    /\ version' = [version EXCEPT ![r] = @ + 1]
    /\ UNCHANGED <<database, phase, worker, reachable, handlers, cancelled, store, starts>>

BeginMigration(r) ==
    /\ phase[r] = "migrating" /\ version[r] \in (1 .. LastVersion) \ recorded
    /\ To(r, "applying")
    /\ UNCHANGED <<database, version, worker, reachable, handlers, cancelled, store, starts>>

(* The statements and the row of schema_migrations, whose key is the       *)
(* version, are one transaction.                                           *)
CommitMigration(r) ==
    /\ phase[r] = "applying" /\ version[r] \notin recorded
    /\ To(r, "migrating")
    /\ schema' = Append(schema, version[r])
    /\ recorded' = recorded \cup {version[r]}
    /\ version' = [version EXCEPT ![r] = @ + 1]
    /\ UNCHANGED <<lock, worker, reachable, handlers, cancelled, store, starts>>

Released(r) == IF lock = r THEN NoSession ELSE lock

Unlock(r) ==
    /\ phase[r] = "migrating" /\ version[r] > LastVersion
    /\ To(r, "migrated")
    /\ lock' = Released(r)
    /\ UNCHANGED <<schema, recorded, version, worker, reachable, handlers, cancelled, store, starts>>

(* An error or the timeout of the migrations: the transaction is rolled    *)
(* back, the pool closed, and Run returns.                                 *)
MigrationFails(r) ==
    /\ phase[r] \in {"opened", "migrating", "applying"}
    /\ To(r, "down")
    /\ lock' = Released(r)
    /\ store' = [store EXCEPT ![r] = "closed"]
    /\ UNCHANGED <<schema, recorded, version, worker, reachable, handlers, cancelled, starts>>

-------------------------------------------------------------------------------
(* Run and the workers *)

(* Each worker begins with a run.                                          *)
StartWorkers(r) ==
    /\ phase[r] = "migrated"
    /\ To(r, "serving")
    /\ worker' = [worker EXCEPT ![r] = [w \in Workers |-> "running"]]
    /\ cancelled' = [cancelled EXCEPT ![r] = FALSE]
    /\ reachable' = [reachable EXCEPT ![r] = TRUE]
    /\ UNCHANGED <<database, version, handlers, store, starts>>

(* select may take the ticker although the context is over; such a run     *)
(* ends at its first statement, long before the ticker fires again.        *)
WorkerRuns(r, w) ==
    /\ worker[r][w] = "waiting"
    /\ worker' = [worker EXCEPT ![r][w] = IF cancelled[r] THEN "late" ELSE "running"]
    /\ UNCHANGED <<database, phase, version, reachable, handlers, cancelled, store, starts>>

RunEnds(r, w) ==
    /\ worker[r][w] \in {"running", "late"}
    /\ worker' = [worker EXCEPT ![r][w] = IF @ = "late" THEN "returned" ELSE "waiting"]
    /\ UNCHANGED <<database, phase, version, reachable, handlers, cancelled, store, starts>>

WorkerReturns(r, w) ==
    /\ worker[r][w] = "waiting" /\ cancelled[r]
    /\ worker' = [worker EXCEPT ![r][w] = "returned"]
    /\ UNCHANGED <<database, phase, version, reachable, handlers, cancelled, store, starts>>

(* Connections that are kept alive bring requests until Shutdown has       *)
(* closed them; if ListenAndServe failed, until the process is gone.       *)
Handle(r) ==
    /\ reachable[r] /\ ~handlers[r]
    /\ handlers' = [handlers EXCEPT ![r] = TRUE]
    /\ UNCHANGED <<database, phase, version, worker, reachable, cancelled, store, starts>>

HandlersEnd(r) ==
    /\ handlers[r]
    /\ handlers' = [handlers EXCEPT ![r] = FALSE]
    /\ UNCHANGED <<database, phase, version, worker, reachable, cancelled, store, starts>>

(* The signal cancels the workers at once, and Shutdown begins.            *)
Signal(r) ==
    /\ phase[r] = "serving"
    /\ To(r, "draining")
    /\ cancelled' = [cancelled EXCEPT ![r] = TRUE]
    /\ UNCHANGED <<database, version, worker, reachable, handlers, store, starts>>

Stop(r) ==
    /\ To(r, "stopping")
    /\ cancelled' = [cancelled EXCEPT ![r] = TRUE]
    /\ UNCHANGED <<database, version, worker, handlers, store, starts>>

(* Shutdown returns when no handler is left, or after its timeout; then    *)
(* connections are closed but handlers go on.                              *)
Drained(r) ==
    /\ phase[r] = "draining" /\ Stop(r)
    /\ reachable' = [reachable EXCEPT ![r] = FALSE]

(* ListenAndServe fails without a signal; workers.Stop cancels then.       *)
ListenFails(r) == phase[r] = "serving" /\ Stop(r) /\ UNCHANGED reachable

MutantJoined(r) == cancelled[r]

Joined(r) == \A w \in Workers : worker[r][w] = "returned"

(* The deferred calls, last first: workers.Stop, then svc.Close.           *)
Close(r) ==
    /\ phase[r] = "stopping" /\ Joined(r)
    /\ To(r, "closed")
    /\ store' = [store EXCEPT ![r] = "closed"]
    /\ UNCHANGED <<database, version, worker, reachable, handlers, cancelled, starts>>

Exited(r) ==
    /\ To(r, "down")
    /\ worker' = [worker EXCEPT ![r] = [w \in Workers |-> "returned"]]
    /\ handlers' = [handlers EXCEPT ![r] = FALSE]
    /\ reachable' = [reachable EXCEPT ![r] = FALSE]
    /\ store' = [store EXCEPT ![r] = "closed"]
    /\ lock' = Released(r)
    /\ UNCHANGED <<schema, recorded, version, cancelled, starts>>

Exit(r) == phase[r] = "closed" /\ Exited(r)

(* The session ends with the process, its lock and transaction with it.    *)
Die(r) == phase[r] \notin {"down", "closed"} /\ Exited(r)

LifeInit ==
    /\ schema = <<>> /\ recorded = {} /\ lock = NoSession /\ starts = 0
    /\ phase = [r \in Servers |-> "down"] /\ version = [r \in Servers |-> 1]
    /\ worker = [r \in Servers |-> [w \in Workers |-> "returned"]]
    /\ reachable = [r \in Servers |-> FALSE]
    /\ handlers = [r \in Servers |-> FALSE] /\ cancelled = [r \in Servers |-> FALSE]
    /\ store = [r \in Servers |-> "closed"]

Running(r) ==
    \/ Acquire(r) \/ SkipApplied(r) \/ BeginMigration(r) \/ CommitMigration(r) \/ Unlock(r)
    \/ StartWorkers(r) \/ Drained(r) \/ Close(r) \/ Exit(r)

LifeNext ==
    \/ \E r \in Servers :
         Running(r) \/ Open(r) \/ MigrationFails(r) \/ Handle(r) \/ HandlersEnd(r)
         \/ Signal(r) \/ ListenFails(r) \/ Die(r)
    \/ \E r \in Servers, w \in Workers :
         WorkerRuns(r, w) \/ RunEnds(r, w) \/ WorkerReturns(r, w)

LifeSpec == LifeInit /\ [][LifeNext]_serverVars

-------------------------------------------------------------------------------
(* Properties *)

(* Whoever starts together and dies in between, each migration takes       *)
(* effect once, in order; workers and handlers work on the whole schema,   *)
(* workers never on a store that is closed, and handlers only if Shutdown  *)
(* gave up on them and the process is about to exit.                       *)
OrderlyLife ==
    /\ schema = [i \in 1 .. Len(schema) |-> i] /\ recorded = Range(schema)
    /\ \A r \in Servers :
         LET works == \E w \in Workers : worker[r][w] # "returned"
         IN  /\ works \/ handlers[r] => Len(schema) = LastVersion
             /\ works => store[r] = "open"
             /\ handlers[r] => store[r] = "open" \/ phase[r] = "closed"

(* A replica that stops is down in the end, however its workers and        *)
(* handlers are caught.                                                    *)
StopsInTheEnd ==
    \A r \in Servers : phase[r] \in {"draining", "stopping"} ~> phase[r] = "down"
===============================================================================
