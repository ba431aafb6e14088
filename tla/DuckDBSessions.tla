---------------------------- MODULE DuckDBSessions ----------------------------
(***************************************************************************)
(* DuckDB sessions: DuckDBSessionManager (query/session_manager.py), the   *)
(* RedisCountingSemaphore that caps the queries of all workers together    *)
(* (query/_redis_semaphore.py) and the watchdog of query and graph_query   *)
(* (run_duckdb_interruptible, query/olap.py), which frees a request whose  *)
(* query hangs; sessions of other requests hang with their queries.        *)
(*                                                                         *)
(* The threads of a worker's OLAP executor take a permit, from Redis or,   *)
(* when Redis fails, from the worker's own semaphore; open or reuse a      *)
(* connection; run a query; give back first the connection and then the    *)
(* permit. The release goes where the *thread-local* flag of the releasing *)
(* thread and the state of the Redis connection say, which need not be     *)
(* where the permit came from. took[t] remembers the latter.               *)
(*                                                                         *)
(* Statistics, metrics, the settings of a connection and what queries      *)
(* register on it are left out. Time is left out: the counter's key may    *)
(* expire whenever it has an expiry, a wait may run out whenever no permit *)
(* is free.                                                                *)
(***************************************************************************)
EXTENDS Integers, FiniteSets, Sequences

CONSTANTS
    Workers,     \* API processes
    Threads,     \* threads of their OLAP executors
    WorkerOf,    \* the worker a thread belongs to
    Unwatched,   \* bound: the threads that also serve requests without watchdog
    MaxPermits,  \* max_concurrent_queries: permits of every semaphore, and
                 \* the size of every idle pool
    MaxFaults,   \* bound: failing Redis commands, connections and reads
    MaxRestarts  \* bound: restarts of a worker

ASSUME SessionConstants ==
    /\ IsFiniteSet(Workers) /\ IsFiniteSet(Threads)
    /\ WorkerOf \in [Threads -> Workers]
    /\ Unwatched \subseteq Threads
    /\ MaxPermits \in Nat \ {0}
    /\ MaxFaults \in Nat
    /\ MaxRestarts \in Nat

VARIABLES
    permits,    \* value of the counter key in Redis
    ttl,        \* the counter key has an expiry
    connected,  \* worker -> RedisCountingSemaphore._connected
    sem,        \* worker -> permits left in _fallback
    idle,       \* worker -> _idle_pool: whether a daemonised query still runs
                \* on the connection ("busy") or not ("clean")
    pc,         \* thread -> where its request is
    took,       \* thread -> where its permit came from
    viaRedis,   \* thread -> _acquired_via_redis.v, FALSE when it has no permit
    astray,     \* worker -> how its own semaphore came to be used: "no", "lost"
                \* (Redis permits went to it), "blip" (and the other way round)
    minted,     \* permits were forgotten that somebody holds
    faults, restarts

vars == <<permits, ttl, connected, sem, idle, pc, took, viaRedis,
          astray, minted, faults, restarts>>

redisVars == <<permits, ttl>>
localVars == <<connected, sem>>
faultVars == <<astray, minted, faults, restarts>>

Waiting == {"redis", "fell", "local"}
InSession == {"open", "wedged", "blocked", "stuck", "left"}
Sources == {"none", "redis", "local"}

(* Threads whose sessions hold a permit. A query that outlived its session goes
   on in a daemon thread and is not one of them. *)
Holders == {t \in Threads : took[t] # "none"}

TypeOK ==
    /\ permits \in 0 .. MaxPermits
    /\ ttl \in BOOLEAN
    /\ connected \in [Workers -> BOOLEAN]
    /\ sem \in [Workers -> Nat]
    /\ idle \in [Workers -> Seq({"clean", "busy"})]
    /\ \A w \in Workers : Len(idle[w]) <= MaxPermits
    /\ pc \in [Threads -> Waiting \union InSession
                          \union {"idle", "granted"}]
    /\ took \in [Threads -> Sources]
    /\ viaRedis \in [Threads -> BOOLEAN]
    /\ astray \in [Workers -> {"no", "lost", "blip"}]
    /\ minted \in BOOLEAN
    /\ faults \in 0 .. MaxFaults
    /\ restarts \in 0 .. MaxRestarts

Init ==
    /\ permits = 0
    /\ ttl = FALSE
    /\ connected = [w \in Workers |-> TRUE]
    /\ sem = [w \in Workers |-> MaxPermits]
    /\ idle = [w \in Workers |-> <<>>]
    /\ pc = [t \in Threads |-> "idle"]
    /\ took = [t \in Threads |-> "none"]
    /\ viaRedis = [t \in Threads |-> FALSE]
    /\ astray = [w \in Workers |-> "no"]
    /\ minted = FALSE
    /\ faults = 0
    /\ restarts = 0

-------------------------------------------------------------------------------
(* The two Lua scripts, on the counter key. *)

LuaAcquireNoExpiry ==
    /\ permits < MaxPermits
    /\ permits' = permits + 1
    /\ ttl' = ttl

LuaAcquire ==
    /\ permits < MaxPermits
    /\ permits' = permits + 1
    /\ ttl' = IF permits + 1 = 1 THEN TRUE ELSE ttl

LuaRelease ==
    /\ permits' = IF permits > 0 THEN permits - 1 ELSE permits
    /\ ttl' = ttl

(* _handle_redis_error: disconnected, and connected again when the ping that
   follows at once gets an answer. *)
HandleRedisError(w, ping) ==
    /\ faults < MaxFaults
    /\ faults' = faults + 1
    /\ connected' = [connected EXCEPT ![w] = ping]
    /\ astray' = [astray EXCEPT ![w] = IF ping \/ @ = "blip" THEN "blip" ELSE "lost"]
    /\ UNCHANGED <<minted, restarts>>

-------------------------------------------------------------------------------
(* acquire(): the request queues at Redis, or at the worker's own semaphore
   when the Redis connection was lost earlier. *)
Acquire(t) ==
    LET w == WorkerOf[t] IN
    /\ pc[t] = "idle"
    /\ pc' = [pc EXCEPT ![t] = IF connected[w] THEN "redis" ELSE "local"]
    /\ UNCHANGED <<redisVars, localVars, idle, faultVars, took, viaRedis>>

Granted(t, source, flag) ==
    /\ pc' = [pc EXCEPT ![t] = "granted"]
    /\ took' = [took EXCEPT ![t] = source]
    /\ viaRedis' = [viaRedis EXCEPT ![t] = flag]

(* One round of the polling loop of _redis_acquire that gets a permit. *)
RedisGrant(t) ==
    /\ pc[t] = "redis"
    /\ LuaAcquire
    /\ Granted(t, "redis", TRUE)
    /\ UNCHANGED <<localVars, idle, faultVars>>

(* The script fails, or runs and its answer is lost: the permit it counted
   then belongs to nobody. The request goes on at the worker's semaphore, but
   inside _redis_acquire. *)
RedisAcquireFails(t) ==
    /\ pc[t] = "redis"
    /\ LuaAcquire \/ UNCHANGED redisVars
    /\ \E ping \in BOOLEAN : HandleRedisError(WorkerOf[t], ping)
    /\ pc' = [pc EXCEPT ![t] = "fell"]
    /\ UNCHANGED <<sem, idle, took, viaRedis>>

(* A permit of the worker's own semaphore. A request that came here from
   _redis_acquire is still noted as acquired through Redis. *)
LocalGrant(t) ==
    LET w == WorkerOf[t] IN
    /\ pc[t] \in {"fell", "local"}
    /\ sem[w] > 0
    /\ sem' = [sem EXCEPT ![w] = @ - 1]
    /\ Granted(t, "local", pc[t] = "fell")
    /\ UNCHANGED <<redisVars, connected, idle, faultVars>>

AcquireTimesOutAtRedis(t) ==
    /\ pc[t] = "redis" /\ permits >= MaxPermits
    /\ pc' = [pc EXCEPT ![t] = "idle"]
    /\ UNCHANGED <<redisVars, localVars, idle, faultVars, took, viaRedis>>

(* The deadline passes with no permit free: TimeoutError. *)
AcquireTimesOut(t) ==
    /\ \/ pc[t] = "redis" /\ permits >= MaxPermits
       \/ pc[t] \in {"fell", "local"} /\ sem[WorkerOf[t]] = 0
    /\ pc' = [pc EXCEPT ![t] = "idle"]
    /\ UNCHANGED <<redisVars, localVars, idle, faultVars, took, viaRedis>>

-------------------------------------------------------------------------------
ReleaseBoth(t, flag) ==
    LET w == WorkerOf[t] IN
    /\ IF flag /\ connected[w] THEN LuaRelease ELSE UNCHANGED redisVars
    /\ sem' = [sem EXCEPT ![w] = @ + 1]
    /\ UNCHANGED <<connected, faultVars>>
    /\ pc' = [pc EXCEPT ![t] = "idle"]
    /\ took' = [took EXCEPT ![t] = "none"]
    /\ viaRedis' = [viaRedis EXCEPT ![t] = FALSE]

(* release() of the semaphore: to Redis when the thread that releases is noted
   as having acquired through Redis and Redis is connected, to the worker's own
   semaphore otherwise. An error of the release script is swallowed; the script
   may have run. *)
ReleasePermit(t, flag) ==
    LET w == WorkerOf[t]
        toRedis == flag /\ connected[w]
    IN  /\ \/ /\ toRedis
              /\ LuaRelease
              /\ UNCHANGED <<localVars, faultVars>>
           \/ /\ toRedis
              /\ LuaRelease \/ UNCHANGED redisVars
              /\ \E ping \in BOOLEAN : HandleRedisError(w, ping)
              /\ UNCHANGED sem
           \/ /\ ~toRedis
              /\ sem' = [sem EXCEPT ![w] = @ + 1]
              /\ astray' = IF took[t] = "redis" /\ astray[w] = "no"
                           THEN [astray EXCEPT ![w] = "lost"] ELSE astray
              /\ UNCHANGED <<redisVars, connected, minted, faults, restarts>>
        /\ pc' = [pc EXCEPT ![t] = "idle"]
        /\ took' = [took EXCEPT ![t] = "none"]
        /\ viaRedis' = [viaRedis EXCEPT ![t] = FALSE]

-------------------------------------------------------------------------------
(* _acquire_connection: idle connections are popped, oldest first, and closed
   until one is young enough and answers. *)
ReuseIdle(t) ==
    LET w == WorkerOf[t] IN
    /\ pc[t] = "granted"
    /\ \E i \in 1 .. Len(idle[w]) :
         idle' = [idle EXCEPT ![w] = SubSeq(@, i + 1, Len(@))]
    /\ pc' = [pc EXCEPT ![t] = "open"]
    /\ UNCHANGED <<redisVars, localVars, faultVars, took, viaRedis>>

(* None of them was usable: a new connection is made, at the second attempt at
   the latest. *)
CreateConnection(t) ==
    /\ pc[t] = "granted"
    /\ idle' = [idle EXCEPT ![WorkerOf[t]] = <<>>]
    /\ pc' = [pc EXCEPT ![t] = "open"]
    /\ UNCHANGED <<redisVars, localVars, faultVars, took, viaRedis>>

(* Both attempts fail with a duckdb.Error: acquire gives the permit back. *)
CreateFails(t) ==
    /\ pc[t] = "granted"
    /\ idle' = [idle EXCEPT ![WorkerOf[t]] = <<>>]
    /\ ReleasePermit(t, viaRedis[t])

(* An extension cannot be loaded: ArrowLakeError is not a duckdb.Error, so
   acquire gives nothing back. *)
CreateLeaksPermit(t) ==
    /\ pc[t] = "granted"
    /\ idle' = [idle EXCEPT ![WorkerOf[t]] = <<>>]
    /\ faults < MaxFaults
    /\ faults' = faults + 1
    /\ pc' = [pc EXCEPT ![t] = "idle"]
    /\ took' = [took EXCEPT ![t] = "none"]
    /\ viaRedis' = [viaRedis EXCEPT ![t] = FALSE]
    /\ UNCHANGED <<redisVars, localVars, astray, minted, restarts>>

-------------------------------------------------------------------------------
(* The query hangs in native code that does not poll DuckDB's interrupt flag:
   under the watchdog in query and graph_query, by itself everywhere else. *)
QueryHangs(t) ==
    /\ pc[t] = "open"
    /\ \/ pc' = [pc EXCEPT ![t] = "wedged"]
       \/ t \in Unwatched /\ pc' = [pc EXCEPT ![t] = "stuck"]
    /\ UNCHANGED <<redisVars, localVars, idle, faultVars, took, viaRedis>>

(* The dataset cannot be read after the session was acquired and before it was
   entered: nobody releases it, its finalizer will. *)
SessionLeft(t) ==
    /\ pc[t] = "open"
    /\ faults < MaxFaults
    /\ faults' = faults + 1
    /\ pc' = [pc EXCEPT ![t] = "left"]
    /\ UNCHANGED <<redisVars, localVars, idle, astray, minted, restarts, took,
                   viaRedis>>

(* _return_or_close: the connection is kept when it is healthy and the pool has
   room, and closed otherwise; then the permit is released. *)
ReturnOrClose(t, healthy, state, flag) ==
    LET w == WorkerOf[t] IN
    /\ idle' = IF healthy /\ Len(idle[w]) < MaxPermits
               THEN [idle EXCEPT ![w] = Append(@, state)]
               ELSE idle
    /\ ReleasePermit(t, flag)

(* The query ended, or the watchdog's interrupt ended it: _release_session. *)
ReleaseSession(t) ==
    /\ pc[t] = "open"
    /\ \E healthy \in BOOLEAN : ReturnOrClose(t, healthy, "clean", viaRedis[t])

(* Faulty: the mark is not looked at. *)
WatchdogUnmarked(t) ==
    /\ pc[t] = "wedged"
    /\ \E healthy \in BOOLEAN : ReturnOrClose(t, healthy, "busy", viaRedis[t])

(* run_duckdb_interruptible when the query survives the interrupt and its
   grace: on_uninterruptible marks the session, the finally of query and
   graph_query cleans up, and the release closes the connection without a health
   check. The query goes on in a daemon thread. *)
Watchdog(t) ==
    /\ pc[t] = "wedged"
    /\ ReturnOrClose(t, FALSE, "busy", viaRedis[t])

(* _cleanup_registration, before the release, unregisters and drops on the
   connection that the query still runs on; nothing bounds it. *)
CleanupBlocks(t) ==
    /\ pc[t] = "wedged"
    /\ pc' = [pc EXCEPT ![t] = "blocked"]
    /\ UNCHANGED <<redisVars, localVars, idle, faultVars, took, viaRedis>>

(* The native query returns after all, and what waited for it goes on. *)
NativeReturns(t) ==
    /\ pc[t] \in {"stuck", "blocked"}
    /\ pc' = [pc EXCEPT ![t] = IF @ = "stuck" THEN "open" ELSE "wedged"]
    /\ UNCHANGED <<redisVars, localVars, idle, faultVars, took, viaRedis>>

(* The finalizer of a session nobody released runs on whichever thread drops
   the last reference, mostly the event loop's, which never acquired: the flag
   the release looks at is that thread's. *)
Finalize(t) ==
    /\ pc[t] = "left"
    /\ \E healthy, flag \in BOOLEAN : ReturnOrClose(t, healthy, "clean", flag)

-------------------------------------------------------------------------------
(* The counter key reaches its expiry. *)
KeyExpires ==
    /\ ttl
    /\ permits' = 0
    /\ ttl' = FALSE
    /\ minted' = \/ minted
                 \/ \E t \in Threads : took[t] = "redis"
                 \/ \E w \in Workers : astray[w] # "no"
    /\ UNCHANGED <<localVars, idle, astray, faults, restarts, pc, took, viaRedis>>

(* A worker dies, by a crash or after shutdown(), and starts again, finding
   Redis or not. What it counted in Redis stays counted. *)
Restart(w) ==
    /\ restarts < MaxRestarts
    /\ restarts' = restarts + 1
    /\ \E up \in BOOLEAN :
         /\ connected' = [connected EXCEPT ![w] = up]
         /\ astray' = [astray EXCEPT ![w] = IF up THEN "no" ELSE "lost"]
    /\ minted' = (minted \/ astray[w] = "blip")
    /\ sem' = [sem EXCEPT ![w] = MaxPermits]
    /\ idle' = [idle EXCEPT ![w] = <<>>]
    /\ pc' = [t \in Threads |-> IF WorkerOf[t] = w THEN "idle" ELSE pc[t]]
    /\ took' = [t \in Threads |-> IF WorkerOf[t] = w THEN "none" ELSE took[t]]
    /\ viaRedis' = [t \in Threads |-> WorkerOf[t] # w /\ viaRedis[t]]
    /\ UNCHANGED <<redisVars, faults>>

-------------------------------------------------------------------------------
(* Steps of a request that its thread, or the garbage collector, takes. *)
Progress(t) ==
    \/ RedisGrant(t) \/ RedisAcquireFails(t) \/ LocalGrant(t)
    \/ AcquireTimesOut(t)
    \/ ReuseIdle(t) \/ CreateConnection(t) \/ CreateFails(t)
    \/ CreateLeaksPermit(t)
    \/ ReleaseSession(t) \/ Watchdog(t) \/ Finalize(t)

Next ==
    \/ \E t \in Threads :
          \/ Acquire(t) \/ QueryHangs(t) \/ CleanupBlocks(t) \/ NativeReturns(t)
          \/ SessionLeft(t) \/ Progress(t)
    \/ \E w \in Workers : Restart(w)
    \/ KeyExpires

Spec == Init /\ [][Next]_vars

Fairness ==
    /\ \A t \in Threads : WF_vars(Progress(t))
    /\ WF_vars(KeyExpires)

FairSpec == Spec /\ Fairness

-------------------------------------------------------------------------------
(* The sessions of all workers that hold a permit are never more than
   max_concurrent_queries, whatever connections break, queries hang, permits leak
   and workers die; and a worker that lost Redis, or finalized a session on a
   thread that had not acquired it, adds at most max_concurrent_queries more.
   What undoes the cap is an expiry of the counter key under its holders, and the
   restart of a worker that returned permits of its own semaphore to Redis. It is
   no cap on the queries that run: the watchdog returns the permit of a query that
   survives its interrupt, and the query goes on. *)
ClusterCap ==
    ~minted => Cardinality(Holders)
                 <= MaxPermits * (1 + Cardinality({w \in Workers : astray[w] # "no"}))

(* The connection of a query that survived its interrupt is not handed to
   another request: it never enters the idle pool. *)
StuckNeverPooled ==
    \A w \in Workers : \A i \in 1 .. Len(idle[w]) : idle[w][i] = "clean"

(* Every request ends, in an answer, an error or a timeout, and its thread is free
   again, also when its query hangs in native code under the watchdog and whatever
   other requests are stuck with their permits. The exceptions are a query outside
   the watchdog and a clean-up on the connection of a query that survived its
   interrupt, as long as the native query does not return. *)
EveryRequestEnds ==
    \A t \in Threads : (pc[t] # "idle") ~> (pc[t] \in {"idle", "stuck", "blocked"})

(* Permits that dead workers, lost answers and failed acquires left counted in
   Redis do not block the cluster for ever: a full counter is not full for
   ever. *)
FullCounterDrains ==
    (permits >= MaxPermits) ~> (permits < MaxPermits)

-------------------------------------------------------------------------------
(***************************************************************************)
(* The inductive invariant behind ClusterCap.                              *)
(***************************************************************************)

(* A thread has a permit from the grant to the release; it is at its worker's
   own semaphore only where Redis was lost, and where it is back, it is back
   after an error. *)
ThreadOk(t) ==
    LET w == WorkerOf[t] IN
    /\ took[t] # "none" <=> pc[t] \in InSession \union {"granted"}
    /\ took[t] = "local" \/ pc[t] \in {"fell", "local"}
          => astray[w] # "no" /\ (connected[w] => astray[w] = "blip")

WorkerOk(w) == astray[w] = "no" => connected[w] /\ sem[w] = MaxPermits

(* What a worker can still grant by itself, now or after a restart: only where
   its permits went to Redis does a restart give it more than its semaphore has. *)
LocalHolders(w) == {t \in Threads : WorkerOf[t] = w /\ took[t] = "local"}

Reserve(w) ==
    LET restarted == MaxPermits - Cardinality(LocalHolders(w)) IN
    IF astray[w] = "blip" \/ sem[w] >= restarted THEN sem[w] ELSE restarted

Cells(r) == UNION {{w} \X (1 .. r[w]) : w \in Workers}

Reserves == Cells([w \in Workers |-> Reserve(w)])

(* Every permit in use and every permit a worker can grant by itself is counted
   in Redis or is one of max_concurrent_queries of its worker. *)
PermitsCounted ==
    ~minted => Cardinality(Holders) + Cardinality(Reserves)
                 <= permits + MaxPermits * Cardinality(Workers)

CapInv ==
    /\ \A t \in Threads : ThreadOk(t)
    /\ \A w \in Workers : WorkerOk(w)
    /\ PermitsCounted
===============================================================================
