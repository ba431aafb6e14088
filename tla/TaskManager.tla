---------------------------- MODULE TaskManager ----------------------------
(***************************************************************************)
(* Background tasks (api/tasks.py) and their mirror in Redis               *)
(* (api/_redis_task_store.py): creation, the slot gate in front of the     *)
(* ingest executor, heartbeats, the lifetime limit, queries by any worker, *)
(* the death of workers and the reaping of orphans when one starts.        *)
(*                                                                         *)
(* A task object belongs to the process that created it; the other workers *)
(* see copies.  Redis may drop a write.  Time advances in ticks; a running *)
(* task sleeps Beat ticks between heartbeats, a call of Redis holds the    *)
(* event loop for up to Delay ticks, and an active task whose stamp is     *)
(* Stale ticks old is an orphan to a worker that starts.                   *)
(***************************************************************************)
EXTENDS Naturals, FiniteSets

CONSTANTS
    Workers, Tasks,
    Owner,       \* the worker that creates a task
    Slots,       \* size of the ingest executor, and of its gate
    Beat,        \* _HEARTBEAT_INTERVAL_SECONDS
    Delay,       \* how long calls of Redis that time out may hold up a heartbeat
    Stale,       \* _ORPHAN_STALE_SECONDS
    MaxMisses    \* consecutive heartbeats that Redis may drop

ASSUME TaskAssumption ==
    /\ Owner \in [Tasks -> Workers] /\ IsFiniteSet(Tasks)
    /\ Slots \in Nat \ {0}
ASSUME StampAssumption ==
    /\ Beat \in Nat \ {0} /\ Delay \in Nat /\ Stale \in Nat /\ MaxMisses \in Nat
    /\ Delay + (MaxMisses + 1) * (Beat + Delay) < Stale

VARIABLES
    up,        \* workers: "up", "starting" (reaping), "down"
    todo,      \* task ids a starting worker has still to look at
    entry,     \* _tasks of each worker: "none", "own" (the object), or a copy's status
    obj,       \* status of the object
    phase,     \* how far run_background is
    thread,    \* the function in the executor ("none": not submitted, or a coroutine)
    free,      \* free slots of each worker's gate
    redis,     \* status in the Redis hash ("none": no hash)
    index,     \* the Redis set of task ids
    history,   \* verdict in the task_history table
    beat,      \* ticks since the heartbeat coroutine went to sleep
    stamp,     \* age of the heartbeat in Redis, or of created_at, up to Stale
    misses,    \* consecutive heartbeats that were dropped
    beaten     \* history: unfinished tasks with a heartbeat in Redis

procs == <<up, todo>>
store == <<redis, index, history>>
clock == <<beat, stamp, misses, beaten>>
vars  == <<procs, entry, obj, phase, thread, free, store, clock>>

Active   == {"pending", "running"}
Verdicts == {"completed", "failed"}
Statuses == Active \cup Verdicts \cup {"none"}

Beats(t)   == phase[t] = "running"
IsUp(t)    == up[Owner[t]] = "up"
Holders(w) == {t \in Tasks : Owner[t] = w /\ phase[t] = "running" /\ thread[t] # "none"}
Busy(w)    == {t \in Tasks : Owner[t] = w /\ thread[t] = "running"}

Init ==
    /\ up = [w \in Workers |-> "up"] /\ todo = [w \in Workers |-> {}]
    /\ entry = [w \in Workers |-> [t \in Tasks |-> "none"]]
    /\ obj = [t \in Tasks |-> "none"]
    /\ phase = [t \in Tasks |-> "none"]
    /\ thread = [t \in Tasks |-> "none"]
    /\ free = [w \in Workers |-> Slots]
    /\ redis = [t \in Tasks |-> "none"] /\ index = {}
    /\ history = [t \in Tasks |-> "none"]
    /\ beat = [t \in Tasks |-> 0] /\ stamp = [t \in Tasks |-> 0]
    /\ misses = [t \in Tasks |-> 0] /\ beaten = {}

\* _sync_to_redis writes the whole object; a write that fails is dropped.
Mirror(t, st) == redis' \in {redis, [redis EXCEPT ![t] = st]}

\* _persist_history upserts the verdict, or fails softly.
Record(t, st) == history' \in {history, [history EXCEPT ![t] = st]}

SetObj(t, st) == obj' = [obj EXCEPT ![t] = st]
Enter(t, ph)  == phase' = [phase EXCEPT ![t] = ph]

----------------------------------------------------------------------------
(* The owner *)

EntryOf(w, t) == IF entry[w][t] = "own" THEN obj[t] ELSE entry[w][t]

\* What _evict_expired may drop once it is old: finished entries of the worker,
\* and in Redis finished tasks and ids without a hash.
Evictable(w) == {t \in Tasks : EntryOf(w, t) \in Verdicts}
Deletable    == {t \in index : redis[t] \notin Active}

\* create_task evicts, and puts the id into the index, which update_task does not.
Create(t) ==
    /\ phase[t] = "none" /\ IsUp(t)
    /\ SetObj(t, "pending") /\ Enter(t, "created")
    /\ \E old \in SUBSET Evictable(Owner[t]), gone \in SUBSET Deletable, mirrored \in BOOLEAN :
          LET new == IF mirrored THEN {t} ELSE {}
          IN  /\ entry' = [entry EXCEPT ![Owner[t]] =
                               [u \in Tasks |-> IF u = t THEN "own"
                                                ELSE IF u \in old THEN "none" ELSE @[u]]]
              /\ redis' = [u \in Tasks |-> IF u \in new THEN "pending"
                                            ELSE IF u \in gone THEN "none" ELSE redis[u]]
              /\ index' = (index \ gone) \cup new
    /\ UNCHANGED <<procs, thread, free, history, clock>>

\* run_background begins: a coroutine runs at once, anything else queues.
Begin(t) ==
    /\ phase[t] = "created"
    /\ \/ /\ SetObj(t, "running") /\ Enter(t, "running") /\ Mirror(t, "running")
       \/ /\ SetObj(t, "pending") /\ Enter(t, "queued") /\ Mirror(t, "pending")
    /\ UNCHANGED <<procs, entry, thread, free, index, history, clock>>

\* _gated gets a slot, marks the task running and submits the function.
Acquire(t) ==
    /\ phase[t] = "queued" /\ free[Owner[t]] > 0
    /\ free' = [free EXCEPT ![Owner[t]] = @ - 1]
    /\ SetObj(t, "running") /\ Enter(t, "running") /\ Mirror(t, "running")
    /\ thread' = [thread EXCEPT ![t] = "waiting"]
    /\ UNCHANGED <<procs, entry, index, history, clock>>

\* A thread of the executor takes the function, and returns from it.
ThreadStart(t) ==
    /\ thread[t] = "waiting" /\ Cardinality(Busy(Owner[t])) < Slots
    /\ thread' = [thread EXCEPT ![t] = "running"]
    /\ UNCHANGED <<procs, entry, obj, phase, free, store, clock>>

ThreadEnd(t) ==
    /\ thread[t] = "running"
    /\ thread' = [thread EXCEPT ![t] = "done"]
    /\ UNCHANGED <<procs, entry, obj, phase, free, store, clock>>

\* Faulty: the slot is released in every case, also by a task that waits for one.
ReleasesAlways(t) == free' = [free EXCEPT ![Owner[t]] = @ + 1]

\* The finally of _gated.
Release(t) ==
    free' = IF t \in Holders(Owner[t]) THEN [free EXCEPT ![Owner[t]] = @ + 1] ELSE free

\* The function has returned or raised; the object has its verdict.
Complete(t) ==
    /\ phase[t] = "running"
    /\ thread[t] \in {"none", "done"}
    /\ \E v \in Verdicts : SetObj(t, v)
    /\ Enter(t, "ended")
    /\ Release(t)
    /\ UNCHANGED <<procs, entry, thread, store, clock>>

\* Faulty: a function that was submitted is left in the executor's queue.
LeavesSubmitted(t) == thread' = thread

\* Cancelling the awaited future takes a function back that no thread has
\* started; one that runs goes on.
CancelSubmitted(t) ==
    thread' = IF thread[t] = "waiting" THEN [thread EXCEPT ![t] = "none"] ELSE thread

\* Faulty: no limit (the environment variable set to zero).
NoLifetime(t) == FALSE /\ UNCHANGED vars

\* wait_for cancels the coroutine, the wait for a slot included.
Lifetime(t) ==
    /\ phase[t] \in {"queued", "running"}
    /\ SetObj(t, "failed")
    /\ Enter(t, "ended")
    /\ Release(t)
    /\ CancelSubmitted(t)
    /\ UNCHANGED <<procs, entry, store, clock>>

\* The heartbeat coroutine has been cancelled and awaited; the verdict is
\* mirrored and recorded.
FinalSync(t) ==
    /\ phase[t] = "ended"
    /\ Enter(t, "over")
    /\ Mirror(t, obj[t]) /\ Record(t, obj[t])
    /\ beat' = [beat EXCEPT ![t] = 0] /\ misses' = [misses EXCEPT ![t] = 0]
    /\ beaten' = beaten \ {t}
    /\ UNCHANGED <<procs, entry, obj, thread, free, index, stamp>>

\* The heartbeat writes nothing while the task is queued.  Its stamp is the time
\* it woke up, before the call of Redis that carries it.
Heartbeat(t) ==
    /\ phase[t] = "running" /\ beat[t] >= Beat
    /\ beat' = [beat EXCEPT ![t] = 0]
    /\ redis' = [redis EXCEPT ![t] = obj[t]]
    /\ \E took \in 0 .. beat[t] - Beat : stamp' = [stamp EXCEPT ![t] = took]
    /\ misses' = [misses EXCEPT ![t] = 0]
    /\ beaten' = beaten \cup {t}
    /\ UNCHANGED <<procs, entry, obj, phase, thread, free, index, history>>

\* Redis refuses the write, or its timeout passes.
HeartbeatLost(t) ==
    /\ phase[t] = "running" /\ beat[t] >= Beat /\ misses[t] < MaxMisses
    /\ beat' = [beat EXCEPT ![t] = 0]
    /\ misses' = [misses EXCEPT ![t] = @ + 1]
    /\ UNCHANGED <<procs, entry, obj, phase, thread, free, store, stamp, beaten>>

----------------------------------------------------------------------------
(* Any worker *)

\* What get_task answers: an active entry of its own, then Redis, then the
\* history unless it has an entry.
View(w, t) ==
    IF EntryOf(w, t) \notin Active /\ redis[t] # "none" THEN redis[t]
    ELSE IF entry[w][t] = "none" THEN history[t] ELSE EntryOf(w, t)

\* get_task keeps what it found in Redis.
GetTask(w, t) ==
    /\ up[w] = "up"
    /\ EntryOf(w, t) \notin Active /\ redis[t] # "none"
    /\ entry' = [entry EXCEPT ![w][t] = redis[t]]
    /\ UNCHANGED <<procs, obj, phase, thread, free, store, clock>>

----------------------------------------------------------------------------
(* Death and restart of workers *)

\* The process dies with its objects, coroutines and threads.
Die(w) ==
    /\ up[w] # "down"
    /\ up' = [up EXCEPT ![w] = "down"] /\ todo' = [todo EXCEPT ![w] = {}]
    /\ entry' = [entry EXCEPT ![w] = [t \in Tasks |-> "none"]]
    /\ phase' = [t \in Tasks |-> IF Owner[t] = w /\ phase[t] # "none" THEN "over" ELSE phase[t]]
    /\ thread' = [t \in Tasks |-> IF Owner[t] = w THEN "none" ELSE thread[t]]
    /\ free' = [free EXCEPT ![w] = Slots]
    /\ beat' = [t \in Tasks |-> IF Owner[t] = w THEN 0 ELSE beat[t]]
    /\ misses' = [t \in Tasks |-> IF Owner[t] = w THEN 0 ELSE misses[t]]
    /\ beaten' = {t \in beaten : Owner[t] # w}
    /\ UNCHANGED <<obj, store, stamp>>

\* A worker starts: it reads the index if Redis answers, then looks at the
\* tasks one by one.
Restart(w) ==
    /\ up[w] = "down"
    /\ up' = [up EXCEPT ![w] = "starting"]
    /\ todo' \in {todo, [todo EXCEPT ![w] = index]}
    /\ UNCHANGED <<entry, obj, phase, thread, free, store, clock>>

\* Faulty: the age of a task is not looked at.
ReapsAnyAge(t) == redis[t] \in Active

Reapable(t) == redis[t] \in Active /\ stamp[t] >= Stale

\* get_task keeps a copy of every task it reads; one that is too old is failed,
\* in the copy, in Redis and in the history.
ReapTask(w, t) ==
    /\ t \in todo[w]
    /\ todo' = [todo EXCEPT ![w] = @ \ {t}]
    /\ \/ /\ Reapable(t)
          /\ entry' = [entry EXCEPT ![w][t] = "failed"]
          /\ Mirror(t, "failed") /\ Record(t, "failed")
       \/ /\ ~Reapable(t)
          /\ entry' = [entry EXCEPT ![w][t] = redis[t]]
          /\ UNCHANGED store
       \/ UNCHANGED <<entry, store>>    \* Redis does not answer
    /\ UNCHANGED <<up, obj, phase, thread, free, index, clock>>

Serve(w) ==
    /\ up[w] = "starting" /\ todo[w] = {}
    /\ up' = [up EXCEPT ![w] = "up"]
    /\ UNCHANGED <<todo, entry, obj, phase, thread, free, store, clock>>

\* Only create_task renews the expiry of the index.
IndexExpires ==
    /\ index # {}
    /\ index' = {}
    /\ UNCHANGED <<procs, entry, obj, phase, thread, free, redis, history, clock>>

\* Every write of a task renews the expiry of its hash; a task that is not
\* running is not written.
HashExpires(t) ==
    /\ redis[t] # "none" /\ ~Beats(t)
    /\ redis' = [redis EXCEPT ![t] = "none"]
    /\ UNCHANGED <<procs, entry, obj, phase, thread, free, index, history, clock>>

\* A tick passes; no heartbeat is held up for longer than Delay.
Tick ==
    /\ \A t \in Tasks : Beats(t) => beat[t] < Beat + Delay
    /\ beat' = [t \in Tasks |-> IF Beats(t) THEN beat[t] + 1 ELSE 0]
    /\ stamp' = [t \in Tasks |->
                    IF redis[t] \notin Active /\ phase[t] \in {"none", "over"} THEN 0
                    ELSE IF stamp[t] < Stale THEN stamp[t] + 1 ELSE Stale]
    /\ UNCHANGED <<procs, entry, obj, phase, thread, free, store, misses, beaten>>

Progress(t) ==
    \/ Begin(t) \/ Acquire(t) \/ Complete(t) \/ Lifetime(t) \/ FinalSync(t)

Next ==
    \/ \E t \in Tasks :
          \/ Create(t) \/ Progress(t) \/ ThreadStart(t) \/ ThreadEnd(t)
          \/ Heartbeat(t) \/ HeartbeatLost(t) \/ HashExpires(t)
    \/ \E w \in Workers : \/ Die(w) \/ Restart(w) \/ Serve(w)
                          \/ \E t \in Tasks : GetTask(w, t) \/ ReapTask(w, t)
    \/ IndexExpires \/ Tick

Spec == Init /\ [][Next]_vars

\* The event loop runs and the lifetime timer fires; the function itself may
\* never return.
FairSpec == Spec /\ \A t \in Tasks : WF_vars(Progress(t))

----------------------------------------------------------------------------
(* Properties *)

TypeOK ==
    /\ up \in [Workers -> {"up", "starting", "down"}]
    /\ todo \in [Workers -> SUBSET Tasks]
    /\ entry \in [Workers -> [Tasks -> Statuses \cup {"own"}]]
    /\ obj \in [Tasks -> Statuses]
    /\ phase \in [Tasks -> {"none", "created", "queued", "running", "ended", "over"}]
    /\ thread \in [Tasks -> {"none", "waiting", "running", "done"}]
    /\ free \in [Workers -> 0 .. Slots]
    /\ redis \in [Tasks -> Statuses] /\ index \subseteq Tasks
    /\ history \in [Tasks -> Verdicts \cup {"none"}]
    /\ beat \in [Tasks -> 0 .. Beat + Delay] /\ stamp \in [Tasks -> 0 .. Stale]
    /\ misses \in [Tasks -> 0 .. MaxMisses] /\ beaten \subseteq Tasks

\* The gate and the tasks agree on the slots through every cancellation: no
\* timeout loses a slot and none frees a slot it never had (_gated).
SlotsBalanced ==
    \A w \in Workers : free[w] + Cardinality(Holders(w)) = Slots

\* A task that its owner has failed is never started afterwards: whoever sees
\* the failure and repeats the operation does not run it twice (run_background).
FailedNeverStarts ==
    [][\A t \in Tasks : thread[t] = "waiting" /\ thread'[t] = "running"
                        => obj[t] = "running"]_vars

\* A starting worker never fails a task that is running elsewhere and has
\* beaten, as long as Redis drops no more than MaxMisses heartbeats in a row and
\* holds up none for more than Delay (reap_orphaned_tasks).
BeatingTasksSpared ==
    \A t \in beaten : phase[t] = "running" => ~Reapable(t)

\* A task whose worker lives gets a verdict although its function may hang and
\* its slot may never come: the lifetime limit is the backstop.
TaskEnds ==
    \A t \in Tasks : phase[t] = "created" ~> phase[t] = "over"

----------------------------------------------------------------------------
(* What the repository says and the code does not do *)

\* run_background: max-lifetime counts execution only, from the slot on.
LifetimeCountsExecution ==
    [][\A t \in Tasks : phase[t] = "queued" /\ free[Owner[t]] = 0
                        => phase'[t] # "ended"]_vars

\* run_background: queued tasks of a live process are not reaped.
QueuedTasksSpared ==
    [][\A t \in Tasks : phase[t] = "queued" /\ free[Owner[t]] = 0 /\ redis[t] \in Active
                        => redis'[t] # "failed"]_vars

\* run_background: a task that waits for the pool is not shown as running.
RunningIsHonest ==
    \A t \in Tasks :
        obj[t] = "running" /\ phase[t] = "running" /\ thread[t] = "waiting"
        => Cardinality(Busy(Owner[t])) < Slots

\* Module docstring: any worker can query progress.  Once the verdict is in
\* Redis every worker answers with it.
EveryWorkerSeesTheVerdict ==
    \A w \in Workers, t \in Tasks :
        up[w] = "up" /\ phase[t] = "over" /\ redis[t] \in Verdicts => View(w, t) \in Verdicts

\* RedisTaskStore: the index set tracks all active task ids.
IndexTracksActive ==
    \A t \in Tasks : redis[t] \in Active => t \in index

============================================================================
