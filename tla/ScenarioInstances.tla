------------------------- MODULE ScenarioInstances -------------------------
(***************************************************************************)
(* The life of scenario instances: the rows of scenario_instances          *)
(* (system_db/stores/scenario_instances.py), the endpoints that create,    *)
(* terminate and resume them (api/routers/actions.py), the runner          *)
(* coroutines that drive them (actions/runner.py) and the reaping of       *)
(* orphaned rows when a worker starts (api/app.py).                        *)
(*                                                                         *)
(* The runner's loop is kept, the scenario it runs is not: what a round    *)
(* does to the steps is in ScenarioRunner.  Time advances in ticks: a      *)
(* runner's heartbeat sleeps Beat ticks and then waits up to Timeout ticks *)
(* for its touch of the row, and a running row older than Stale ticks is   *)
(* an orphan.                                                              *)
(***************************************************************************)
EXTENDS Naturals

CONSTANTS
    Instances,   \* row ids
    Objects,     \* (scenario, dataset, object_type, object_id)
    ObjectOf,    \* the object each row is about
    Runners,     \* runner coroutines, each used once
    InstanceOf,  \* the row a runner is started for, if it is started
    Beat,        \* _HEARTBEAT_INTERVAL_SECONDS
    Timeout,     \* how long a heartbeat waits for its touch (run_sync in _sync)
    Stale,       \* _ORPHAN_STALE_SECONDS
    MaxMisses    \* consecutive heartbeats the database may fail

ASSUME ObjectAssumption ==
    /\ ObjectOf \in [Instances -> Objects]
    /\ InstanceOf \in [Runners -> Instances]
ASSUME BeatAssumption ==
    /\ Beat \in Nat \ {0} /\ Timeout \in Nat /\ Stale \in Nat /\ MaxMisses \in Nat
    /\ Timeout + (MaxMisses + 1) * (Beat + Timeout) <= Stale

VARIABLES
    status,   \* scenario_instances.status ("none": no row)
    age,      \* ticks since updated_at, up to Stale + 1
    pc,       \* where each runner is
    hb,       \* runners whose heartbeat task is running
    beat,     \* ticks since the heartbeat last went to sleep
    call,     \* what the touch a heartbeat waits for has answered, if it landed
    misses,   \* consecutive heartbeats that failed
    late,     \* outcome writes and touches given up by their runner that may still land
    fresh,    \* history: live runners that have written the row since they started
    cut,      \* history: runners whose row was closed by someone else
    lost      \* history: rows whose runner died or could not write its end

vars == <<status, age, pc, hb, beat, call, misses, late, fresh, cut, lost>>

\* "failed" stands for failed, timeout and compensated, which differ only in
\* the steps behind them.
Resumable == {"failed", "terminated"}
\* Faulty: the vocabulary of steps is written to the instance.
StepOutcomes == {"succeeded", "failed"}
Outcomes  == {"completed", "failed"}
Statuses  == {"none", "running", "completed", "failed", "terminated"}
Answers   == {"none", "alive", "over"}
Pcs       == {"unused", "spawn", "start", "loop", "decide", "exec", "crashed", "gone"}

Live(r) == pc[r] \notin {"unused", "gone"}

Init ==
    /\ status = [i \in Instances |-> "none"]
    /\ age    = [i \in Instances |-> 0]
    /\ pc     = [r \in Runners |-> "unused"]
    /\ hb     = {}
    /\ beat   = [r \in Runners |-> 0]
    /\ call   = [r \in Runners |-> "none"]
    /\ misses = [r \in Runners |-> 0]
    /\ late   = [r \in Runners |-> {}]
    /\ fresh  = {}
    /\ cut    = {}
    /\ lost   = {}

\* Every write of the row but the reaper's sets updated_at.
Write(i, st) ==
    /\ status' = [status EXCEPT ![i] = st]
    /\ age' = [age EXCEPT ![i] = 0]

\* Whoever closes row i takes it from the other runners that drive it.
Cut(i, closers) ==
    cut' = cut \cup {r \in Runners \ closers : Live(r) /\ InstanceOf[r] = i}

\* Faulty: no index, the earlier exists_running is trusted.
NoIndex(i) == TRUE

\* The partial unique index idx_scn_inst_running_uniq: a write that makes row
\* i running fails if another row of its object is running.
IndexAllows(i) ==
    \A j \in Instances \ {i} : ObjectOf[j] = ObjectOf[i] => status[j] # "running"

----------------------------------------------------------------------------
(* Endpoints *)

\* POST /scenarios/{id}/instantiate.  The earlier look at exists_running only
\* refuses sooner; the index decides.
Instantiate(r) ==
    /\ pc[r] = "unused"
    /\ status[InstanceOf[r]] = "none"
    /\ IndexAllows(InstanceOf[r])
    /\ Write(InstanceOf[r], "running")
    /\ pc' = [pc EXCEPT ![r] = "spawn"]
    /\ UNCHANGED <<hb, beat, call, misses, late, fresh, cut, lost>>

\* POST /scenarios/instances/{id}/resume: compare and set on the status.
\* Faulty: only completed rows are refused.
ResumesRunning(i) == status[i] \in Resumable \cup {"running"} /\ IndexAllows(i)

ResumeAllowed(i) == status[i] \in Resumable /\ IndexAllows(i)

Resume(r) ==
    /\ pc[r] = "unused"
    /\ ResumeAllowed(InstanceOf[r])
    /\ Write(InstanceOf[r], "running")
    /\ pc' = [pc EXCEPT ![r] = "spawn"]
    /\ lost' = lost \ {InstanceOf[r]}
    /\ UNCHANGED <<hb, beat, call, misses, late, fresh, cut>>

\* POST /scenarios/instances/{id}/terminate: running only.
Terminate(i) ==
    /\ status[i] = "running"
    /\ Write(i, "terminated")
    /\ Cut(i, {})
    /\ UNCHANGED <<pc, hb, beat, call, misses, late, fresh, lost>>

\* _spawn_scenario_runner reads the catalogue and the row and starts the
\* coroutine.
Spawn(r) ==
    /\ pc[r] = "spawn"
    /\ pc' = [pc EXCEPT ![r] = "start"]
    /\ UNCHANGED <<status, age, hb, beat, call, misses, late, fresh, cut, lost>>

----------------------------------------------------------------------------
(* ScenarioRunner.run *)

\* The coroutine ends, its heartbeat is cancelled.
Leave(r) ==
    /\ pc' = [pc EXCEPT ![r] = "gone"]
    /\ hb' = hb \ {r}
    /\ beat' = [beat EXCEPT ![r] = 0]
    /\ call' = [call EXCEPT ![r] = "none"]
    /\ misses' = [misses EXCEPT ![r] = 0]
    /\ fresh' = fresh \ {r}

\* The runner ends without a word although the row may be running.
Vanish(r) == Leave(r) /\ lost' = lost \cup {InstanceOf[r]}

\* The row is running, but the endpoint gave up on its own write, which landed
\* after the timeout, or a read of _spawn_scenario_runner fails.
SpawnFails(r) ==
    /\ pc[r] = "spawn"
    /\ Vanish(r)
    /\ UNCHANGED <<status, age, late, cut>>

\* The first look at the row; the heartbeat task starts if it is running.
Start(r) ==
    /\ pc[r] = "start"
    /\ \/ /\ status[InstanceOf[r]] = "running"
          /\ pc' = [pc EXCEPT ![r] = "loop"]
          /\ hb' = hb \cup {r}
          /\ UNCHANGED <<beat, call, misses, fresh>>
       \/ status[InstanceOf[r]] # "running" /\ Leave(r)
    /\ UNCHANGED <<status, age, late, cut, lost>>

\* Each round reads the row again and leaves if it is no longer running.
\* Faulty: the row read before the loop is never read again.
GoesOn(r) == TRUE

MayGoOn(r) == status[InstanceOf[r]] = "running"

ReadRow(r) ==
    /\ pc[r] = "loop"
    /\ \/ MayGoOn(r) /\ pc' = [pc EXCEPT ![r] = "decide"] /\ UNCHANGED <<hb, beat, call, misses, fresh>>
       \/ ~MayGoOn(r) /\ Leave(r)
    /\ UNCHANGED <<status, age, late, cut, lost>>

\* A batch is dispatched; the write of current_step does not look at status.
Dispatch(r) ==
    /\ pc[r] = "decide"
    /\ pc' = [pc EXCEPT ![r] = "exec"]
    /\ age' = [age EXCEPT ![InstanceOf[r]] = 0]
    /\ fresh' = fresh \cup {r}
    /\ UNCHANGED <<status, hb, beat, call, misses, late, cut, lost>>

BatchDone(r) ==
    /\ pc[r] = "exec"
    /\ pc' = [pc EXCEPT ![r] = "loop"]
    /\ UNCHANGED <<status, age, hb, beat, call, misses, late, fresh, cut, lost>>

\* Nothing left to run, the deadline has passed, or a step of the batch failed:
\* _finish writes the outcome whatever the row says by now.
Finish(r) ==
    /\ pc[r] \in {"decide", "exec"}
    /\ \E o \in Outcomes : Write(InstanceOf[r], o)
    /\ Cut(InstanceOf[r], {r})
    /\ Leave(r)
    /\ UNCHANGED <<late, lost>>

\* An exception in the loop.  One source of it is the timeout of _finish's own
\* write, which may land later.
Raise(r) ==
    /\ pc[r] \in {"start", "loop", "decide", "exec"}
    /\ pc' = [pc EXCEPT ![r] = "crashed"]
    /\ hb' = hb \ {r}
    /\ beat' = [beat EXCEPT ![r] = 0]
    /\ call' = [call EXCEPT ![r] = "none"]
    /\ misses' = [misses EXCEPT ![r] = 0]
    /\ \/ late' = late
       \/ pc[r] \in {"decide", "exec"} /\ \E o \in Outcomes : late' = [late EXCEPT ![r] = @ \cup {o}]
    /\ UNCHANGED <<status, age, fresh, cut, lost>>

\* Faulty: the handler only logs.
CrashOnlyLogs(r) ==
    /\ pc[r] = "crashed"
    /\ Leave(r)
    /\ UNCHANGED <<status, age, late, cut, lost>>

\* run's handler writes failed; it only logs when that fails as well, by a
\* timeout perhaps.
CrashWrite(r) ==
    /\ pc[r] = "crashed"
    /\ Write(InstanceOf[r], "failed")
    /\ Cut(InstanceOf[r], {r})
    /\ Leave(r)
    /\ UNCHANGED <<late, lost>>

CrashWriteFails(r) ==
    /\ pc[r] = "crashed"
    /\ Vanish(r)
    /\ late' \in {late, [late EXCEPT ![r] = @ \cup {"failed"}]}
    /\ UNCHANGED <<status, age, cut>>

\* An abandoned write of an outcome lands.
LateWrite(r) ==
    /\ \E o \in late[r] \cap Outcomes :
          /\ Write(InstanceOf[r], o)
          /\ late' = [late EXCEPT ![r] = @ \ {o}]
    /\ Cut(InstanceOf[r], {})
    /\ UNCHANGED <<pc, hb, beat, call, misses, fresh, lost>>

\* touch refreshes a row that is running.
Refresh(r) ==
    /\ status[InstanceOf[r]] = "running"
    /\ age' = [age EXCEPT ![InstanceOf[r]] = 0]
    /\ fresh' = fresh \cup ({r} \cap hb)

\* The heartbeat task has slept and waits for its touch, which lands on a thread
\* of its own.
Touch(r) ==
    /\ r \in hb /\ beat[r] >= Beat /\ call[r] = "none"
    /\ \/ Refresh(r) /\ call' = [call EXCEPT ![r] = "alive"]
       \/ /\ status[InstanceOf[r]] # "running"
          /\ call' = [call EXCEPT ![r] = "over"]
          /\ UNCHANGED <<age, fresh>>
    /\ UNCHANGED <<status, pc, hb, beat, misses, late, cut, lost>>

\* The answer is back: the heartbeat sleeps again, or stops.
Heartbeat(r) ==
    /\ r \in hb /\ call[r] # "none"
    /\ beat' = [beat EXCEPT ![r] = 0]
    /\ call' = [call EXCEPT ![r] = "none"]
    /\ misses' = [misses EXCEPT ![r] = 0]
    /\ hb' = IF call[r] = "over" THEN hb \ {r} ELSE hb
    /\ UNCHANGED <<status, age, pc, late, fresh, cut, lost>>

\* The call raises, or its timeout is over and the touch may land later; the
\* exception is counted and the heartbeat sleeps again.
HeartbeatFails(r) ==
    /\ r \in hb /\ beat[r] >= Beat /\ misses[r] < MaxMisses
    /\ beat' = [beat EXCEPT ![r] = 0]
    /\ call' = [call EXCEPT ![r] = "none"]
    /\ misses' = [misses EXCEPT ![r] = @ + 1]
    /\ \/ late' = late
       \/ call[r] = "none" /\ late' = [late EXCEPT ![r] = @ \cup {"touch"}]
    /\ UNCHANGED <<status, age, pc, hb, fresh, cut, lost>>

\* A touch that was given up lands.
LateTouch(r) ==
    /\ "touch" \in late[r]
    /\ late' = [late EXCEPT ![r] = @ \ {"touch"}]
    /\ \/ Refresh(r)
       \/ status[InstanceOf[r]] # "running" /\ UNCHANGED <<age, fresh>>
    /\ UNCHANGED <<status, pc, hb, beat, call, misses, cut, lost>>

----------------------------------------------------------------------------
(* The environment *)

\* The worker that runs the coroutine dies.
WorkerDies(r) ==
    /\ Live(r)
    /\ Vanish(r)
    /\ UNCHANGED <<status, age, late, cut>>

\* Faulty: the age bound is reached one tick too early.
OrphanedAtStale(i) == status[i] = "running" /\ age[i] >= Stale

\* mark_orphaned_running: a starting worker fails every running row that is
\* too old.
Orphaned(i) == status[i] = "running" /\ age[i] > Stale

Reap ==
    /\ \E i \in Instances : Orphaned(i)
    /\ status' = [i \in Instances |-> IF Orphaned(i) THEN "failed" ELSE status[i]]
    /\ cut' = cut \cup {r \in Runners : Live(r) /\ Orphaned(InstanceOf[r])}
    /\ UNCHANGED <<age, pc, hb, beat, call, misses, late, fresh, lost>>

\* A tick passes; no heartbeat waits longer than the timeout of its call (the
\* event loop runs).
Tick ==
    /\ \A r \in hb : beat[r] < Beat + Timeout
    /\ age' = [i \in Instances |->
                  IF status[i] = "running" /\ age[i] <= Stale THEN age[i] + 1 ELSE age[i]]
    /\ beat' = [r \in Runners |-> IF r \in hb THEN beat[r] + 1 ELSE beat[r]]
    /\ UNCHANGED <<status, pc, hb, call, misses, late, fresh, cut, lost>>

RunnerStep(r) ==
    \/ Spawn(r) \/ SpawnFails(r) \/ Start(r) \/ ReadRow(r) \/ Dispatch(r) \/ BatchDone(r)
    \/ Finish(r) \/ Raise(r) \/ CrashWrite(r) \/ CrashWriteFails(r)

Next ==
    \/ \E r \in Runners :
           \/ Instantiate(r) \/ Resume(r) \/ RunnerStep(r) \/ LateWrite(r)
           \/ Touch(r) \/ Heartbeat(r) \/ HeartbeatFails(r) \/ LateTouch(r)
           \/ WorkerDies(r)
    \/ \E i \in Instances : Terminate(i)
    \/ Reap \/ Tick

Spec == Init /\ [][Next]_vars

\* A runner goes on: its reads and writes and the steps it awaits are all
\* bounded by the timeout of run_sync.
FairSpec == Spec /\ \A r \in Runners : WF_vars(RunnerStep(r))

----------------------------------------------------------------------------
(* Properties *)

TypeOK ==
    /\ status \in [Instances -> Statuses]
    /\ age \in [Instances -> 0 .. Stale + 1]
    /\ pc \in [Runners -> Pcs]
    /\ hb \subseteq Runners
    /\ beat \in [Runners -> 0 .. Beat + Timeout]
    /\ call \in [Runners -> Answers]
    /\ misses \in [Runners -> 0 .. MaxMisses]
    /\ late \in [Runners -> SUBSET (Outcomes \cup {"touch"})]
    /\ fresh \subseteq Runners
    /\ cut \subseteq Runners
    /\ lost \subseteq Instances

\* Instantiating and resuming race each other, and yet at most one row per
\* object is running (create_instance and resume_instance with index V028).
OneRunningPerObject ==
    \A i, j \in Instances :
        status[i] = "running" /\ status[j] = "running" /\ ObjectOf[i] = ObjectOf[j]
        => i = j

\* Two runners of one row are alive together only if the row was taken from
\* one of them while it ran, by terminate, by the reaper or by another's end:
\* the compare and set of resume_instance never adds a runner to a running row.
RunnersDoNotMeet ==
    \A r, q \in Runners :
        r # q /\ Live(r) /\ Live(q) /\ InstanceOf[r] = InstanceOf[q]
        => r \in cut \/ q \in cut

\* A restarting worker never fails a row whose runner beats and has written the
\* row once, as long as no more than MaxMisses heartbeats in a row fail, each of
\* which may wait out the whole timeout of its touch (mark_orphaned_running
\* against _heartbeat).
LiveRowsAreNotOrphans ==
    \A r \in hb \cap fresh : ~Orphaned(InstanceOf[r])

\* A running row has a runner that will write its end, unless that runner died
\* with its worker, was never started, or could not write: a runner that
\* leaves, crashes or finishes never leaves the row running (run's handler).
RunningHasRunner ==
    \A i \in Instances :
        status[i] = "running" /\ i \notin lost
        => \E r \in Runners : InstanceOf[r] = i /\ Live(r) /\ r \notin cut

\* Once a row stays closed its runners end: the loop looks at the row before
\* every batch (_run_inner).
ClosedRowsAreLeft ==
    \A i \in Instances :
        <>[](status[i] # "running")
        => <>[](\A r \in Runners : InstanceOf[r] = i => ~Live(r))

----------------------------------------------------------------------------
(* What the repository says and the code does not do *)

\* resume_instance: the compare and set "prevents two live runners"; here, two
\* runners that execute steps of one row at a time.
OneLiveRunner ==
    \A r, q \in Runners :
        r # q /\ pc[r] = "exec" /\ pc[q] = "exec" => InstanceOf[r] # InstanceOf[q]

============================================================================
