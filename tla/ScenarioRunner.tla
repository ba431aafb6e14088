--------------------------- MODULE ScenarioRunner ---------------------------
(***************************************************************************)
(* The rounds of ScenarioRunner (actions/runner.py) over the steps and XOR *)
(* gateways of one scenario instance, with its step rows and context       *)
(* (system_db/stores/scenario_instances.py), termination, resumption and   *)
(* the acknowledgement of compensations (api/routers/actions.py).          *)
(*                                                                         *)
(* One runner at a time drives the instance; that a second one may appear  *)
(* is the subject of ScenarioInstances.  What an action does to storage is *)
(* in ActionIdempotency: here a step succeeds or fails, "failed" standing  *)
(* for failed, manual_intervention and dead_letter.  A write of a step row *)
(* that run_sync gave up after 30 s goes on in its thread and lands later; *)
(* late writes of the instance's row are in ScenarioInstances.             *)
(***************************************************************************)
EXTENDS Naturals, Sequences

CONSTANTS
    Steps, AssessSteps,   \* the steps; those of type assess
    Requires,             \* step.requires
    Gateways,             \* the xor gateways, in the order of the specification
    Then, Else,           \* their arms
    CompOf,               \* the compensation a step's action declares, or "none"
    OnTimeout,            \* the escalation step, or "none"
    Ackers,               \* acknowledgements by a human
    Slow,                 \* bound: the steps whose row writes may be given up
    MaxRuns               \* bound: instantiation and resumptions

GatewayIds == {Gateways[n] : n \in 1 .. Len(Gateways)}
Comps      == {CompOf[s] : s \in Steps} \ {"none"}

ASSUME ScenarioAssumption ==
    /\ AssessSteps \subseteq Steps
    /\ Requires \in [Steps -> SUBSET Steps]
    /\ Gateways \in Seq(GatewayIds)
    /\ Then \in [GatewayIds -> SUBSET Steps]
    /\ Else \in [GatewayIds -> SUBSET Steps]
    /\ \A g \in GatewayIds : Then[g] \cap Else[g] = {} /\ Else[g] # {}
    /\ "none" \notin Steps /\ OnTimeout \in Steps \cup {"none"}
    /\ "default" \notin AssessSteps /\ Slow \subseteq Steps
    /\ MaxRuns \in Nat \ {0}

VARIABLES
    inst,      \* scenario_instances.status
    row,       \* scenario_step_runs.status ("none": no row)
    declared,  \* pending_compensation in a step's output_json
    saved,     \* the assess step mirrored in context_json, or "default"
    pending,   \* pending_compensation_json of the instance
    late,      \* writes of step rows that were given up and are still to land
    pc, gi,    \* the runner: where it is, the gateway it looks at
    known,     \* its status map
    decided,   \* its gateway decisions
    ctx,       \* the assess step mirrored in its context, or "default"
    batch,     \* its batch: how far each step is
    ack,       \* the acknowledgements: what they have read
    runs,      \* how often the instance was started
    executed,  \* history: steps whose action or assessment was called
    won,       \* history: steps whose action or assessment succeeded
    stray,     \* history: steps one of whose row writes was given up
    expired,   \* history: some run met its deadline
    blind      \* history: gateways decided without the assessment that was made for them

rows   == <<inst, row, declared, saved, pending, late>>
mem    == <<gi, known, decided, ctx, batch>>
hist   == <<runs, executed, won, stray, expired, blind>>
vars   == <<rows, pc, mem, ack, hist>>

Terminal  == {"succeeded", "failed", "skipped", "timeout"}
StepState == Terminal \cup {"none", "running"}
Resumable == {"failed", "timeout", "compensated", "terminated"}
Collected == {"succeeded", "failed", "error"}
Progress  == Collected \cup {"out", "ready", "started", "ok", "ko"}
Writes    == [run : 1 .. MaxRuns, step : Steps, status : StepState \ {"none"}]

Nothing   == [s \in Steps |-> "none"]
Undecided == [g \in GatewayIds |-> "none"]
Empty     == [s \in Steps |-> "out"]
Idle      == [seen |-> {}, clear |-> {}, stage |-> "new"]

Init ==
    /\ inst = "running" /\ pc = "load"
    /\ row = Nothing
    /\ declared = [s \in Steps |-> {}]
    /\ saved = "default" /\ ctx = "default"
    /\ pending = {} /\ late = {}
    /\ gi = 1
    /\ known = Nothing
    /\ decided = Undecided
    /\ batch = Empty
    /\ ack = [k \in Ackers |-> Idle]
    /\ runs = 1 /\ executed = {} /\ won = {} /\ stray = {} /\ expired = FALSE /\ blind = {}

\* The coroutine ends and its memory with it.
End ==
    /\ pc' = "idle" /\ gi' = 1
    /\ known' = Nothing /\ decided' = Undecided /\ ctx' = "default" /\ batch' = Empty

\* What a step that fails declares in its output.
Declares(s, st) == IF st = "failed" /\ CompOf[s] # "none" THEN {CompOf[s]} ELSE {}

\* start_step and finish_step overwrite the row whatever it says.
PutRow(s, st) ==
    /\ row' = [row EXCEPT ![s] = st]
    /\ declared' = [declared EXCEPT ![s] = Declares(s, st)]

\* _sync: the caller gives up on a write, which goes on in its thread.
GiveUp(s, st) ==
    /\ s \in Slow
    /\ late' = late \cup {[run |-> runs, step |-> s, status |-> st]}
    /\ stray' = stray \cup {s}

----------------------------------------------------------------------------
(* The round *)

\* _run_inner begins: the row is read, the status map and the context come
\* from the database.  resume is never passed as True, so nothing is undone.
Load ==
    /\ pc = "load"
    /\ \/ /\ inst = "running"
          /\ pc' = "read"
          /\ known' = row /\ ctx' = saved
          /\ UNCHANGED <<gi, decided, batch>>
       \/ inst # "running" /\ End
    /\ UNCHANGED <<rows, ack, hist>>

ReadInstance ==
    /\ pc = "read"
    /\ \/ inst = "running" /\ pc' = "gate" /\ gi' = 1 /\ UNCHANGED <<known, decided, ctx, batch>>
       \/ inst # "running" /\ End
    /\ UNCHANGED <<rows, ack, hist>>

GatewayRequirements(g) == UNION {Requires[s] : s \in Then[g] \cup Else[g]}
Arm(g, v)  == IF v THEN Then[g] ELSE Else[g]
IsTerminal(s) == known[s] \in Terminal

\* Steps of a losing arm that are not marked yet.
Losing ==
    {s \in Steps : ~IsTerminal(s) /\ \E g \in GatewayIds :
                       decided[g] # "none" /\ s \in Arm(g, decided[g] = "false")}

\* Steps that depend on a skipped one and are not marked yet.
Cascading ==
    {s \in Steps : ~IsTerminal(s) /\ \E q \in Requires[s] : known[q] = "skipped"}

\* Faulty: the steps are skipped in memory only.
SkipsInMemory(s) ==
    /\ known' = [known EXCEPT ![s] = "skipped"]
    /\ UNCHANGED <<row, declared>>

\* _mark_step: the row first, then the map.
MarkSkipped(s) ==
    /\ PutRow(s, "skipped")
    /\ known' = [known EXCEPT ![s] = "skipped"]

SkipLoser ==
    /\ pc = "gate"
    /\ \E s \in Losing : MarkSkipped(s)
    /\ UNCHANGED <<inst, saved, pending, late, pc, gi, decided, ctx, batch, ack, hist>>

\* The next gateway: passed over if it was decided or its requirements are not
\* all terminal, decided otherwise.  A predicate reads the context only, so a
\* decision without the assessment may be either.
AtGateway == pc = "gate" /\ Losing = {} /\ gi <= Len(Gateways)

Decidable(g) == \A s \in GatewayRequirements(g) : IsTerminal(s)

\* History: an assessment the arms require has succeeded.
NeedsAssess(g) ==
    \E s \in GatewayRequirements(g) \cap AssessSteps : known[s] = "succeeded"

PassGateway ==
    /\ AtGateway
    /\ decided[Gateways[gi]] # "none" \/ ~Decidable(Gateways[gi])
    /\ gi' = gi + 1
    /\ UNCHANGED <<rows, pc, known, decided, ctx, batch, ack, hist>>

Decide ==
    /\ AtGateway
    /\ decided[Gateways[gi]] = "none" /\ Decidable(Gateways[gi])
    /\ \E v \in {"true", "false"} : decided' = [decided EXCEPT ![Gateways[gi]] = v]
    /\ gi' = gi + 1
    /\ blind' = IF ctx = "default" /\ NeedsAssess(Gateways[gi])
                THEN blind \cup {Gateways[gi]} ELSE blind
    /\ UNCHANGED <<rows, pc, known, ctx, batch, ack, runs, executed, won, stray, expired>>

EndGateways ==
    /\ pc = "gate" /\ Losing = {} /\ gi > Len(Gateways)
    /\ pc' = "cascade"
    /\ UNCHANGED <<rows, mem, ack, hist>>

Cascade ==
    /\ pc = "cascade"
    /\ \E s \in Cascading : MarkSkipped(s)
    /\ UNCHANGED <<inst, saved, pending, late, pc, gi, decided, ctx, batch, ack, hist>>

\* Faulty variants of the runnable set.
RunsTerminalRequirements(s) ==
    /\ known[s] \notin {"succeeded", "skipped"}
    /\ \A q \in Requires[s] : IsTerminal(q)
    /\ \A g \in GatewayIds :
          s \in Then[g] \cup Else[g]
          => decided[g] # "none" /\ s \in Arm(g, decided[g] = "true")
RunsSucceeded(s) ==
    /\ known[s] # "skipped"
    /\ \A q \in Requires[s] : known[q] = "succeeded"
    /\ \A g \in GatewayIds :
          s \in Then[g] \cup Else[g]
          => decided[g] # "none" /\ s \in Arm(g, decided[g] = "true")

\* _runnable_steps
Runnable(s) ==
    /\ known[s] \notin {"succeeded", "skipped"}
    /\ \A q \in Requires[s] : known[q] = "succeeded"
    /\ \A g \in GatewayIds :
          s \in Then[g] \cup Else[g]
          => decided[g] # "none" /\ s \in Arm(g, decided[g] = "true")

RunnableSteps == {s \in Steps : Runnable(s)}

\* _finish overwrites the status whatever it is by now.
Finish(st) == inst' = st /\ saved' = ctx /\ End

\* Before the deadline: a batch is dispatched, and the context saved with it,
Dispatch ==
    /\ pc = "cascade" /\ Cascading = {}
    /\ RunnableSteps # {}
    /\ batch' = [s \in Steps |-> IF s \in RunnableSteps THEN "ready" ELSE "out"]
    /\ saved' = ctx
    /\ pc' = "batch"
    /\ UNCHANGED <<inst, row, declared, pending, late, gi, known, decided, ctx, ack, hist>>

\* or nothing can run.
NothingRunnable ==
    /\ pc = "cascade" /\ Cascading = {}
    /\ RunnableSteps = {}
    /\ Finish(IF \A s \in Steps : IsTerminal(s) THEN "completed" ELSE "failed")
    /\ UNCHANGED <<row, declared, pending, late, ack, hist>>

\* The deadline has passed; _handle_timeout does not save the context.
Expire ==
    /\ pc = "cascade" /\ Cascading = {}
    /\ pc' = "expire"
    /\ expired' = TRUE
    /\ UNCHANGED <<rows, mem, ack, runs, executed, won, stray, blind>>

MarkTimeout ==
    /\ pc = "expire"
    /\ \E s \in Steps :
          /\ ~IsTerminal(s)
          /\ PutRow(s, "timeout")
          /\ known' = [known EXCEPT ![s] = "timeout"]
    /\ UNCHANGED <<inst, saved, pending, late, pc, gi, decided, ctx, batch, ack, hist>>

Escalates == OnTimeout \in Steps /\ known[OnTimeout] # "succeeded"

Escalate ==
    /\ pc = "expire" /\ \A s \in Steps : IsTerminal(s)
    /\ Escalates
    /\ batch' = [Empty EXCEPT ![OnTimeout] = "ready"]
    /\ pc' = "escalate"
    /\ UNCHANGED <<rows, gi, known, decided, ctx, ack, hist>>

\* The outcome of the escalation step is not looked at.
EndTimeout ==
    /\ \/ pc = "expire" /\ (\A s \in Steps : IsTerminal(s)) /\ ~Escalates
       \/ pc = "escalate" /\ batch[OnTimeout] \in Collected
    /\ inst' = "timeout" /\ End
    /\ UNCHANGED <<row, declared, saved, pending, late, ack, hist>>

----------------------------------------------------------------------------
(* _exec_step, several at a time *)

StartStep(s) ==
    /\ batch[s] = "ready"
    /\ PutRow(s, "running")
    /\ batch' = [batch EXCEPT ![s] = "started"]
    /\ UNCHANGED <<inst, saved, pending, late, pc, gi, known, decided, ctx, ack, hist>>

\* Faulty: the assessment is not mirrored.
KeepsContext(s) == ctx

\* An assessment that succeeds is mirrored in the context; the escalation step
\* has a context of its own.
Mirrored(s) == IF s \in AssessSteps /\ pc = "batch" THEN s ELSE ctx

RunStep(s) ==
    /\ batch[s] = "started"
    /\ executed' = executed \cup {s}
    /\ \/ batch' = [batch EXCEPT ![s] = "ok"] /\ ctx' = Mirrored(s) /\ won' = won \cup {s}
       \/ batch' = [batch EXCEPT ![s] = "ko"] /\ UNCHANGED <<ctx, won>>
    /\ UNCHANGED <<rows, pc, gi, known, decided, ack, runs, stray, expired, blind>>

Verdict(s) == IF batch[s] = "ok" THEN "succeeded" ELSE "failed"

FinishStep(s) ==
    /\ batch[s] \in {"ok", "ko"}
    /\ PutRow(s, Verdict(s))
    /\ batch' = [batch EXCEPT ![s] = Verdict(s)]
    /\ UNCHANGED <<inst, saved, pending, late, pc, gi, known, decided, ctx, ack, hist>>

\* start_step or finish_step raises: gather returns the exception, and the
\* runner takes the step for failed, without a compensation.  The write is lost
\* or, when it was only given up, lands some time later.
StepError(s) ==
    /\ batch[s] \in {"ready", "ok", "ko"}
    /\ batch' = [batch EXCEPT ![s] = "error"]
    /\ \/ UNCHANGED <<late, stray>>
       \/ GiveUp(s, IF batch[s] = "ready" THEN "running" ELSE Verdict(s))
    /\ UNCHANGED <<inst, row, declared, saved, pending, pc, gi, known, decided, ctx, ack,
                   runs, executed, won, expired, blind>>

\* A write that was given up lands, in whatever run the instance is by now.
LateStepWrite ==
    /\ \E w \in late : PutRow(w.step, w.status) /\ late' = late \ {w}
    /\ UNCHANGED <<inst, saved, pending, pc, mem, ack, hist>>

\* The batch is collected.
Members     == {s \in Steps : batch[s] # "out"}
BatchIsOver == pc = "batch" /\ \A s \in Members : batch[s] \in Collected

\* Faulty: an exception that gather returned is not looked at.
CountsErrors(s) == IF batch[s] = "error" THEN "succeeded" ELSE batch[s]

Outcome(s) == IF batch[s] = "error" THEN "failed" ELSE batch[s]
Failures   == {s \in Members : Outcome(s) # "succeeded"}

\* The steps that returned a failure, with their compensations.
Failed == {s \in Members : batch[s] = "failed"}

\* Faulty: the first failure's compensation only.
FirstCompensation ==
    IF Failed = {} THEN {} ELSE {CompOf[CHOOSE s \in Failed : TRUE]} \ {"none"}

Compensations == {CompOf[s] : s \in Failed} \ {"none"}

\* Faulty: the map does not learn what the batch did.
Forgotten(s) == known[s]

Learnt(s) == IF s \in Members THEN Outcome(s) ELSE known[s]

NextRound ==
    /\ BatchIsOver /\ Failures = {}
    /\ known' = [s \in Steps |-> Learnt(s)]
    /\ batch' = Empty
    /\ pc' = "read"
    /\ UNCHANGED <<rows, gi, decided, ctx, ack, hist>>

\* _handle_failure: compensations are listed for a human, never executed.
HandleFailure ==
    /\ BatchIsOver /\ Failures # {}
    /\ Finish(IF Compensations # {} THEN "compensated" ELSE "failed")
    /\ pending' = IF Compensations # {} THEN Compensations ELSE pending
    /\ UNCHANGED <<row, declared, late, ack, hist>>

\* The mark that the runner may be waiting for.
MarkDue(s, st) ==
    \/ pc = "gate" /\ s \in Losing /\ st = "skipped"
    \/ pc = "cascade" /\ s \in Cascading /\ st = "skipped"
    \/ pc = "expire" /\ ~IsTerminal(s) /\ st = "timeout"

\* An exception outside the batch: run writes failed and leaves the context.  A
\* mark that was given up lands later.
Raise ==
    /\ pc \in {"load", "read", "gate", "cascade", "expire"} \/ BatchIsOver
    /\ inst' = "failed" /\ End
    /\ \/ UNCHANGED <<late, stray>>
       \/ \E s \in Steps, st \in {"skipped", "timeout"} : MarkDue(s, st) /\ GiveUp(s, st)
    /\ UNCHANGED <<row, declared, saved, pending, ack, runs, executed, won, expired, blind>>

----------------------------------------------------------------------------
(* Around the runner *)

\* The worker dies; the row is reaped when another one starts.  Writes that were
\* given up may be those of an earlier run on another worker, so they stay.
WorkerDies ==
    /\ pc # "idle"
    /\ End
    /\ UNCHANGED <<rows, ack, hist>>

Reap ==
    /\ inst = "running" /\ pc = "idle"
    /\ inst' = "failed"
    /\ UNCHANGED <<row, declared, saved, pending, late, pc, mem, ack, hist>>

Terminate ==
    /\ inst = "running"
    /\ inst' = "terminated"
    /\ UNCHANGED <<row, declared, saved, pending, late, pc, mem, ack, hist>>

\* The instance is running again and a new runner loads it; the compensations
\* still pending stay.
Resume ==
    /\ inst \in Resumable /\ pc = "idle" /\ runs < MaxRuns
    /\ inst' = "running" /\ pc' = "load"
    /\ runs' = runs + 1
    /\ UNCHANGED <<row, declared, saved, pending, late, mem, ack, executed, won, stray, expired,
                   blind>>

\* POST .../compensation/{step}/ack: the pending list is read, then the step's
\* declaration, then the list is written by compare and set.
AckReadInstance(k) ==
    /\ ack[k].stage = "new" /\ pending # {}
    /\ ack' = [ack EXCEPT ![k] = [Idle EXCEPT !.seen = pending, !.stage = "seen"]]
    /\ UNCHANGED <<rows, pc, mem, hist>>

AckReadStep(k, s) ==
    /\ ack[k].stage = "seen"
    /\ ack' = [ack EXCEPT
           ![k] = IF declared[s] \cap ack[k].seen # {}
                  THEN [@ EXCEPT !.clear = declared[s], !.stage = "write"]
                  ELSE [Idle EXCEPT !.stage = "over"]]
    /\ UNCHANGED <<rows, pc, mem, hist>>

\* Faulty: the list is overwritten whatever it is.
Overwrites(k) == TRUE

StillSeen(k) == pending = ack[k].seen

AckWrite(k) ==
    /\ ack[k].stage = "write"
    /\ pending' = IF StillSeen(k) THEN ack[k].seen \ ack[k].clear ELSE pending
    /\ ack' = [ack EXCEPT ![k] = [Idle EXCEPT !.stage = "over"]]
    /\ UNCHANGED <<inst, row, declared, saved, late, pc, mem, hist>>

Round ==
    \/ Load \/ ReadInstance \/ SkipLoser \/ PassGateway \/ Decide \/ EndGateways
    \/ Cascade \/ Dispatch \/ NothingRunnable \/ MarkTimeout \/ Escalate
    \/ EndTimeout \/ NextRound \/ HandleFailure

StepProgress(s) == StartStep(s) \/ RunStep(s) \/ FinishStep(s)

Next ==
    \/ Round \/ Expire \/ Raise
    \/ \E s \in Steps : StepProgress(s) \/ StepError(s)
    \/ LateStepWrite
    \/ WorkerDies \/ Reap \/ Terminate \/ Resume
    \/ \E k \in Ackers : \/ AckReadInstance(k) \/ AckWrite(k)
                         \/ \E s \in Steps : AckReadStep(k, s)

Spec == Init /\ [][Next]_vars

\* Every call of the runner is bounded by the timeout of run_sync.
FairSpec ==
    Spec /\ WF_vars(Round) /\ \A s \in Steps : WF_vars(StepProgress(s))

----------------------------------------------------------------------------
(* Properties *)

TypeOK ==
    /\ inst \in Resumable \cup {"running", "completed"}
    /\ row \in [Steps -> StepState] /\ known \in [Steps -> StepState]
    /\ declared \in [Steps -> SUBSET Comps] /\ pending \subseteq Comps
    /\ late \subseteq Writes
    /\ saved \in AssessSteps \cup {"default"} /\ ctx \in AssessSteps \cup {"default"}
    /\ pc \in {"load", "read", "gate", "cascade", "batch", "expire", "escalate", "idle"}
    /\ gi \in 1 .. Len(Gateways) + 1
    /\ decided \in [GatewayIds -> {"none", "true", "false"}]
    /\ batch \in [Steps -> Progress]
    /\ ack \in [Ackers -> [seen : SUBSET Comps, clear : SUBSET Comps,
                           stage : {"new", "seen", "write", "over"}]]
    /\ runs \in 1 .. MaxRuns
    /\ executed \subseteq Steps /\ won \subseteq Steps /\ stray \subseteq Steps
    /\ expired \in BOOLEAN /\ blind \subseteq GatewayIds

OneArm(g) == Then[g] \cap executed = {} \/ Else[g] \cap executed = {}

\* Steps of both arms of an XOR gateway are never executed while no run meets
\* its deadline, whatever crashes, failures, resumptions and changed decisions
\* occur: a losing arm is marked in the database before anything of the other
\* arm is dispatched (_run_inner).
NoBothArms == ~expired => \A g \in GatewayIds : OneArm(g)

\* No step but the escalation is executed before every step it requires has
\* succeeded, in whichever run, and the rows say so from then on, except where a
\* write of the required step was given up (_runnable_steps).
RequiresRespected ==
    \A s \in executed \ {OnTimeout} : \A q \in Requires[s] :
        q \in won /\ (q \in stray \/ row[q] = "succeeded")

\* An instance that completes in its first run has rows that say so: every step
\* has succeeded or was skipped, also when writes of step rows failed.
CompletedMeansDone ==
    inst = "completed" /\ runs = 1 => \A s \in Steps : row[s] \in {"succeeded", "skipped"}

\* Through every resumption the row of a succeeded step is never written again, and
\* that of a skipped one only by escalation, unless a write of it was given up: only
\* such a write may land over a settled row.
SettledStepsStay ==
    [][\A s \in Steps \ stray :
          /\ row[s] = "succeeded" => row'[s] = "succeeded"
          /\ row[s] = "skipped" /\ s # OnTimeout => row'[s] = "skipped"]_vars

\* When a batch ends the instance, every compensation that a failed row of the batch
\* declares is on the instance's list: not only that of the first failure.
FailuresAreListed ==
    [][BatchIsOver /\ pc' = "idle" /\ inst' = "compensated"
       => \A s \in Members :
             batch[s] = "failed" /\ row[s] = "failed" => declared[s] \subseteq pending']_vars

\* Concurrent acknowledgements never bring back what another one cleared
\* (ack_pending).
AckNeverRevives ==
    [][(\E k \in Ackers : ack[k].stage = "write" /\ ack'[k].stage = "over")
       => pending' \subseteq pending]_vars

\* In a first run every gateway whose arms require an assessment is decided with
\* one in the context.
FirstRunReadsAssess == runs = 1 => blind = {}

\* A run comes to an end: every round settles at least one step.
RunEnds == pc # "idle" ~> pc = "idle"

----------------------------------------------------------------------------
(***************************************************************************)
(* The inductive invariant behind the safety properties.                   *)
(***************************************************************************)

\* Where a runner is alive and has loaded the rows.
Loaded == {"read", "gate", "cascade", "batch", "expire", "escalate"}

\* How far a member of the batch is shows in its row; the runner's map agrees
\* with the rows of all the others.
RowOk(s) ==
    /\ pc \in Loaded /\ batch[s] \in {"out", "ready"} => known[s] = row[s]
    /\ batch[s] \in {"started", "ok", "ko"} => row[s] = "running"
    /\ batch[s] \in {"succeeded", "failed"} => row[s] = batch[s]
    /\ batch[s] = "error" => row[s] \in {known[s], "running"}

\* Who is in a batch, and what a runner knows of has a row.
StepOk(s) ==
    /\ s \in stray \/ RowOk(s)
    /\ pc \notin {"batch", "escalate"} => batch[s] = "out"
    /\ pc = "batch" /\ batch[s] # "out" => Runnable(s)
    /\ pc = "escalate" /\ batch[s] # "out" => s = OnTimeout /\ known[s] # "succeeded"
    /\ known[s] # "none" \/ batch[s] \in {"started", "ok", "ko", "succeeded", "failed"}
           => row[s] # "none"
    /\ declared[s] = Declares(s, row[s])

\* Only an execution leaves the word of success.
WonOk(s) ==
    \/ row[s] = "succeeded" \/ known[s] = "succeeded" \/ batch[s] \in {"ok", "succeeded"}
    \/ \E w \in late : w.step = s /\ w.status = "succeeded"
    => s \in won

LateInv == \A w \in late : w.step \in stray
WonInv  == \A s \in Steps : WonOk(s)

BatchInv == \A s \in Steps : StepOk(s)

\* A runner drives a running row or one that was terminated under it; deadlines
\* and losing arms are behind it where the code has dealt with them.
ControlInv ==
    /\ pc # "idle" => inst \in {"running", "terminated"}
    /\ pc \in {"expire", "escalate"} => expired
    /\ pc \in {"cascade", "batch"} => Losing = {}

\* What a first run can have seen: it ends at the first write that is given up.
FirstOk(s) ==
    /\ pc = "load" => row[s] = "none"
    /\ pc \in Loaded \ {"expire", "escalate"} => known[s] \in {"none", "succeeded", "skipped"}
    /\ ctx = "default" /\ s \in AssessSteps =>
           known[s] # "succeeded" /\ (pc = "batch" => batch[s] \notin {"ok", "succeeded"})

FirstStray ==
    stray # {} => (pc = "idle" /\ inst # "completed") \/ \E s \in Steps : batch[s] = "error"

FirstRunInv == runs = 1 => FirstStray /\ \A s \in Steps : FirstOk(s)

\* A step is touched from its dispatch on, and closed where its row and the runner
\* say skipped.  Without a deadline a touched step of one arm finds every step of the
\* other arm closed, and closed steps stay so.
Touched(s) ==
    \/ s \in executed \/ batch[s] # "out"
    \/ row[s] \notin {"none", "skipped"} \/ known[s] \notin {"none", "skipped"}
    \/ \E w \in late : w.step = s /\ w.status # "skipped"

Closed(s) == ~Touched(s) /\ row[s] = "skipped" /\ (pc \in Loaded => known[s] = "skipped")

ArmsOk(g) ==
    /\ (\E s \in Then[g] : Touched(s)) => \A s \in Else[g] : Closed(s)
    /\ (\E s \in Else[g] : Touched(s)) => \A s \in Then[g] : Closed(s)

ArmInv == ~expired => \A g \in GatewayIds : ArmsOk(g)

\* All of it.
RunnerInv ==
    /\ LateInv /\ BatchInv /\ WonInv /\ ControlInv /\ FirstRunInv /\ ArmInv
    /\ RequiresRespected /\ CompletedMeansDone /\ FirstRunReadsAssess

----------------------------------------------------------------------------
(* What the repository says and the code does not do *)

\* The root assess mirrors the latest assessment, and a resumed run repeats the
\* assess steps: no gateway is decided on the default assessment when one was
\* made for it.
GatewayReadsAssess == blind = {}

\* The arm that loses a decision is skipped for good: over all runs of an
\* instance steps of one arm only are executed.
LosingArmNeverRuns == \A g \in GatewayIds : OneArm(g)

\* A gateway is evaluated once the requirements of its arms are all terminal;
\* the deadlock guard fails only what cannot go on.
UnsatisfiableIsTrue ==
    [][NothingRunnable /\ inst' = "failed"
       => \A g \in GatewayIds : decided[g] = "none" => ~Decidable(g)]_vars

\* A compensation on the instance's list is declared by a step's row, which is
\* how it is acknowledged.
PendingIsDeclared ==
    inst # "running" => pending \subseteq UNION {declared[s] : s \in Steps}

============================================================================
