------------------------ MODULE AnnotationRecovery ------------------------
(***************************************************************************)
(* The recovery of human annotations from Label Studio (annotation/sync.py *)
(* recover.py, quality.py, adl.py, dispatch.py) for one project.           *)
(*                                                                         *)
(* recover_one is called by a scheduler thread in every uvicorn worker, by *)
(* the webhook thread and by the manual endpoint.  It reads the project's  *)
(* counters, takes a Redis lock with a TTL of 60 s, exports every task,    *)
(* picks the ones its counters say are new, appends their annotations to   *)
(* the append-only ADL table, moves the counters and imports a task for    *)
(* every row whose annotators disagree.  Annotators work in Label Studio   *)
(* all the while.                                                          *)
(***************************************************************************)
EXTENDS Naturals, FiniteSets, SequencesExt

CONSTANTS
    Schedulers,     \* one scheduler thread per worker
    Callers,        \* webhook threads and manual recoveries
    Rows,           \* dispatched dataset rows
    Annotators,
    Contents,       \* the signatures an annotation can have
    Posts,          \* who submits what: the annotations people may make
    MinAnnotators,  \* annotation.adjudicate_min_annotators
    MaxFailures,    \* failed rounds after which a scheduler stops
    MaxTasks,       \* bound: tasks in Label Studio
    MaxEvents,      \* bound: annotations, edits and deletions
    MaxFaults       \* bound: failed calls, deaths and locks expired under their holder

\* A cancelled or empty annotation: counted by Label Studio, never recovered.
Skipped == "skipped"

ASSUME PostsAssumption == Posts \subseteq Annotators \X (Contents \cup {Skipped})
ASSUME BoundsAssumption ==
    /\ Schedulers \cap Callers = {}
    /\ (Schedulers \cup Callers) \cap {"none", "orphan"} = {}
    /\ Rows # {} /\ IsFiniteSet(Rows)
    /\ {MinAnnotators, MaxFailures, MaxTasks, MaxEvents, MaxFaults} \subseteq Nat
    /\ MaxFailures > 0 /\ MaxTasks > 0

VARIABLES
    ls,         \* the tasks of the Label Studio project; a task's id is its index
    adl,        \* the rows of the <dataset>_adl table, in order of appending
    watermark,  \* annotation_projects.recover_watermark
    counts,     \* annotation_projects.recovered_counts
    lock,       \* holder of the Redis key ("orphan": a token nobody will delete)
    proc,       \* the recover_one in progress of each thread
    sched,      \* the memory of each scheduler
    lapses,     \* history: ways in which mutual exclusion or the dedup read failed
    events,     \* annotations, edits and deletions so far
    faults      \* failed calls and deaths so far

regVars == <<watermark, counts>>
hist    == <<lapses, events>>
vars    == <<ls, adl, watermark, counts, lock, proc, sched, lapses, events,
             faults>>

Threads == Schedulers \cup Callers
TaskIds == 1..MaxTasks
NoTasks == [t \in TaskIds |-> 0]
NoSig   == <<0, 0, "none">>

\* The local variables of recover_one, dropped when no longer needed: the
\* project row, what its export amounts to, and whether it has failed.
NoWork == [recs |-> << >>, wm |-> 0, counts |-> NoTasks, disputed |-> {}]
Idle   == [pc |-> "idle", work |-> NoWork, sig |-> NoSig, ok |-> TRUE]
Fresh == [sig |-> NoSig, fails |-> 0, stopped |-> FALSE]

NewTask(r, a) == [row |-> r, arb |-> a, anns |-> << >>]

\* The project has been created and dispatched once.
Init ==
    /\ \E r \in Rows : ls = <<NewTask(r, FALSE)>>
    /\ adl = << >>
    /\ watermark = 0
    /\ counts = NoTasks
    /\ lock = "none"
    /\ proc = [p \in Threads |-> Idle]
    /\ sched = [s \in Schedulers |-> Fresh]
    /\ lapses = {}
    /\ events = 0
    /\ faults = 0

----------------------------------------------------------------------------
(* Pure parts of a recovery *)

\* Faulty: only the task id decides, as before the counters existed.
NewByIdOnly(tasks, wm, cnt) ==
    {t \in DOMAIN tasks : tasks[t].anns # << >> /\ t > wm}

\* incremental_tasks: the id has advanced, or the task has more annotations
\* than were recovered.
NewTasks(tasks, wm, cnt) ==
    {t \in DOMAIN tasks :
        tasks[t].anns # << >> /\ (t > wm \/ Len(tasks[t].anns) > cnt[t])}

NewCounts(tasks) ==
    [t \in TaskIds |-> IF t \in DOMAIN tasks THEN Len(tasks[t].anns) ELSE 0]

NewWatermark(wm, fresh) == Max({wm} \cup fresh)

\* parse_ls_annotation over the new tasks, in export order: nothing comes of a
\* skipped annotation.
Parsed(r, a) ==
    IF a.content = Skipped THEN << >>
    ELSE <<[row |-> r, who |-> a.who, content |-> a.content, truth |-> a.truth]>>

ParsedTask(task) ==
    FlattenSeq([k \in DOMAIN task.anns |-> Parsed(task.row, task.anns[k])])

Recovered(tasks, fresh) ==
    FlattenSeq([t \in DOMAIN tasks |-> IF t \in fresh THEN ParsedTask(tasks[t]) ELSE << >>])

\* adjudicate, for one row of the batch.
Verdict(recs, r) ==
    LET mine == {i \in DOMAIN recs : recs[i].row = r}
    IN IF \E i \in mine : recs[i].truth THEN "approved"
       ELSE IF Cardinality({recs[i].content : i \in mine}) # 1 THEN "arbitration"
       ELSE IF Cardinality(mine) >= Max({1, MinAnnotators}) THEN "approved" ELSE "pending"

\* The content key and the version group of a row.
AdlId(a) == <<a.row, a.who, a.content>>
Group(a) == <<a.row, a.who>>

Version(rows, a) ==
    Max({0} \cup {rows[i].ver : i \in {j \in DOMAIN rows : Group(rows[j]) = Group(a)}}) + 1

\* The annotations of a batch with the verdict on their row.
Judged(recs) ==
    [i \in DOMAIN recs |-> [row |-> recs[i].row, who |-> recs[i].who,
                            content |-> recs[i].content, status |-> Verdict(recs, recs[i].row)]]

\* build_adl_batch: drop what is already in the table or in the batch, number
\* the rest per (row, annotator).
Ids(rows) == {AdlId(rows[i]) : i \in DOMAIN rows}

AddRow(existing, rows, a) ==
    IF AdlId(a) \in Ids(existing) \cup Ids(rows) THEN rows
    ELSE Append(rows, [row |-> a.row, who |-> a.who, content |-> a.content,
                       status |-> a.status, ver |-> Version(existing \o rows, a)])

Batch(existing, recs) ==
    LET rows[n \in 0 .. Len(recs)] ==
            IF n = 0 THEN << >> ELSE AddRow(existing, rows[n - 1], recs[n])
    IN rows[Len(recs)]

\* Faulty: the test of the strategy is the wrong way round.
DisputedAgain(tasks, fresh, recs) ==
    {r \in Rows :
        /\ \E i \in DOMAIN recs : recs[i].row = r
        /\ Verdict(recs, r) = "arbitration"
        /\ \A t \in fresh : tasks[t].row = r => tasks[t].arb}

\* arbitration_tasks: rows in dispute whose new tasks hold a text and no
\* arbitration task.
Disputed(tasks, fresh, recs) ==
    {r \in Rows :
        /\ \E i \in DOMAIN recs : recs[i].row = r
        /\ Verdict(recs, r) = "arbitration"
        /\ \A t \in fresh : tasks[t].row = r => ~tasks[t].arb}

\* (task_number, annotation_number) of the Label Studio project.
Submitted ==
    {tk \in TaskIds \X (1..MaxEvents) : tk[1] \in DOMAIN ls /\ tk[2] \in DOMAIN ls[tk[1]].anns}

Signature == <<Len(ls), Cardinality(Submitted), "sig">>

----------------------------------------------------------------------------
(* People in Label Studio *)

\* run_dispatch imports a task for a sampled row; a row may be dispatched again.
Dispatch(r) ==
    /\ Len(ls) < MaxTasks
    /\ ls' = Append(ls, NewTask(r, FALSE))
    /\ UNCHANGED <<adl, regVars, lock, proc, sched, hist, faults>>

Event ==
    /\ events < MaxEvents
    /\ events' = events + 1

\* An expert may mark the annotation of an arbitration task as ground truth.
Annotate(t, post) ==
    /\ t \in DOMAIN ls
    /\ Event
    /\ \E truth \in {FALSE, ls[t].arb} :
          ls' = [ls EXCEPT ![t].anns = Append(@, [who |-> post[1], content |-> post[2], truth |-> truth,
                                                  was |-> {}])]
    /\ UNCHANGED <<adl, regVars, lock, proc, sched, lapses, faults>>

\* A draft is submitted or an annotation corrected: the number stays the same.
Edit(t, k, c) ==
    /\ t \in DOMAIN ls /\ k \in DOMAIN ls[t].anns
    /\ ls[t].anns[k].was = {} /\ ls[t].anns[k].content # c
    /\ Event
    /\ ls' = [ls EXCEPT ![t].anns[k].content = c, ![t].anns[k].was = {ls[t].anns[k].content}]
    /\ UNCHANGED <<adl, regVars, lock, proc, sched, lapses, faults>>

----------------------------------------------------------------------------
(* recover_one *)

At(p, l)   == proc[p].pc = l
Goto(p, l) == proc' = [proc EXCEPT ![p].pc = l]

\* recover_one is over but for the lock, with or without an exception.
Leave(p, l, fine) ==
    proc' = [proc EXCEPT ![p].pc = l, ![p].work = NoWork, ![p].ok = fine]

Fault ==
    /\ faults < MaxFaults
    /\ faults' = faults + 1

\* The project's row is read before the lock is taken.
ReadProject(p) ==
    proc' = [proc EXCEPT ![p].pc = "lock", ![p].work.wm = watermark, ![p].work.counts = counts]

\* Faulty: SET without NX.
TakesLock(p) ==
    /\ At(p, "lock")
    /\ lock' = p
    /\ Goto(p, "export")
    /\ UNCHANGED <<ls, adl, regVars, sched, hist, faults>>

AcquireLock(p) ==
    /\ At(p, "lock")
    /\ lock = "none"
    /\ lock' = p
    /\ Goto(p, "export")
    /\ UNCHANGED <<ls, adl, regVars, sched, hist, faults>>

\* RecoverInProgress is raised outside the try block: nothing to release.
LockHeld(p) ==
    /\ At(p, "lock")
    /\ lock # "none"
    /\ Leave(p, "end", FALSE)
    /\ UNCHANGED <<ls, adl, regVars, lock, sched, hist, faults>>

\* Redis is unreachable: the recovery goes on without a lock.
NoRedis(p) ==
    /\ At(p, "lock")
    /\ Fault
    /\ lapses' = lapses \cup {"lock"}
    /\ Goto(p, "export")
    /\ UNCHANGED <<ls, adl, regVars, lock, sched, events>>

\* export_tasks, and what is computed from it and from the project's row.
Export(p) ==
    /\ At(p, "export")
    /\ LET fresh == NewTasks(ls, proc[p].work.wm, proc[p].work.counts)
           recs  == Recovered(ls, fresh)
       IN proc' = [proc EXCEPT ![p].pc = "read",
                               ![p].work = [recs |-> Judged(recs),
                                            wm |-> NewWatermark(@.wm, fresh),
                                            counts |-> NewCounts(ls),
                                            disputed |-> Disputed(ls, fresh, recs)]]
    /\ UNCHANGED <<ls, adl, regVars, lock, sched, hist, faults>>

\* Faulty: the counters are moved before the rows are appended.
CountsFirst(p) ==
    /\ At(p, "read")
    /\ proc' = [proc EXCEPT ![p].pc = "write", ![p].work.recs = Batch(adl, @)]
    /\ counts' = proc[p].work.counts
    /\ UNCHANGED <<ls, adl, watermark, lock, sched, hist, faults>>

\* The table is read for its keys and versions and the batch is built.
ReadAdl(p) ==
    /\ At(p, "read")
    /\ proc' = [proc EXCEPT ![p].pc = "write", ![p].work.recs = Batch(adl, @)]
    /\ UNCHANGED <<ls, adl, regVars, lock, sched, hist, faults>>

\* _existing_adl_state takes every exception for a missing table.
ReadAdlFails(p) ==
    /\ At(p, "read")
    /\ Fault
    /\ lapses' = lapses \cup {"read"}
    /\ proc' = [proc EXCEPT ![p].pc = "write", ![p].work.recs = Batch(<< >>, @)]
    /\ UNCHANGED <<ls, adl, regVars, lock, sched, events>>

WriteAdl(p) ==
    /\ At(p, "write")
    /\ adl' = adl \o proc[p].work.recs
    /\ proc' = [proc EXCEPT ![p].pc = "watermark", ![p].work.recs = << >>]
    /\ UNCHANGED <<ls, regVars, lock, sched, hist, faults>>

SetWatermark(p) ==
    /\ At(p, "watermark")
    /\ watermark' = proc[p].work.wm
    /\ proc' = [proc EXCEPT ![p].pc = "counts", ![p].work.wm = 0]
    /\ UNCHANGED <<ls, adl, counts, lock, sched, hist, faults>>

SetCounts(p) ==
    /\ At(p, "counts")
    /\ counts' = proc[p].work.counts
    /\ proc' = [proc EXCEPT ![p].pc = "import", ![p].work.counts = NoTasks]
    /\ UNCHANGED <<ls, adl, watermark, lock, sched, hist, faults>>

\* As many tasks as the bound MaxTasks leaves room for are imported.
ImportArbitration(p) ==
    /\ At(p, "import")
    /\ LET rows == SetToSeq(proc[p].work.disputed)
           n    == Min({Len(rows), MaxTasks - Len(ls)})
       IN ls' = ls \o [i \in 1..n |-> NewTask(rows[i], TRUE)]
    /\ Leave(p, "check", TRUE)
    /\ UNCHANGED <<adl, regVars, lock, sched, hist, faults>>

\* A call to Label Studio, to the storage or to the registry raises; the
\* finally clause releases the lock.
CallFails(p) ==
    /\ proc[p].pc \in {"export", "write", "watermark", "counts", "import"}
    /\ Fault
    /\ Leave(p, "check", FALSE)
    /\ UNCHANGED <<ls, adl, regVars, lock, sched, hist>>

\* _release: only the own token is deleted, but the two calls are not atomic,
\* and an exception of either is swallowed.
CheckToken(p) ==
    /\ At(p, "check")
    /\ Goto(p, IF lock = p THEN "delete" ELSE "end")
    /\ UNCHANGED <<ls, adl, regVars, lock, sched, hist, faults>>

DeleteLock(p) ==
    /\ At(p, "delete")
    /\ lock' = "none"
    /\ Goto(p, "end")
    /\ UNCHANGED <<ls, adl, regVars, sched, hist, faults>>

ReleaseFails(p) ==
    /\ proc[p].pc \in {"check", "delete"}
    /\ Fault
    /\ lock' = IF lock = p THEN "orphan" ELSE lock
    /\ Goto(p, "end")
    /\ UNCHANGED <<ls, adl, regVars, sched, hist>>

----------------------------------------------------------------------------
(* The threads *)

\* The project looks as it did when this worker last recovered it.
Unchanged(s, sig) == sig = sched[s].sig

\* _cycle: nothing has changed, or the signature is kept for after the recovery.
\* Without one the project is recovered in any case.
Tick(s) ==
    /\ At(s, "idle") /\ ~sched[s].stopped
    /\ IF Unchanged(s, Signature)
       THEN sched' = [sched EXCEPT ![s].fails = 0] /\ UNCHANGED proc
       ELSE proc' = [proc EXCEPT ![s].pc = "project", ![s].sig = Signature] /\ UNCHANGED sched
    /\ UNCHANGED <<ls, adl, regVars, lock, hist, faults>>

TickWithoutSignature(s) ==
    /\ At(s, "idle") /\ ~sched[s].stopped
    /\ Fault
    /\ Goto(s, "project")
    /\ UNCHANGED <<ls, adl, regVars, lock, sched, hist>>

StartRound(s) ==
    /\ At(s, "project")
    /\ ReadProject(s)
    /\ UNCHANGED <<ls, adl, regVars, lock, sched, hist, faults>>

\* The round ends: the signature is remembered, or the failure counted.
EndRound(s) ==
    /\ At(s, "end")
    /\ LET m == sched[s]
       IN sched' = [sched EXCEPT ![s] =
                       IF proc[s].ok
                       THEN [m EXCEPT !.fails = 0,
                                      !.sig = IF proc[s].sig # NoSig THEN proc[s].sig ELSE m.sig]
                       ELSE [m EXCEPT !.fails = m.fails + 1,
                                      !.stopped = (m.fails + 1 >= MaxFailures)]]
    /\ proc' = [proc EXCEPT ![s] = Idle]
    /\ UNCHANGED <<ls, adl, regVars, lock, hist, faults>>

\* A webhook or a user starts a recovery; its failure is reported and forgotten.
Call(c) ==
    /\ At(c, "idle")
    /\ ReadProject(c)
    /\ UNCHANGED <<ls, adl, regVars, lock, sched, hist, faults>>

EndCall(c) ==
    /\ At(c, "end")
    /\ proc' = [proc EXCEPT ![c] = Idle]
    /\ UNCHANGED <<ls, adl, regVars, lock, sched, hist, faults>>

\* The worker dies; its successor starts with an empty memory and another token.
Crash(p) ==
    /\ ~At(p, "idle")
    /\ Fault
    /\ proc' = [proc EXCEPT ![p] = Idle]
    /\ sched' = [s \in Schedulers |-> IF s = p THEN Fresh ELSE sched[s]]
    /\ lock' = IF lock = p THEN "orphan" ELSE lock
    /\ UNCHANGED <<ls, adl, regVars, hist>>

\* The TTL of a key that nobody deleted passes, or the TTL of a key whose
\* holder is still at work.
LockExpires ==
    /\ lock = "orphan"
    /\ lock' = "none"
    /\ UNCHANGED <<ls, adl, regVars, proc, sched, hist, faults>>

LockExpiresUnder(p) ==
    /\ lock = p
    /\ Fault
    /\ lock' = "none"
    /\ lapses' = lapses \cup {"lock"}
    /\ UNCHANGED <<ls, adl, regVars, proc, sched, events>>

Work(p) ==
    \/ AcquireLock(p) \/ LockHeld(p) \/ Export(p) \/ ReadAdl(p)
    \/ WriteAdl(p) \/ SetWatermark(p) \/ SetCounts(p) \/ ImportArbitration(p)
    \/ CheckToken(p) \/ DeleteLock(p)

Failure(p) ==
    \/ NoRedis(p) \/ LockExpiresUnder(p) \/ ReadAdlFails(p)
    \/ CallFails(p) \/ ReleaseFails(p) \/ Crash(p)

People ==
    \/ \E r \in Rows : Dispatch(r)
    \/ \E t \in TaskIds, post \in Posts : Annotate(t, post)
    \/ \E t \in TaskIds, k \in 1..MaxEvents :
           \E c \in Contents : Edit(t, k, c)

SchedulerStep(s) == Tick(s) \/ StartRound(s) \/ Work(s) \/ EndRound(s)

Next ==
    \/ People
    \/ \E s \in Schedulers : SchedulerStep(s)
    \/ \E c \in Callers : Call(c) \/ Work(c) \/ EndCall(c)
    \/ \E p \in Threads : Failure(p)
    \/ \E s \in Schedulers : TickWithoutSignature(s)
    \/ LockExpires

Spec == Init /\ [][Next]_vars

\* Scheduler threads run until their breaker stops them, started recoveries
\* go on (every call has a timeout), and Redis expires keys.
FairSpec ==
    /\ Spec
    /\ \A s \in Schedulers : WF_vars(SchedulerStep(s))
    /\ \A c \in Callers : WF_vars(Work(c) \/ EndCall(c))
    /\ WF_vars(LockExpires)

----------------------------------------------------------------------------
(* Properties *)

Annotations == [who : Annotators, content : Contents \cup {Skipped}, truth : BOOLEAN,
                was : SUBSET (Contents \cup {Skipped})]
Tasks       == [row : Rows, arb : BOOLEAN, anns : Seq(Annotations)]
Statuses    == {"approved", "arbitration", "pending"}
JudgedRows  == [row : Rows, who : Annotators, content : Contents, status : Statuses]
AdlRows     == [row : Rows, who : Annotators, content : Contents, status : Statuses,
                ver : Nat \ {0}]
Counts      == [TaskIds -> 0..MaxEvents]
Sigs        == Nat \X Nat \X {"none", "sig"}
Pcs         == {"idle", "project", "lock", "export", "read", "write", "watermark", "counts",
                "import", "check", "delete", "end"}
Works       == [recs : Seq(JudgedRows) \cup Seq(AdlRows), wm : 0..MaxTasks, counts : Counts,
                disputed : SUBSET Rows]
Procs       == [pc : Pcs, work : Works, sig : Sigs, ok : BOOLEAN]
Memories    == [sig : Sigs, fails : 0..MaxFailures, stopped : BOOLEAN]

\* A batch is at hand from the export to the append, the rows in dispute until
\* the import.
ProcOk(p) ==
    LET w == proc[p].work IN
    /\ At(p, "read") => w.recs \in Seq(JudgedRows)
    /\ At(p, "write") => w.recs \in Seq(AdlRows)
    /\ proc[p].pc \notin {"read", "write"} => w.recs = << >>
    /\ proc[p].pc \notin {"read", "write", "watermark", "counts", "import"} => w.disputed = {}

\* A scheduler at work has not stopped, and stops at MaxFailures.
SchedOk(s) ==
    /\ ~At(s, "idle") => ~sched[s].stopped
    /\ ~sched[s].stopped => sched[s].fails < MaxFailures

BaseTypes ==
    /\ ls \in Seq(Tasks) /\ adl \in Seq(AdlRows)
    /\ watermark \in 0..MaxTasks /\ counts \in Counts
    /\ lock \in Threads \cup {"none", "orphan"}
    /\ proc \in [Threads -> Procs] /\ sched \in [Schedulers -> Memories]
    /\ lapses \subseteq {"lock", "read"}
    /\ events \in 0..MaxEvents /\ faults \in 0..MaxFaults
    /\ Len(ls) <= MaxTasks /\ \A t \in DOMAIN ls : Len(ls[t].anns) <= events

TypeOK ==
    BaseTypes /\ (\A p \in Threads : ProcOk(p)) /\ (\A s \in Schedulers : SchedOk(s))

\* The contents an annotation has had, and whether one of them is in the table.
Versions(a)    == ({a.content} \cup a.was) \ {Skipped}
InAdl(r, u, c) == \E i \in DOMAIN adl : AdlId(adl[i]) = <<r, u, c>>

\* The counters never run ahead of the table: an annotation that
\* incremental_tasks will not look at again has been appended in one of the
\* contents it has had, however crashes, expired locks and overlapping
\* recoveries with stale project rows interleave.
CountedIsRecorded ==
        \A t \in DOMAIN ls : \A k \in 1..Len(ls[t].anns) :
            k <= counts[t] =>
                LET a == ls[t].anns[k]
                IN Skipped \in {a.content} \cup a.was
                   \/ \E c \in Versions(a) : InAdl(ls[t].row, a.who, c)

Versioned(rows) ==
    \A i, j \in DOMAIN rows :
        i < j /\ Group(rows[i]) = Group(rows[j])
        => rows[i].content # rows[j].content /\ rows[i].ver < rows[j].ver

\* Every content of an annotator for a row is appended once, and its versions
\* are 1, 2, 3, ...: webhook, scheduler, manual recovery and retries after a
\* crash may all see the same annotation.  This rests on the Redis lock and on
\* the read of the table, so it is claimed while neither has failed.
AdlIsVersioned == lapses = {} => Versioned(adl)

Handed(tasks, r) == \E t \in DOMAIN tasks : tasks[t].row = r /\ tasks[t].arb

\* A dispute that the table shows has been handed to an expert once no recovery
\* is under way, unless a call has failed (the counters move before the import,
\* so a failed import is not repeated) or no task can be added.
DisputesAreArbitrated ==
    faults = 0 /\ (\A p \in Threads : At(p, "idle")) /\ Len(ls) < MaxTasks =>
        \A i \in DOMAIN adl :
            adl[i].status = "arbitration" => Handed(ls, adl[i].row)

\* An annotation that nobody touches reaches the table, unless the breakers of
\* all the schedulers have opened.
Settled(t, k) ==
    \/ \A s \in Schedulers : sched[s].stopped
    \/ /\ t \in DOMAIN ls /\ k \in DOMAIN ls[t].anns
       /\ \/ ls[t].anns[k].was # {}
          \/ ls[t].anns[k].content = Skipped
          \/ InAdl(ls[t].row, ls[t].anns[k].who, ls[t].anns[k].content)

AnnotationsArrive ==
    \A t \in TaskIds, k \in 1..MaxEvents :
        (t \in DOMAIN ls /\ k \in DOMAIN ls[t].anns) ~> Settled(t, k)

----------------------------------------------------------------------------
(* The inductive invariants behind the safety properties *)

\* CountedIsRecorded: what the registry, or a copy of its row that a recovery
\* holds, counts is in the table or in the batch of that recovery.
Dealt(task, k, ids) ==
    LET a == task.anns[k]
    IN Skipped \in {a.content} \cup a.was
       \/ \E c \in Versions(a) : <<task.row, a.who, c>> \in ids
Backed(tasks, cnt, ids) ==
    /\ \A t \in TaskIds \ DOMAIN tasks : cnt[t] = 0
    /\ \A t \in DOMAIN tasks : /\ cnt[t] <= Len(tasks[t].anns)
                               /\ \A k \in 1..cnt[t] : Dealt(tasks[t], k, ids)
BackedInv ==
    /\ Backed(ls, counts, Ids(adl))
    /\ \A p \in Threads : Backed(ls, proc[p].work.counts, Ids(adl) \cup Ids(proc[p].work.recs))

\* AdlIsVersioned: one recovery works at a time, so its batch continues the
\* table it was numbered against.
Locked == {"export", "read", "write", "watermark", "counts", "import", "check", "delete"}
VersionInv ==
    lapses = {} =>
        /\ Versioned(adl)
        /\ \A p \in Threads : /\ proc[p].pc \in Locked => lock = p
                              /\ At(p, "write") => Versioned(adl \o proc[p].work.recs)

\* DisputesAreArbitrated: the recovery that appends a dispute still holds its
\* row, until it imports a task for it.
DisputeInv ==
    faults = 0 =>
        /\ \A p \in Threads : \A i \in DOMAIN proc[p].work.recs :
              proc[p].work.recs[i].status = "arbitration"
              => \/ Handed(ls, proc[p].work.recs[i].row)
                 \/ proc[p].work.recs[i].row \in proc[p].work.disputed
        /\ \A i \in DOMAIN adl :
              adl[i].status = "arbitration"
              => \/ Handed(ls, adl[i].row) \/ Len(ls) = MaxTasks
                 \/ \E p \in Threads : adl[i].row \in proc[p].work.disputed

----------------------------------------------------------------------------
(* What the repository says and the code does not do *)

\* As FairSpec, with recoveries started by webhooks again and again.
HookedSpec == FairSpec /\ \A c \in Callers : WF_vars(Call(c))

\* incremental_tasks and the webhook endpoint: a change of content that leaves
\* the number of annotations alone is caught by the recovery that the
\* ANNOTATION_UPDATED webhook starts.  The new content reaches the table.
EditsArrive ==
    \A t \in TaskIds, k \in 1..MaxEvents :
        (t \in DOMAIN ls /\ k \in DOMAIN ls[t].anns /\ ls[t].anns[k].was # {})
        ~> \/ \A s \in Schedulers : sched[s].stopped
           \/ /\ t \in DOMAIN ls /\ k \in DOMAIN ls[t].anns
              /\ InAdl(ls[t].row, ls[t].anns[k].who, ls[t].anns[k].content)

============================================================================
