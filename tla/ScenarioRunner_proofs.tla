----------------------- MODULE ScenarioRunner_proofs -----------------------
(***************************************************************************)
(* Proofs about ScenarioRunner, for any steps, gateways, requirements and  *)
(* compensations, any number of resumptions and acknowledgements, and any  *)
(* writes of step rows that are given up and land later.                   *)
(***************************************************************************)
EXTENDS ScenarioRunner, TLAPS

\* Every action keeps the types.
LEMMA TypeStep ==
    ASSUME TypeOK, [Next]_vars
    PROVE  TypeOK'
<1>1. CASE Load
  BY <1>1, ScenarioAssumption DEF Load, End, rows, mem, hist, TypeOK, Resumable,
     StepState, Terminal, Progress, Collected, Nothing, Undecided, Empty, Idle
<1>2. CASE ReadInstance
  BY <1>2, ScenarioAssumption DEF ReadInstance, End, rows, mem, hist, TypeOK,
     Resumable, StepState, Terminal, Progress, Collected, Nothing, Undecided, Empty,
     Idle
<1>3. CASE SkipLoser
  <2>1. PICK s \in Steps : MarkSkipped(s)
    BY <1>3 DEF SkipLoser, Losing
  <2>2. Declares(s, "skipped") = {}
    BY DEF Declares
  <2> QED
    BY <1>3, <2>1, <2>2 DEF SkipLoser, MarkSkipped, PutRow, hist, TypeOK, StepState, Terminal
<1>4. CASE PassGateway
  BY <1>4, ScenarioAssumption DEF PassGateway, AtGateway, rows, mem, hist, TypeOK,
     Resumable, StepState, Terminal, Progress, Collected, Nothing, Undecided, Empty,
     Idle
<1>5. CASE Decide
  BY <1>5, ScenarioAssumption DEF Decide, AtGateway, rows, mem, hist, TypeOK,
     Resumable, StepState, Terminal, Progress, Collected, Nothing, Undecided, Empty,
     Idle
<1>6. CASE EndGateways
  BY <1>6, ScenarioAssumption DEF EndGateways, rows, mem, hist, TypeOK, Resumable,
     StepState, Terminal, Progress, Collected, Nothing, Undecided, Empty, Idle
<1>7. CASE Cascade
  <2>1. PICK s \in Steps : MarkSkipped(s)
    BY <1>7 DEF Cascade, Cascading
  <2>2. Declares(s, "skipped") = {}
    BY DEF Declares
  <2> QED
    BY <1>7, <2>1, <2>2 DEF Cascade, MarkSkipped, PutRow, hist, TypeOK, StepState, Terminal
<1>8. CASE Dispatch
  BY <1>8, ScenarioAssumption DEF Dispatch, rows, mem, hist, TypeOK, Resumable,
     StepState, Terminal, Progress, Collected, Nothing, Undecided, Empty, Idle
<1>9. CASE NothingRunnable
  BY <1>9, ScenarioAssumption DEF NothingRunnable, Finish, End, rows, mem, hist,
     TypeOK, Resumable, StepState, Terminal, Progress, Collected, Nothing,
     Undecided, Empty, Idle
<1>10. CASE MarkTimeout
  <2>1. PICK s \in Steps : PutRow(s, "timeout") /\ known' = [known EXCEPT ![s] = "timeout"]
    BY <1>10 DEF MarkTimeout
  <2>2. Declares(s, "timeout") = {}
    BY DEF Declares
  <2> QED
    BY <1>10, <2>1, <2>2 DEF MarkTimeout, PutRow, hist, TypeOK, StepState, Terminal
<1>11. CASE Escalate
  BY <1>11, ScenarioAssumption DEF Escalate, Escalates, rows, mem, hist, TypeOK,
     Resumable, StepState, Terminal, Progress, Collected, Nothing, Undecided, Empty,
     Idle
<1>12. CASE EndTimeout
  BY <1>12, ScenarioAssumption DEF EndTimeout, End, rows, mem, hist, TypeOK,
     Resumable, StepState, Terminal, Progress, Collected, Nothing, Undecided, Empty,
     Idle
<1>13. CASE NextRound
  <2>1. known' \in [Steps -> StepState]
    BY <1>13 DEF NextRound, Learnt, Outcome, BatchIsOver, Collected, TypeOK, StepState, Terminal
  <2> QED
    BY <1>13, <2>1 DEF NextRound, rows, hist, TypeOK, Empty, Progress
<1>14. CASE HandleFailure
  <2>1. Compensations \subseteq Comps
    BY DEF Compensations, Failed, Members, Comps
  <2> QED
    BY <1>14, <2>1 DEF HandleFailure, Finish, End, hist, TypeOK, Resumable, StepState,
       Progress, Nothing, Undecided, Empty
<1>15. CASE Expire
  BY <1>15, ScenarioAssumption DEF Expire, rows, mem, hist, TypeOK, Resumable,
     StepState, Terminal, Progress, Collected, Nothing, Undecided, Empty, Idle
<1>16. CASE Raise
  <2>1. late' \subseteq Writes /\ stray' \subseteq Steps
    BY <1>16 DEF Raise, GiveUp, TypeOK, Writes, StepState, Terminal
  <2> QED
    BY <1>16, <2>1, ScenarioAssumption DEF Raise, End, TypeOK, Resumable, StepState, Terminal,
       Progress, Nothing, Undecided, Empty
<1>17. ASSUME NEW s \in Steps, StartStep(s) PROVE TypeOK'
  <2>1. Declares(s, "running") = {}
    BY DEF Declares
  <2> QED
    BY <1>17, <2>1 DEF StartStep, PutRow, hist, TypeOK, StepState, Terminal, Progress
<1>18. ASSUME NEW s \in Steps, RunStep(s) PROVE TypeOK'
  <2>1. ctx' \in AssessSteps \cup {"default"}
    BY <1>18 DEF RunStep, Mirrored, TypeOK
  <2>2. batch' \in [Steps -> Progress]
    BY <1>18 DEF RunStep, TypeOK, Progress
  <2>3. executed' \subseteq Steps /\ won' \subseteq Steps
    BY <1>18 DEF RunStep, TypeOK
  <2>4. UNCHANGED <<rows, pc, gi, known, decided, ack, runs, stray, expired, blind>>
    BY <1>18 DEF RunStep
  <2> QED
    BY <2>1, <2>2, <2>3, <2>4 DEF rows, TypeOK
<1>19. ASSUME NEW s \in Steps, FinishStep(s) PROVE TypeOK'
  <2>1. Verdict(s) \in {"succeeded", "failed"}
    BY DEF Verdict
  <2>2. Declares(s, Verdict(s)) \in SUBSET Comps
    BY DEF Declares, Comps
  <2>3. declared' \in [Steps -> SUBSET Comps] /\ row' \in [Steps -> StepState]
    BY <1>19, <2>1, <2>2 DEF FinishStep, PutRow, TypeOK, StepState, Terminal
  <2>4. batch' \in [Steps -> Progress]
    BY <1>19, <2>1 DEF FinishStep, TypeOK, Progress, Collected
  <2> QED
    BY <1>19, <2>3, <2>4 DEF FinishStep, hist, TypeOK
<1>20. ASSUME NEW s \in Steps, StepError(s) PROVE TypeOK'
  <2>1. batch' \in [Steps -> Progress]
    BY <1>20 DEF StepError, TypeOK, Progress, Collected
  <2>2. late' \subseteq Writes /\ stray' \subseteq Steps
    BY <1>20 DEF StepError, GiveUp, Verdict, TypeOK, Writes, StepState, Terminal
  <2> QED
    BY <1>20, <2>1, <2>2 DEF StepError, TypeOK
<1>21. CASE LateStepWrite
  <2>1. PICK w \in late : PutRow(w.step, w.status) /\ late' = late \ {w}
    BY <1>21 DEF LateStepWrite
  <2>2. w.step \in Steps /\ w.status \in StepState
    BY DEF TypeOK, Writes
  <2>3. Declares(w.step, w.status) \in SUBSET Comps
    BY <2>2 DEF Declares, Comps
  <2>4. row' \in [Steps -> StepState] /\ declared' \in [Steps -> SUBSET Comps]
    BY <2>1, <2>2, <2>3 DEF PutRow, TypeOK
  <2> QED
    BY <1>21, <2>1, <2>4 DEF LateStepWrite, mem, hist, TypeOK
<1>22. CASE WorkerDies
  BY <1>22, ScenarioAssumption DEF WorkerDies, End, rows, mem, hist, TypeOK,
     Resumable, StepState, Terminal, Progress, Collected, Nothing, Undecided, Empty,
     Idle
<1>23. CASE Reap
  BY <1>23, ScenarioAssumption DEF Reap, rows, mem, hist, TypeOK, Resumable,
     StepState, Terminal, Progress, Collected, Nothing, Undecided, Empty, Idle
<1>24. CASE Terminate
  BY <1>24, ScenarioAssumption DEF Terminate, rows, mem, hist, TypeOK, Resumable,
     StepState, Terminal, Progress, Collected, Nothing, Undecided, Empty, Idle
<1>25. CASE Resume
  BY <1>25, ScenarioAssumption DEF Resume, rows, mem, hist, TypeOK, Resumable,
     StepState, Terminal, Progress, Collected, Nothing, Undecided, Empty, Idle
<1>26. ASSUME NEW k \in Ackers, AckReadInstance(k) PROVE TypeOK'
  BY <1>26, ScenarioAssumption DEF AckReadInstance, rows, mem, hist, TypeOK,
     Resumable, StepState, Terminal, Progress, Collected, Nothing, Undecided, Empty,
     Idle
<1>27. ASSUME NEW k \in Ackers, NEW s \in Steps, AckReadStep(k, s) PROVE TypeOK'
  <2>1. declared[s] \subseteq Comps /\ ack[k].seen \subseteq Comps
    BY DEF TypeOK
  <2>2. [ack[k] EXCEPT !.clear = declared[s], !.stage = "write"]
            \in [seen : SUBSET Comps, clear : SUBSET Comps, stage : {"new", "seen", "write", "over"}]
    BY <2>1 DEF TypeOK
  <2>3. ack' \in [Ackers -> [seen : SUBSET Comps, clear : SUBSET Comps,
                            stage : {"new", "seen", "write", "over"}]]
    BY <1>27, <2>2 DEF AckReadStep, Idle, TypeOK
  <2>4. UNCHANGED <<rows, pc, mem, hist>>
    BY <1>27 DEF AckReadStep
  <2> QED
    BY <2>3, <2>4 DEF rows, mem, hist, TypeOK
<1>28. ASSUME NEW k \in Ackers, AckWrite(k) PROVE TypeOK'
  BY <1>28, ScenarioAssumption DEF AckWrite, StillSeen, rows, mem, hist, TypeOK,
     Resumable, StepState, Terminal, Progress, Collected, Nothing, Undecided, Empty,
     Idle
<1>29. CASE UNCHANGED vars
  BY <1>29, ScenarioAssumption DEF vars, rows, mem, hist, TypeOK, Resumable,
     StepState, Terminal, Progress, Collected, Nothing, Undecided, Empty, Idle
<1> QED
  BY <1>1, <1>2, <1>3, <1>4, <1>5, <1>6, <1>7, <1>8, <1>9, <1>10, <1>11, <1>12,
     <1>13, <1>14, <1>15, <1>16, <1>17, <1>18, <1>19, <1>20, <1>21, <1>22, <1>23,
     <1>24, <1>25, <1>26, <1>27, <1>28, <1>29 DEF Next, Round, StepProgress

\* Only steps of which a write was given up have late writes.
LEMMA LateStep ==
    ASSUME LateInv, [Next]_vars
    PROVE  LateInv'
<1>1. CASE Load
  BY <1>1 DEF Load, End, LateInv, rows, mem, hist
<1>2. CASE ReadInstance
  BY <1>2 DEF ReadInstance, End, LateInv, rows, mem, hist
<1>3. CASE SkipLoser
  BY <1>3 DEF SkipLoser, MarkSkipped, PutRow, Losing, LateInv, rows, mem, hist
<1>4. CASE PassGateway
  BY <1>4 DEF PassGateway, AtGateway, LateInv, rows, mem, hist
<1>5. CASE Decide
  BY <1>5 DEF Decide, AtGateway, LateInv, rows, mem, hist
<1>6. CASE EndGateways
  BY <1>6 DEF EndGateways, LateInv, rows, mem, hist
<1>7. CASE Cascade
  BY <1>7 DEF Cascade, MarkSkipped, PutRow, Cascading, LateInv, rows, mem, hist
<1>8. CASE Dispatch
  BY <1>8 DEF Dispatch, LateInv, rows, mem, hist
<1>9. CASE NothingRunnable
  BY <1>9 DEF NothingRunnable, Finish, End, LateInv, rows, mem, hist
<1>10. CASE MarkTimeout
  BY <1>10 DEF MarkTimeout, PutRow, LateInv, rows, mem, hist
<1>11. CASE Escalate
  BY <1>11 DEF Escalate, Escalates, LateInv, rows, mem, hist
<1>12. CASE EndTimeout
  BY <1>12 DEF EndTimeout, End, LateInv, rows, mem, hist
<1>13. CASE NextRound
  BY <1>13 DEF NextRound, LateInv, rows, mem, hist
<1>14. CASE HandleFailure
  BY <1>14 DEF HandleFailure, Finish, End, LateInv, rows, mem, hist
<1>15. CASE Expire
  BY <1>15 DEF Expire, LateInv, rows, mem, hist
<1>16. CASE Raise
  BY <1>16 DEF Raise, End, GiveUp, LateInv, rows, mem, hist
<1>17. ASSUME NEW s \in Steps, StartStep(s) PROVE LateInv'
  BY <1>17 DEF StartStep, PutRow, LateInv, rows, mem, hist
<1>18. ASSUME NEW s \in Steps, RunStep(s) PROVE LateInv'
  BY <1>18 DEF RunStep, Mirrored, LateInv, rows, mem, hist
<1>19. ASSUME NEW s \in Steps, FinishStep(s) PROVE LateInv'
  BY <1>19 DEF FinishStep, PutRow, Verdict, LateInv, rows, mem, hist
<1>20. ASSUME NEW s \in Steps, StepError(s) PROVE LateInv'
  BY <1>20 DEF StepError, GiveUp, Verdict, LateInv, rows, mem, hist
<1>21. CASE LateStepWrite
  BY <1>21 DEF LateStepWrite, PutRow, LateInv, rows, mem, hist
<1>22. CASE WorkerDies
  BY <1>22 DEF WorkerDies, End, LateInv, rows, mem, hist
<1>23. CASE Reap
  BY <1>23 DEF Reap, LateInv, rows, mem, hist
<1>24. CASE Terminate
  BY <1>24 DEF Terminate, LateInv, rows, mem, hist
<1>25. CASE Resume
  BY <1>25 DEF Resume, LateInv, rows, mem, hist
<1>26. ASSUME NEW k \in Ackers, AckReadInstance(k) PROVE LateInv'
  BY <1>26 DEF AckReadInstance, LateInv, rows, mem, hist
<1>27. ASSUME NEW k \in Ackers, NEW s \in Steps, AckReadStep(k, s) PROVE LateInv'
  BY <1>27 DEF AckReadStep, LateInv, rows, mem, hist
<1>28. ASSUME NEW k \in Ackers, AckWrite(k) PROVE LateInv'
  BY <1>28 DEF AckWrite, StillSeen, LateInv, rows, mem, hist
<1>29. CASE UNCHANGED vars
  BY <1>29 DEF vars, LateInv, rows, mem, hist
<1> QED
  BY <1>1, <1>2, <1>3, <1>4, <1>5, <1>6, <1>7, <1>8, <1>9, <1>10, <1>11, <1>12,
     <1>13, <1>14, <1>15, <1>16, <1>17, <1>18, <1>19, <1>20, <1>21, <1>22, <1>23,
     <1>24, <1>25, <1>26, <1>27, <1>28, <1>29 DEF Next, Round, StepProgress

\* Rows, map and batch of a runner stay in step with each other.
LEMMA BatchStep ==
    ASSUME TypeOK, LateInv, BatchInv, [Next]_vars, NEW q \in Steps
    PROVE  StepOk(q)'
<1> USE DEF BatchInv
<1>1. CASE Load
  BY <1>1, ScenarioAssumption DEF Load, End, Nothing, Empty, Runnable, rows, mem,
     hist, TypeOK, StepOk, RowOk, Loaded
<1>2. CASE ReadInstance
  BY <1>2, ScenarioAssumption DEF ReadInstance, End, Nothing, Empty, Runnable, rows,
     mem, hist, TypeOK, StepOk, RowOk, Loaded
<1>3. CASE SkipLoser
  BY <1>3, ScenarioAssumption DEF SkipLoser, MarkSkipped, PutRow, Losing,
     IsTerminal, Terminal, rows, mem, hist, TypeOK, StepOk, RowOk, Loaded
<1>4. CASE PassGateway
  BY <1>4, ScenarioAssumption DEF PassGateway, AtGateway, rows, mem, hist, TypeOK,
     StepOk, RowOk, Loaded
<1>5. CASE Decide
  BY <1>5, ScenarioAssumption DEF Decide, AtGateway, rows, mem, hist, TypeOK,
     StepOk, RowOk, Loaded
<1>6. CASE EndGateways
  BY <1>6, ScenarioAssumption DEF EndGateways, rows, mem, hist, TypeOK, StepOk,
     RowOk, Loaded
<1>7. CASE Cascade
  BY <1>7, ScenarioAssumption DEF Cascade, MarkSkipped, PutRow, Cascading, rows,
     mem, hist, TypeOK, StepOk, RowOk, Loaded
<1>8. CASE Dispatch
  BY <1>8, ScenarioAssumption DEF Dispatch, RunnableSteps, Runnable, rows, mem,
     hist, TypeOK, StepOk, RowOk, Loaded
<1>9. CASE NothingRunnable
  BY <1>9, ScenarioAssumption DEF NothingRunnable, Finish, End, Nothing, Empty,
     Runnable, rows, mem, hist, TypeOK, StepOk, RowOk, Loaded
<1>10. CASE MarkTimeout
  BY <1>10, ScenarioAssumption DEF MarkTimeout, PutRow, rows, mem, hist, TypeOK,
     StepOk, RowOk, Loaded
<1>11. CASE Escalate
  BY <1>11, ScenarioAssumption DEF Escalate, Escalates, Empty, IsTerminal, rows,
     mem, hist, TypeOK, StepOk, RowOk, Loaded
<1>12. CASE EndTimeout
  BY <1>12, ScenarioAssumption DEF EndTimeout, End, Nothing, Empty, Runnable, rows,
     mem, hist, TypeOK, StepOk, RowOk, Loaded
<1>13. CASE NextRound
  BY <1>13, ScenarioAssumption DEF NextRound, BatchIsOver, Members, Learnt, Outcome,
     Failures, Empty, Collected, rows, mem, hist, TypeOK, StepOk, RowOk, Loaded
<1>14. CASE HandleFailure
  BY <1>14, ScenarioAssumption DEF HandleFailure, Finish, End, Nothing, Empty,
     Runnable, rows, mem, hist, TypeOK, StepOk, RowOk, Loaded
<1>15. CASE Expire
  BY <1>15, ScenarioAssumption DEF Expire, rows, mem, hist, TypeOK, StepOk, RowOk,
     Loaded
<1>16. CASE Raise
  BY <1>16, ScenarioAssumption DEF Raise, End, GiveUp, Nothing, Empty, Runnable,
     rows, mem, hist, TypeOK, StepOk, RowOk, Loaded
<1>17. ASSUME NEW s \in Steps, StartStep(s) PROVE StepOk(q)'
  BY <1>17, ScenarioAssumption DEF StartStep, PutRow, Runnable, IsTerminal, rows,
     mem, hist, TypeOK, StepOk, RowOk, Loaded
<1>18. ASSUME NEW s \in Steps, RunStep(s) PROVE StepOk(q)'
  BY <1>18, ScenarioAssumption DEF RunStep, Mirrored, Runnable, rows, mem, hist,
     TypeOK, StepOk, RowOk, Loaded
<1>19. ASSUME NEW s \in Steps, FinishStep(s) PROVE StepOk(q)'
  BY <1>19, ScenarioAssumption DEF FinishStep, PutRow, Verdict, Runnable, rows, mem,
     hist, TypeOK, StepOk, RowOk, Loaded
<1>20. ASSUME NEW s \in Steps, StepError(s) PROVE StepOk(q)'
  BY <1>20, ScenarioAssumption DEF StepError, GiveUp, Verdict, Runnable, rows, mem,
     hist, TypeOK, StepOk, RowOk, Loaded
<1>21. CASE LateStepWrite
  <2>1. PICK w \in late : PutRow(w.step, w.status)
    BY <1>21 DEF LateStepWrite
  <2>2. w.step \in stray /\ w.status # "none"
    BY DEF LateInv, TypeOK, Writes
  <2> QED
    BY <1>21, <2>1, <2>2 DEF LateStepWrite, PutRow, Runnable, mem, hist, TypeOK, StepOk, RowOk,
       Loaded
<1>22. CASE WorkerDies
  BY <1>22, ScenarioAssumption DEF WorkerDies, End, Nothing, Empty, Runnable, rows,
     mem, hist, TypeOK, StepOk, RowOk, Loaded
<1>23. CASE Reap
  BY <1>23, ScenarioAssumption DEF Reap, rows, mem, hist, TypeOK, StepOk, RowOk,
     Loaded
<1>24. CASE Terminate
  BY <1>24, ScenarioAssumption DEF Terminate, Runnable, rows, mem, hist, TypeOK,
     StepOk, RowOk, Loaded
<1>25. CASE Resume
  BY <1>25, ScenarioAssumption DEF Resume, rows, mem, hist, TypeOK, StepOk, RowOk,
     Loaded
<1>26. ASSUME NEW k \in Ackers, AckReadInstance(k) PROVE StepOk(q)'
  BY <1>26, ScenarioAssumption DEF AckReadInstance, Runnable, rows, mem, hist,
     TypeOK, StepOk, RowOk, Loaded
<1>27. ASSUME NEW k \in Ackers, NEW s \in Steps, AckReadStep(k, s) PROVE StepOk(q)'
  BY <1>27, ScenarioAssumption DEF AckReadStep, Runnable, rows, mem, hist, TypeOK,
     StepOk, RowOk, Loaded
<1>28. ASSUME NEW k \in Ackers, AckWrite(k) PROVE StepOk(q)'
  BY <1>28, ScenarioAssumption DEF AckWrite, StillSeen, Runnable, rows, mem, hist,
     TypeOK, StepOk, RowOk, Loaded
<1>29. CASE UNCHANGED vars
  BY <1>29, ScenarioAssumption DEF vars, Runnable, rows, mem, hist, TypeOK, StepOk,
     RowOk, Loaded
<1> QED
  BY <1>1, <1>2, <1>3, <1>4, <1>5, <1>6, <1>7, <1>8, <1>9, <1>10, <1>11, <1>12,
     <1>13, <1>14, <1>15, <1>16, <1>17, <1>18, <1>19, <1>20, <1>21, <1>22, <1>23,
     <1>24, <1>25, <1>26, <1>27, <1>28, <1>29 DEF Next, Round, StepProgress

\* Where the word of success stands, an execution has succeeded.
LEMMA WonStep ==
    ASSUME TypeOK, BatchInv, WonInv, [Next]_vars, NEW q \in Steps
    PROVE  WonOk(q)'
<1> USE DEF WonInv
<1>1. CASE Load
  BY <1>1 DEF Load, End, Nothing, Empty, rows, mem, hist, TypeOK, WonOk
<1>2. CASE ReadInstance
  BY <1>2 DEF ReadInstance, End, Nothing, Empty, rows, mem, hist, TypeOK, WonOk
<1>3. CASE SkipLoser
  BY <1>3 DEF SkipLoser, MarkSkipped, PutRow, Losing, rows, mem, hist, TypeOK, WonOk
<1>4. CASE PassGateway
  BY <1>4 DEF PassGateway, AtGateway, rows, mem, hist, TypeOK, WonOk
<1>5. CASE Decide
  BY <1>5 DEF Decide, AtGateway, rows, mem, hist, TypeOK, WonOk
<1>6. CASE EndGateways
  BY <1>6 DEF EndGateways, rows, mem, hist, TypeOK, WonOk
<1>7. CASE Cascade
  BY <1>7 DEF Cascade, MarkSkipped, PutRow, Cascading, rows, mem, hist, TypeOK,
     WonOk
<1>8. CASE Dispatch
  BY <1>8 DEF Dispatch, rows, mem, hist, TypeOK, WonOk
<1>9. CASE NothingRunnable
  BY <1>9 DEF NothingRunnable, Finish, End, Nothing, Empty, rows, mem, hist, TypeOK,
     WonOk
<1>10. CASE MarkTimeout
  BY <1>10 DEF MarkTimeout, PutRow, rows, mem, hist, TypeOK, WonOk
<1>11. CASE Escalate
  BY <1>11 DEF Escalate, Escalates, Empty, rows, mem, hist, TypeOK, WonOk
<1>12. CASE EndTimeout
  BY <1>12 DEF EndTimeout, End, Nothing, Empty, rows, mem, hist, TypeOK, WonOk
<1>13. CASE NextRound
  BY <1>13 DEF NextRound, Learnt, Outcome, Members, Empty, BatchIsOver, Collected,
     rows, mem, hist, TypeOK, WonOk
<1>14. CASE HandleFailure
  BY <1>14 DEF HandleFailure, Finish, End, Nothing, Empty, rows, mem, hist, TypeOK,
     WonOk
<1>15. CASE Expire
  BY <1>15 DEF Expire, rows, mem, hist, TypeOK, WonOk
<1>16. CASE Raise
  BY <1>16 DEF Raise, End, GiveUp, Nothing, Empty, MarkDue, rows, mem, hist, TypeOK,
     WonOk
<1>17. ASSUME NEW s \in Steps, StartStep(s) PROVE WonOk(q)'
  BY <1>17 DEF StartStep, PutRow, rows, mem, hist, TypeOK, WonOk
<1>18. ASSUME NEW s \in Steps, RunStep(s) PROVE WonOk(q)'
  BY <1>18 DEF RunStep, Mirrored, rows, mem, hist, TypeOK, WonOk
<1>19. ASSUME NEW s \in Steps, FinishStep(s) PROVE WonOk(q)'
  BY <1>19 DEF FinishStep, PutRow, Verdict, rows, mem, hist, TypeOK, WonOk
<1>20. ASSUME NEW s \in Steps, StepError(s) PROVE WonOk(q)'
  BY <1>20 DEF StepError, GiveUp, Verdict, rows, mem, hist, TypeOK, WonOk
<1>21. CASE LateStepWrite
  BY <1>21 DEF LateStepWrite, PutRow, rows, mem, hist, TypeOK, WonOk
<1>22. CASE WorkerDies
  BY <1>22 DEF WorkerDies, End, Nothing, Empty, rows, mem, hist, TypeOK, WonOk
<1>23. CASE Reap
  BY <1>23 DEF Reap, rows, mem, hist, TypeOK, WonOk
<1>24. CASE Terminate
  BY <1>24 DEF Terminate, rows, mem, hist, TypeOK, WonOk
<1>25. CASE Resume
  BY <1>25 DEF Resume, rows, mem, hist, TypeOK, WonOk
<1>26. ASSUME NEW k \in Ackers, AckReadInstance(k) PROVE WonOk(q)'
  BY <1>26 DEF AckReadInstance, rows, mem, hist, TypeOK, WonOk
<1>27. ASSUME NEW k \in Ackers, NEW s \in Steps, AckReadStep(k, s) PROVE WonOk(q)'
  BY <1>27 DEF AckReadStep, rows, mem, hist, TypeOK, WonOk
<1>28. ASSUME NEW k \in Ackers, AckWrite(k) PROVE WonOk(q)'
  BY <1>28 DEF AckWrite, StillSeen, rows, mem, hist, TypeOK, WonOk
<1>29. CASE UNCHANGED vars
  BY <1>29 DEF vars, rows, mem, hist, TypeOK, WonOk
<1> QED
  BY <1>1, <1>2, <1>3, <1>4, <1>5, <1>6, <1>7, <1>8, <1>9, <1>10, <1>11, <1>12,
     <1>13, <1>14, <1>15, <1>16, <1>17, <1>18, <1>19, <1>20, <1>21, <1>22, <1>23,
     <1>24, <1>25, <1>26, <1>27, <1>28, <1>29 DEF Next, Round, StepProgress

\* A runner that is past the losing arms has none left to mark.
LEMMA ControlStep ==
    ASSUME TypeOK, BatchInv, ControlInv, [Next]_vars
    PROVE  ControlInv'
<1>1. CASE Load
  BY <1>1 DEF Load, End, rows, mem, hist, TypeOK, ControlInv, Losing, IsTerminal
<1>2. CASE ReadInstance
  BY <1>2 DEF ReadInstance, End, rows, mem, hist, TypeOK, ControlInv, Losing,
     IsTerminal
<1>3. CASE SkipLoser
  BY <1>3 DEF SkipLoser, MarkSkipped, PutRow, Losing, rows, mem, hist, TypeOK,
     ControlInv, IsTerminal
<1>4. CASE PassGateway
  BY <1>4 DEF PassGateway, AtGateway, rows, mem, hist, TypeOK, ControlInv, Losing,
     IsTerminal
<1>5. CASE Decide
  BY <1>5 DEF Decide, AtGateway, rows, mem, hist, TypeOK, ControlInv, Losing,
     IsTerminal
<1>6. CASE EndGateways
  BY <1>6 DEF EndGateways, rows, mem, hist, TypeOK, ControlInv, Losing, IsTerminal
<1>7. CASE Cascade
  <2>1. PICK p \in Cascading : MarkSkipped(p)
    BY <1>7 DEF Cascade
  <2>2. \A r \in Steps : known[r] \in Terminal => known'[r] \in Terminal
    BY <2>1 DEF MarkSkipped, Cascading, Terminal, TypeOK
  <2>3. Losing' = {}
    <3>1. ASSUME NEW r \in Losing' PROVE FALSE
      BY <1>7, <2>2, <3>1 DEF Cascade, Losing, IsTerminal, ControlInv
    <3> QED
      BY <3>1
  <2> QED
    BY <1>7, <2>3 DEF Cascade, ControlInv
<1>8. CASE Dispatch
  BY <1>8 DEF Dispatch, rows, mem, hist, TypeOK, ControlInv, Losing, IsTerminal
<1>9. CASE NothingRunnable
  BY <1>9 DEF NothingRunnable, Finish, End, rows, mem, hist, TypeOK, ControlInv,
     Losing, IsTerminal
<1>10. CASE MarkTimeout
  BY <1>10 DEF MarkTimeout, PutRow, rows, mem, hist, TypeOK, ControlInv, Losing,
     IsTerminal
<1>11. CASE Escalate
  BY <1>11 DEF Escalate, Escalates, rows, mem, hist, TypeOK, ControlInv, Losing,
     IsTerminal
<1>12. CASE EndTimeout
  BY <1>12 DEF EndTimeout, End, rows, mem, hist, TypeOK, ControlInv, Losing,
     IsTerminal
<1>13. CASE NextRound
  BY <1>13 DEF NextRound, BatchIsOver, rows, mem, hist, TypeOK, ControlInv, Losing,
     IsTerminal
<1>14. CASE HandleFailure
  BY <1>14 DEF HandleFailure, Finish, End, rows, mem, hist, TypeOK, ControlInv,
     Losing, IsTerminal
<1>15. CASE Expire
  BY <1>15 DEF Expire, rows, mem, hist, TypeOK, ControlInv, Losing, IsTerminal
<1>16. CASE Raise
  BY <1>16 DEF Raise, End, GiveUp, rows, mem, hist, TypeOK, ControlInv, Losing,
     IsTerminal
<1>17. ASSUME NEW s \in Steps, StartStep(s) PROVE ControlInv'
  BY <1>17 DEF StartStep, PutRow, BatchInv, StepOk, rows, mem, hist, TypeOK,
     ControlInv, Losing, IsTerminal
<1>18. ASSUME NEW s \in Steps, RunStep(s) PROVE ControlInv'
  BY <1>18 DEF RunStep, Mirrored, BatchInv, StepOk, rows, mem, hist, TypeOK,
     ControlInv, Losing, IsTerminal
<1>19. ASSUME NEW s \in Steps, FinishStep(s) PROVE ControlInv'
  BY <1>19 DEF FinishStep, PutRow, Verdict, BatchInv, StepOk, rows, mem, hist,
     TypeOK, ControlInv, Losing, IsTerminal
<1>20. ASSUME NEW s \in Steps, StepError(s) PROVE ControlInv'
  BY <1>20 DEF StepError, GiveUp, Verdict, BatchInv, StepOk, rows, mem, hist,
     TypeOK, ControlInv, Losing, IsTerminal
<1>21. CASE LateStepWrite
  BY <1>21 DEF LateStepWrite, PutRow, rows, mem, hist, TypeOK, ControlInv, Losing,
     IsTerminal
<1>22. CASE WorkerDies
  BY <1>22 DEF WorkerDies, End, rows, mem, hist, TypeOK, ControlInv, Losing,
     IsTerminal
<1>23. CASE Reap
  BY <1>23 DEF Reap, rows, mem, hist, TypeOK, ControlInv, Losing, IsTerminal
<1>24. CASE Terminate
  BY <1>24 DEF Terminate, rows, mem, hist, TypeOK, ControlInv, Losing, IsTerminal
<1>25. CASE Resume
  BY <1>25 DEF Resume, rows, mem, hist, TypeOK, ControlInv, Losing, IsTerminal
<1>26. ASSUME NEW k \in Ackers, AckReadInstance(k) PROVE ControlInv'
  BY <1>26 DEF AckReadInstance, rows, mem, hist, TypeOK, ControlInv, Losing,
     IsTerminal
<1>27. ASSUME NEW k \in Ackers, NEW s \in Steps, AckReadStep(k, s) PROVE ControlInv'
  BY <1>27 DEF AckReadStep, rows, mem, hist, TypeOK, ControlInv, Losing, IsTerminal
<1>28. ASSUME NEW k \in Ackers, AckWrite(k) PROVE ControlInv'
  BY <1>28 DEF AckWrite, StillSeen, rows, mem, hist, TypeOK, ControlInv, Losing,
     IsTerminal
<1>29. CASE UNCHANGED vars
  BY <1>29 DEF vars, rows, mem, hist, TypeOK, ControlInv, Losing, IsTerminal
<1> QED
  BY <1>1, <1>2, <1>3, <1>4, <1>5, <1>6, <1>7, <1>8, <1>9, <1>10, <1>11, <1>12,
     <1>13, <1>14, <1>15, <1>16, <1>17, <1>18, <1>19, <1>20, <1>21, <1>22, <1>23,
     <1>24, <1>25, <1>26, <1>27, <1>28, <1>29 DEF Next, Round, StepProgress

\* Where a member of a batch can be: in the runner's batch, or the escalation step
\* after a deadline.
LEMMA MemberOf ==
    ASSUME TypeOK, BatchInv, ControlInv, NEW s \in Steps, batch[s] # "out"
    PROVE  /\ pc \in {"batch", "escalate"}
           /\ inst \in {"running", "terminated"}
           /\ pc = "batch" => Runnable(s) /\ Losing = {}
           /\ pc = "escalate" => s = OnTimeout /\ known[s] # "succeeded" /\ expired
  BY DEF BatchInv, StepOk, ControlInv

\* What no step does to a settled row, save that a write was given up.
Settles(q) ==
    q \notin stray =>
        /\ row[q] = "succeeded" => row'[q] = "succeeded"
        /\ row[q] = "skipped" /\ q # OnTimeout => row'[q] = "skipped"

\* A row that says succeeded stays, and so does one that says skipped unless the
\* runner escalates.
LEMMA SettledStep ==
    ASSUME TypeOK, LateInv, BatchInv, ControlInv, [Next]_vars, NEW q \in Steps
    PROVE  Settles(q)
<1>1. CASE Load
  BY <1>1, MemberOf DEF Load, End, Settles, rows, mem, hist, TypeOK, BatchInv,
     StepOk, RowOk, Loaded, Terminal, IsTerminal
<1>2. CASE ReadInstance
  BY <1>2, MemberOf DEF ReadInstance, End, Settles, rows, mem, hist, TypeOK,
     BatchInv, StepOk, RowOk, Loaded, Terminal, IsTerminal
<1>3. CASE SkipLoser
  BY <1>3, MemberOf DEF SkipLoser, MarkSkipped, PutRow, Losing, Settles, rows, mem,
     hist, TypeOK, BatchInv, StepOk, RowOk, Loaded, Terminal, IsTerminal
<1>4. CASE PassGateway
  BY <1>4, MemberOf DEF PassGateway, AtGateway, Settles, rows, mem, hist, TypeOK,
     BatchInv, StepOk, RowOk, Loaded, Terminal, IsTerminal
<1>5. CASE Decide
  BY <1>5, MemberOf DEF Decide, AtGateway, Settles, rows, mem, hist, TypeOK,
     BatchInv, StepOk, RowOk, Loaded, Terminal, IsTerminal
<1>6. CASE EndGateways
  BY <1>6, MemberOf DEF EndGateways, Settles, rows, mem, hist, TypeOK, BatchInv,
     StepOk, RowOk, Loaded, Terminal, IsTerminal
<1>7. CASE Cascade
  BY <1>7, MemberOf DEF Cascade, MarkSkipped, PutRow, Cascading, Settles, rows, mem,
     hist, TypeOK, BatchInv, StepOk, RowOk, Loaded, Terminal, IsTerminal
<1>8. CASE Dispatch
  BY <1>8, MemberOf DEF Dispatch, Settles, rows, mem, hist, TypeOK, BatchInv,
     StepOk, RowOk, Loaded, Terminal, IsTerminal
<1>9. CASE NothingRunnable
  BY <1>9, MemberOf DEF NothingRunnable, Finish, End, Settles, rows, mem, hist,
     TypeOK, BatchInv, StepOk, RowOk, Loaded, Terminal, IsTerminal
<1>10. CASE MarkTimeout
  BY <1>10, MemberOf DEF MarkTimeout, PutRow, Settles, rows, mem, hist, TypeOK,
     BatchInv, StepOk, RowOk, Loaded, Terminal, IsTerminal
<1>11. CASE Escalate
  BY <1>11, MemberOf DEF Escalate, Escalates, Settles, rows, mem, hist, TypeOK,
     BatchInv, StepOk, RowOk, Loaded, Terminal, IsTerminal
<1>12. CASE EndTimeout
  BY <1>12, MemberOf DEF EndTimeout, End, Settles, rows, mem, hist, TypeOK,
     BatchInv, StepOk, RowOk, Loaded, Terminal, IsTerminal
<1>13. CASE NextRound
  BY <1>13, MemberOf DEF NextRound, Settles, rows, mem, hist, TypeOK, BatchInv,
     StepOk, RowOk, Loaded, Terminal, IsTerminal
<1>14. CASE HandleFailure
  BY <1>14, MemberOf DEF HandleFailure, Finish, End, Settles, rows, mem, hist,
     TypeOK, BatchInv, StepOk, RowOk, Loaded, Terminal, IsTerminal
<1>15. CASE Expire
  BY <1>15, MemberOf DEF Expire, Settles, rows, mem, hist, TypeOK, BatchInv, StepOk,
     RowOk, Loaded, Terminal, IsTerminal
<1>16. CASE Raise
  BY <1>16, MemberOf DEF Raise, End, GiveUp, Settles, rows, mem, hist, TypeOK,
     BatchInv, StepOk, RowOk, Loaded, Terminal, IsTerminal
<1>17. ASSUME NEW s \in Steps, StartStep(s) PROVE Settles(q)
  BY <1>17, MemberOf DEF StartStep, PutRow, Runnable, Settles, rows, mem, hist,
     TypeOK, BatchInv, StepOk, RowOk, Loaded, Terminal, IsTerminal
<1>18. ASSUME NEW s \in Steps, RunStep(s) PROVE Settles(q)
  BY <1>18, MemberOf DEF RunStep, Mirrored, Settles, rows, mem, hist, TypeOK,
     BatchInv, StepOk, RowOk, Loaded, Terminal, IsTerminal
<1>19. ASSUME NEW s \in Steps, FinishStep(s) PROVE Settles(q)
  BY <1>19, MemberOf DEF FinishStep, PutRow, Verdict, Settles, rows, mem, hist,
     TypeOK, BatchInv, StepOk, RowOk, Loaded, Terminal, IsTerminal
<1>20. ASSUME NEW s \in Steps, StepError(s) PROVE Settles(q)
  BY <1>20, MemberOf DEF StepError, GiveUp, Verdict, Settles, rows, mem, hist,
     TypeOK, BatchInv, StepOk, RowOk, Loaded, Terminal, IsTerminal
<1>21. CASE LateStepWrite
  <2>1. PICK w \in late : PutRow(w.step, w.status)
    BY <1>21 DEF LateStepWrite
  <2>2. w.step \in stray /\ w.status # "none"
    BY DEF LateInv, TypeOK, Writes
  <2> QED
    BY <2>1, <2>2 DEF PutRow, Settles, TypeOK
<1>22. CASE WorkerDies
  BY <1>22, MemberOf DEF WorkerDies, End, Settles, rows, mem, hist, TypeOK,
     BatchInv, StepOk, RowOk, Loaded, Terminal, IsTerminal
<1>23. CASE Reap
  BY <1>23, MemberOf DEF Reap, Settles, rows, mem, hist, TypeOK, BatchInv, StepOk,
     RowOk, Loaded, Terminal, IsTerminal
<1>24. CASE Terminate
  BY <1>24, MemberOf DEF Terminate, Settles, rows, mem, hist, TypeOK, BatchInv,
     StepOk, RowOk, Loaded, Terminal, IsTerminal
<1>25. CASE Resume
  BY <1>25, MemberOf DEF Resume, Settles, rows, mem, hist, TypeOK, BatchInv, StepOk,
     RowOk, Loaded, Terminal, IsTerminal
<1>26. ASSUME NEW k \in Ackers, AckReadInstance(k) PROVE Settles(q)
  BY <1>26, MemberOf DEF AckReadInstance, Settles, rows, mem, hist, TypeOK,
     BatchInv, StepOk, RowOk, Loaded, Terminal, IsTerminal
<1>27. ASSUME NEW k \in Ackers, NEW s \in Steps, AckReadStep(k, s) PROVE Settles(q)
  BY <1>27, MemberOf DEF AckReadStep, Settles, rows, mem, hist, TypeOK, BatchInv,
     StepOk, RowOk, Loaded, Terminal, IsTerminal
<1>28. ASSUME NEW k \in Ackers, AckWrite(k) PROVE Settles(q)
  BY <1>28, MemberOf DEF AckWrite, StillSeen, Settles, rows, mem, hist, TypeOK,
     BatchInv, StepOk, RowOk, Loaded, Terminal, IsTerminal
<1>29. CASE UNCHANGED vars
  BY <1>29, MemberOf DEF vars, Settles, rows, mem, hist, TypeOK, BatchInv, StepOk,
     RowOk, Loaded, Terminal, IsTerminal
<1> QED
  BY <1>1, <1>2, <1>3, <1>4, <1>5, <1>6, <1>7, <1>8, <1>9, <1>10, <1>11, <1>12,
     <1>13, <1>14, <1>15, <1>16, <1>17, <1>18, <1>19, <1>20, <1>21, <1>22, <1>23,
     <1>24, <1>25, <1>26, <1>27, <1>28, <1>29 DEF Next, Round, StepProgress

\* A first run loads before any of its writes can be given up.
LEMMA LateLoad ==
    ASSUME LateInv, BatchInv, FirstRunInv, runs = 1, late # {}
    PROVE  pc # "load"
  BY DEF LateInv, FirstRunInv, FirstStray, BatchInv, StepOk

\* A first run meets no verdict but its own: it ends at the first failure.
LEMMA FirstStep ==
    ASSUME TypeOK, LateInv, BatchInv, ControlInv, FirstRunInv, [Next]_vars,
           runs' = 1, NEW q \in Steps
    PROVE  FirstOk(q)'
<1>1. CASE Load
  BY <1>1, ScenarioAssumption, MemberOf DEF Load, End, TypeOK, Nothing, Empty, rows,
     mem, hist, FirstOk, Loaded, FirstRunInv
<1>2. CASE ReadInstance
  BY <1>2, ScenarioAssumption, MemberOf DEF ReadInstance, End, TypeOK, Nothing,
     Empty, rows, mem, hist, FirstOk, Loaded, FirstRunInv
<1>3. CASE SkipLoser
  BY <1>3, ScenarioAssumption, MemberOf DEF SkipLoser, MarkSkipped, PutRow, Losing,
     TypeOK, rows, mem, hist, FirstOk, Loaded, FirstRunInv
<1>4. CASE PassGateway
  BY <1>4, ScenarioAssumption, MemberOf DEF PassGateway, AtGateway, rows, mem, hist,
     FirstOk, Loaded, FirstRunInv
<1>5. CASE Decide
  BY <1>5, ScenarioAssumption, MemberOf DEF Decide, AtGateway, rows, mem, hist,
     FirstOk, Loaded, FirstRunInv
<1>6. CASE EndGateways
  BY <1>6, ScenarioAssumption, MemberOf DEF EndGateways, rows, mem, hist, FirstOk,
     Loaded, FirstRunInv
<1>7. CASE Cascade
  BY <1>7, ScenarioAssumption, MemberOf DEF Cascade, MarkSkipped, PutRow, Cascading,
     TypeOK, rows, mem, hist, FirstOk, Loaded, FirstRunInv
<1>8. CASE Dispatch
  BY <1>8, ScenarioAssumption, MemberOf DEF Dispatch, TypeOK, rows, mem, hist,
     FirstOk, Loaded, FirstRunInv
<1>9. CASE NothingRunnable
  BY <1>9, ScenarioAssumption, MemberOf DEF NothingRunnable, Finish, End, TypeOK,
     Nothing, Empty, rows, mem, hist, FirstOk, Loaded, FirstRunInv
<1>10. CASE MarkTimeout
  BY <1>10, ScenarioAssumption, MemberOf DEF MarkTimeout, PutRow, TypeOK, rows, mem,
     hist, FirstOk, Loaded, FirstRunInv
<1>11. CASE Escalate
  BY <1>11, ScenarioAssumption, MemberOf DEF Escalate, Escalates, TypeOK, rows, mem,
     hist, FirstOk, Loaded, FirstRunInv
<1>12. CASE EndTimeout
  BY <1>12, ScenarioAssumption, MemberOf DEF EndTimeout, End, TypeOK, Nothing,
     Empty, rows, mem, hist, FirstOk, Loaded, FirstRunInv
<1>13. CASE NextRound
  BY <1>13, ScenarioAssumption, MemberOf DEF NextRound, BatchIsOver, Failures,
     Members, Learnt, Outcome, Collected, Empty, TypeOK, rows, mem, hist, FirstOk,
     Loaded, FirstRunInv
<1>14. CASE HandleFailure
  BY <1>14, ScenarioAssumption, MemberOf DEF HandleFailure, Finish, End, TypeOK,
     Nothing, Empty, rows, mem, hist, FirstOk, Loaded, FirstRunInv
<1>15. CASE Expire
  BY <1>15, ScenarioAssumption, MemberOf DEF Expire, rows, mem, hist, FirstOk,
     Loaded, FirstRunInv
<1>16. CASE Raise
  BY <1>16, ScenarioAssumption, MemberOf DEF Raise, End, GiveUp, TypeOK, Nothing,
     Empty, rows, mem, hist, FirstOk, Loaded, FirstRunInv
<1>17. ASSUME NEW s \in Steps, StartStep(s) PROVE FirstOk(q)'
  BY <1>17, ScenarioAssumption, MemberOf DEF StartStep, PutRow, TypeOK, rows, mem,
     hist, FirstOk, Loaded, FirstRunInv
<1>18. ASSUME NEW s \in Steps, RunStep(s) PROVE FirstOk(q)'
  BY <1>18, ScenarioAssumption, MemberOf DEF RunStep, Mirrored, TypeOK, rows, mem,
     hist, FirstOk, Loaded, FirstRunInv
<1>19. ASSUME NEW s \in Steps, FinishStep(s) PROVE FirstOk(q)'
  BY <1>19, ScenarioAssumption, MemberOf DEF FinishStep, PutRow, Verdict, TypeOK,
     rows, mem, hist, FirstOk, Loaded, FirstRunInv
<1>20. ASSUME NEW s \in Steps, StepError(s) PROVE FirstOk(q)'
  BY <1>20, ScenarioAssumption, MemberOf DEF StepError, GiveUp, Verdict, TypeOK,
     rows, mem, hist, FirstOk, Loaded, FirstRunInv
<1>21. CASE LateStepWrite
  <2>1. pc = pc' /\ known' = known /\ ctx' = ctx /\ batch' = batch /\ runs = 1
    BY <1>21 DEF LateStepWrite, mem, hist
  <2>2. pc # "load"
    BY <1>21, <2>1, LateLoad DEF LateStepWrite
  <2> QED
    BY <2>1, <2>2 DEF FirstOk, FirstRunInv
<1>22. CASE WorkerDies
  BY <1>22, ScenarioAssumption, MemberOf DEF WorkerDies, End, TypeOK, Nothing,
     Empty, rows, mem, hist, FirstOk, Loaded, FirstRunInv
<1>23. CASE Reap
  BY <1>23, ScenarioAssumption, MemberOf DEF Reap, rows, mem, hist, FirstOk, Loaded,
     FirstRunInv
<1>24. CASE Terminate
  BY <1>24, ScenarioAssumption, MemberOf DEF Terminate, rows, mem, hist, FirstOk,
     Loaded, FirstRunInv
<1>25. CASE Resume
  BY <1>25, ScenarioAssumption, MemberOf DEF Resume, TypeOK, rows, mem, hist,
     FirstOk, Loaded, FirstRunInv
<1>26. ASSUME NEW k \in Ackers, AckReadInstance(k) PROVE FirstOk(q)'
  BY <1>26, ScenarioAssumption, MemberOf DEF AckReadInstance, rows, mem, hist,
     FirstOk, Loaded, FirstRunInv
<1>27. ASSUME NEW k \in Ackers, NEW s \in Steps, AckReadStep(k, s) PROVE FirstOk(q)'
  BY <1>27, ScenarioAssumption, MemberOf DEF AckReadStep, rows, mem, hist, FirstOk,
     Loaded, FirstRunInv
<1>28. ASSUME NEW k \in Ackers, AckWrite(k) PROVE FirstOk(q)'
  BY <1>28, ScenarioAssumption, MemberOf DEF AckWrite, StillSeen, rows, mem, hist,
     FirstOk, Loaded, FirstRunInv
<1>29. CASE UNCHANGED vars
  BY <1>29, ScenarioAssumption, MemberOf DEF vars, rows, mem, hist, FirstOk, Loaded,
     FirstRunInv
<1> QED
  BY <1>1, <1>2, <1>3, <1>4, <1>5, <1>6, <1>7, <1>8, <1>9, <1>10, <1>11, <1>12,
     <1>13, <1>14, <1>15, <1>16, <1>17, <1>18, <1>19, <1>20, <1>21, <1>22, <1>23,
     <1>24, <1>25, <1>26, <1>27, <1>28, <1>29 DEF Next, Round, StepProgress

\* A first run in which a write was given up never completes.
LEMMA StrayStep ==
    ASSUME TypeOK, BatchInv, ControlInv, FirstRunInv, [Next]_vars, runs' = 1
    PROVE  FirstStray'
<1> USE DEF FirstRunInv
<1>1. CASE Load
  BY <1>1, MemberOf DEF Load, End, Nothing, Empty, rows, mem, hist, TypeOK,
     FirstStray, ControlInv
<1>2. CASE ReadInstance
  BY <1>2, MemberOf DEF ReadInstance, End, Nothing, Empty, rows, mem, hist, TypeOK,
     FirstStray, ControlInv
<1>3. CASE SkipLoser
  BY <1>3, MemberOf DEF SkipLoser, MarkSkipped, PutRow, Losing, rows, mem, hist,
     TypeOK, FirstStray, ControlInv
<1>4. CASE PassGateway
  BY <1>4, MemberOf DEF PassGateway, AtGateway, rows, mem, hist, TypeOK, FirstStray,
     ControlInv
<1>5. CASE Decide
  BY <1>5, MemberOf DEF Decide, AtGateway, rows, mem, hist, TypeOK, FirstStray,
     ControlInv
<1>6. CASE EndGateways
  BY <1>6, MemberOf DEF EndGateways, rows, mem, hist, TypeOK, FirstStray, ControlInv
<1>7. CASE Cascade
  BY <1>7, MemberOf DEF Cascade, MarkSkipped, PutRow, Cascading, rows, mem, hist,
     TypeOK, FirstStray, ControlInv
<1>8. CASE Dispatch
  BY <1>8, MemberOf DEF Dispatch, BatchInv, StepOk, Empty, rows, mem, hist, TypeOK,
     FirstStray, ControlInv
<1>9. CASE NothingRunnable
  BY <1>9, MemberOf DEF NothingRunnable, Finish, End, BatchInv, StepOk, Empty, rows,
     mem, hist, TypeOK, FirstStray, ControlInv
<1>10. CASE MarkTimeout
  BY <1>10, MemberOf DEF MarkTimeout, PutRow, rows, mem, hist, TypeOK, FirstStray,
     ControlInv
<1>11. CASE Escalate
  BY <1>11, MemberOf DEF Escalate, Escalates, BatchInv, StepOk, Empty, rows, mem,
     hist, TypeOK, FirstStray, ControlInv
<1>12. CASE EndTimeout
  BY <1>12, MemberOf DEF EndTimeout, End, Nothing, Empty, rows, mem, hist, TypeOK,
     FirstStray, ControlInv
<1>13. CASE NextRound
  BY <1>13, MemberOf DEF NextRound, Failures, Members, Outcome, Empty, BatchIsOver,
     rows, mem, hist, TypeOK, FirstStray, ControlInv
<1>14. CASE HandleFailure
  BY <1>14, MemberOf DEF HandleFailure, Finish, End, Nothing, Empty, rows, mem,
     hist, TypeOK, FirstStray, ControlInv
<1>15. CASE Expire
  BY <1>15, MemberOf DEF Expire, rows, mem, hist, TypeOK, FirstStray, ControlInv
<1>16. CASE Raise
  BY <1>16, MemberOf DEF Raise, End, GiveUp, Nothing, Empty, rows, mem, hist,
     TypeOK, FirstStray, ControlInv
<1>17. ASSUME NEW s \in Steps, StartStep(s) PROVE FirstStray'
  BY <1>17, MemberOf DEF StartStep, PutRow, rows, mem, hist, TypeOK, FirstStray,
     ControlInv
<1>18. ASSUME NEW s \in Steps, RunStep(s) PROVE FirstStray'
  BY <1>18, MemberOf DEF RunStep, Mirrored, rows, mem, hist, TypeOK, FirstStray,
     ControlInv
<1>19. ASSUME NEW s \in Steps, FinishStep(s) PROVE FirstStray'
  BY <1>19, MemberOf DEF FinishStep, PutRow, Verdict, rows, mem, hist, TypeOK,
     FirstStray, ControlInv
<1>20. ASSUME NEW s \in Steps, StepError(s) PROVE FirstStray'
  BY <1>20, MemberOf DEF StepError, GiveUp, Verdict, rows, mem, hist, TypeOK,
     FirstStray, ControlInv
<1>21. CASE LateStepWrite
  BY <1>21, MemberOf DEF LateStepWrite, PutRow, rows, mem, hist, TypeOK, FirstStray,
     ControlInv
<1>22. CASE WorkerDies
  BY <1>22, MemberOf DEF WorkerDies, End, Nothing, Empty, rows, mem, hist, TypeOK,
     FirstStray, ControlInv
<1>23. CASE Reap
  BY <1>23, MemberOf DEF Reap, rows, mem, hist, TypeOK, FirstStray, ControlInv
<1>24. CASE Terminate
  BY <1>24, MemberOf DEF Terminate, rows, mem, hist, TypeOK, FirstStray, ControlInv
<1>25. CASE Resume
  BY <1>25, MemberOf DEF Resume, rows, mem, hist, TypeOK, FirstStray, ControlInv
<1>26. ASSUME NEW k \in Ackers, AckReadInstance(k) PROVE FirstStray'
  BY <1>26, MemberOf DEF AckReadInstance, rows, mem, hist, TypeOK, FirstStray,
     ControlInv
<1>27. ASSUME NEW k \in Ackers, NEW s \in Steps, AckReadStep(k, s) PROVE FirstStray'
  BY <1>27, MemberOf DEF AckReadStep, rows, mem, hist, TypeOK, FirstStray,
     ControlInv
<1>28. ASSUME NEW k \in Ackers, AckWrite(k) PROVE FirstStray'
  BY <1>28, MemberOf DEF AckWrite, StillSeen, rows, mem, hist, TypeOK, FirstStray,
     ControlInv
<1>29. CASE UNCHANGED vars
  BY <1>29, MemberOf DEF vars, rows, mem, hist, TypeOK, FirstStray, ControlInv
<1> QED
  BY <1>1, <1>2, <1>3, <1>4, <1>5, <1>6, <1>7, <1>8, <1>9, <1>10, <1>11, <1>12,
     <1>13, <1>14, <1>15, <1>16, <1>17, <1>18, <1>19, <1>20, <1>21, <1>22, <1>23,
     <1>24, <1>25, <1>26, <1>27, <1>28, <1>29 DEF Next, Round, StepProgress

\* No action touches a step but the dispatch of a batch it can run in, and a closed
\* step stays closed.
Keeps(q) ==
    /\ Touched(q)' => Touched(q) \/ (Dispatch /\ Runnable(q))
    /\ Closed(q) => Closed(q)'

LEMMA TouchStep ==
    ASSUME TypeOK, BatchInv, ControlInv, [Next]_vars, ~expired', NEW q \in Steps
    PROVE  Keeps(q)
<1>1. CASE Load
  BY <1>1, MemberOf DEF Load, End, Nothing, Empty, Keeps, Touched, Closed, Loaded,
     rows, mem, hist, TypeOK
<1>2. CASE ReadInstance
  BY <1>2, MemberOf DEF ReadInstance, End, Nothing, Empty, Keeps, Touched, Closed,
     Loaded, rows, mem, hist, TypeOK
<1>3. CASE SkipLoser
  BY <1>3, MemberOf DEF SkipLoser, MarkSkipped, PutRow, Losing, IsTerminal,
     Terminal, Keeps, Touched, Closed, Loaded, rows, mem, hist, TypeOK
<1>4. CASE PassGateway
  BY <1>4, MemberOf DEF PassGateway, AtGateway, Keeps, Touched, Closed, Loaded,
     rows, mem, hist, TypeOK
<1>5. CASE Decide
  BY <1>5, MemberOf DEF Decide, AtGateway, Keeps, Touched, Closed, Loaded, rows,
     mem, hist, TypeOK
<1>6. CASE EndGateways
  BY <1>6, MemberOf DEF EndGateways, Keeps, Touched, Closed, Loaded, rows, mem,
     hist, TypeOK
<1>7. CASE Cascade
  BY <1>7, MemberOf DEF Cascade, MarkSkipped, PutRow, Cascading, IsTerminal,
     Terminal, Keeps, Touched, Closed, Loaded, rows, mem, hist, TypeOK
<1>8. CASE Dispatch
  BY <1>8, MemberOf DEF Dispatch, RunnableSteps, Runnable, Keeps, Touched, Closed,
     Loaded, rows, mem, hist, TypeOK
<1>9. CASE NothingRunnable
  BY <1>9, MemberOf DEF NothingRunnable, Finish, End, Nothing, Empty, Keeps,
     Touched, Closed, Loaded, rows, mem, hist, TypeOK
<1>10. CASE MarkTimeout
  BY <1>10, MemberOf DEF MarkTimeout, PutRow, ControlInv, Keeps, Touched, Closed,
     Loaded, rows, mem, hist, TypeOK
<1>11. CASE Escalate
  BY <1>11, MemberOf DEF Escalate, Escalates, ControlInv, Empty, Keeps, Touched,
     Closed, Loaded, rows, mem, hist, TypeOK
<1>12. CASE EndTimeout
  BY <1>12, MemberOf DEF EndTimeout, End, Nothing, Empty, Keeps, Touched, Closed,
     Loaded, rows, mem, hist, TypeOK
<1>13. CASE NextRound
  BY <1>13, MemberOf DEF NextRound, Members, Learnt, Outcome, Empty, BatchIsOver,
     Collected, Keeps, Touched, Closed, Loaded, rows, mem, hist, TypeOK
<1>14. CASE HandleFailure
  BY <1>14, MemberOf DEF HandleFailure, Finish, End, Nothing, Empty, Keeps, Touched,
     Closed, Loaded, rows, mem, hist, TypeOK
<1>15. CASE Expire
  BY <1>15, MemberOf DEF Expire, Keeps, Touched, Closed, Loaded, rows, mem, hist,
     TypeOK
<1>16. CASE Raise
  <2>1. row' = row /\ executed' = executed /\ batch' = Empty /\ known' = Nothing
        /\ pc' = "idle" /\ expired' = expired
    BY <1>16 DEF Raise, End
  <2>2. pc # "expire"
    BY <2>1 DEF ControlInv
  <2>3. \A w \in late' \ late : w.status = "skipped"
    BY <1>16, <2>2 DEF Raise, GiveUp, MarkDue
  <2> QED
    BY <2>1, <2>3 DEF Keeps, Touched, Closed, Loaded, Empty, Nothing
<1>17. ASSUME NEW s \in Steps, StartStep(s) PROVE Keeps(q)
  BY <1>17, MemberOf DEF StartStep, PutRow, Keeps, Touched, Closed, Loaded, rows,
     mem, hist, TypeOK
<1>18. ASSUME NEW s \in Steps, RunStep(s) PROVE Keeps(q)
  BY <1>18, MemberOf DEF RunStep, Mirrored, Keeps, Touched, Closed, Loaded, rows,
     mem, hist, TypeOK
<1>19. ASSUME NEW s \in Steps, FinishStep(s) PROVE Keeps(q)
  BY <1>19, MemberOf DEF FinishStep, PutRow, Verdict, Keeps, Touched, Closed,
     Loaded, rows, mem, hist, TypeOK
<1>20. ASSUME NEW s \in Steps, StepError(s) PROVE Keeps(q)
  BY <1>20, MemberOf DEF StepError, GiveUp, Verdict, Keeps, Touched, Closed, Loaded,
     rows, mem, hist, TypeOK
<1>21. CASE LateStepWrite
  BY <1>21, MemberOf DEF LateStepWrite, PutRow, Keeps, Touched, Closed, Loaded,
     rows, mem, hist, TypeOK
<1>22. CASE WorkerDies
  BY <1>22, MemberOf DEF WorkerDies, End, Nothing, Empty, Keeps, Touched, Closed,
     Loaded, rows, mem, hist, TypeOK
<1>23. CASE Reap
  BY <1>23, MemberOf DEF Reap, Keeps, Touched, Closed, Loaded, rows, mem, hist,
     TypeOK
<1>24. CASE Terminate
  BY <1>24, MemberOf DEF Terminate, Keeps, Touched, Closed, Loaded, rows, mem, hist,
     TypeOK
<1>25. CASE Resume
  BY <1>25, MemberOf DEF Resume, Keeps, Touched, Closed, Loaded, rows, mem, hist,
     TypeOK
<1>26. ASSUME NEW k \in Ackers, AckReadInstance(k) PROVE Keeps(q)
  BY <1>26, MemberOf DEF AckReadInstance, Keeps, Touched, Closed, Loaded, rows, mem,
     hist, TypeOK
<1>27. ASSUME NEW k \in Ackers, NEW s \in Steps, AckReadStep(k, s) PROVE Keeps(q)
  BY <1>27, MemberOf DEF AckReadStep, Keeps, Touched, Closed, Loaded, rows, mem,
     hist, TypeOK
<1>28. ASSUME NEW k \in Ackers, AckWrite(k) PROVE Keeps(q)
  BY <1>28, MemberOf DEF AckWrite, StillSeen, Keeps, Touched, Closed, Loaded, rows,
     mem, hist, TypeOK
<1>29. CASE UNCHANGED vars
  BY <1>29, MemberOf DEF vars, Keeps, Touched, Closed, Loaded, rows, mem, hist,
     TypeOK
<1> QED
  BY <1>1, <1>2, <1>3, <1>4, <1>5, <1>6, <1>7, <1>8, <1>9, <1>10, <1>11, <1>12,
     <1>13, <1>14, <1>15, <1>16, <1>17, <1>18, <1>19, <1>20, <1>21, <1>22, <1>23,
     <1>24, <1>25, <1>26, <1>27, <1>28, <1>29 DEF Next, Round, StepProgress

\* A step is dispatched when the other arm of its gateways is closed: it is marked
\* before, and a step of it that was touched would have closed this arm.
LEMMA DispatchCloses ==
    ASSUME TypeOK, BatchInv, ControlInv, ~expired, Dispatch,
           NEW mine, NEW other, mine \subseteq Steps, other \subseteq Steps,
           (\E p \in other : Touched(p)) => \A p \in mine : Closed(p),
           NEW s \in mine, Runnable(s),
           \A p \in other : known[p] \in Terminal,
           NEW t \in other
    PROVE  Closed(t)
<1>1. pc = "cascade"
  BY DEF Dispatch
<1>2. ~Closed(s)
  BY <1>1 DEF Closed, Loaded, Runnable
<1>3. ~Touched(t)
  BY <1>2
<1>4. known[t] = "skipped" /\ row[t] = "skipped"
  BY <1>3 DEF Touched, Terminal, BatchInv, StepOk
<1> QED
  BY <1>3, <1>4 DEF Closed

\* A touched step of one arm closes the other, for good.
LEMMA ArmStep ==
    ASSUME TypeOK, BatchInv, ControlInv, ArmInv, [Next]_vars,
           ~expired', NEW g \in GatewayIds
    PROVE  ArmsOk(g)'
<1>1. Then[g] \subseteq Steps /\ Else[g] \subseteq Steps /\ Then[g] \cap Else[g] = {}
  BY ScenarioAssumption
<1>2. ~expired
  BY DEF Next, Round, StepProgress, Load, ReadInstance, SkipLoser, PassGateway, Decide,
     EndGateways, Cascade, Dispatch, NothingRunnable, MarkTimeout, Escalate, EndTimeout,
     NextRound, HandleFailure, Expire, Raise, StartStep, RunStep, FinishStep, StepError,
     LateStepWrite, WorkerDies, Reap, Terminate, Resume, AckReadInstance, AckReadStep,
     AckWrite, hist, vars
<1>3. ArmsOk(g)
  BY <1>2 DEF ArmInv
<1>4. \A q \in Steps : Keeps(q)
  BY TouchStep
<1>5. ASSUME Dispatch, NEW s \in Steps, Runnable(s)
      PROVE  /\ s \in Then[g] => \A p \in Else[g] : known[p] \in Terminal
             /\ s \in Else[g] => \A p \in Then[g] : known[p] \in Terminal
  <2>1. Losing = {}
    BY <1>5 DEF Dispatch, ControlInv
  <2>2. CASE s \in Then[g]
    <3>1. decided[g] = "true"
      BY <1>1, <1>5, <2>2 DEF Runnable, Arm, TypeOK
    <3> QED
      BY <1>1, <2>1, <2>2, <3>1 DEF Losing, IsTerminal, Arm
  <2>3. CASE s \in Else[g]
    <3>1. decided[g] = "false"
      BY <1>1, <1>5, <2>3 DEF Runnable, Arm, TypeOK
    <3> QED
      BY <1>1, <2>1, <2>3, <3>1 DEF Losing, IsTerminal, Arm
  <2> QED
    BY <2>2, <2>3
<1>6. ASSUME NEW s \in Then[g], Touched(s)', NEW t \in Else[g] PROVE Closed(t)'
  <2>1. CASE Touched(s)
    BY <1>1, <1>3, <1>4, <2>1 DEF ArmsOk, Keeps
  <2>2. CASE Dispatch /\ Runnable(s)
    <3>1. Closed(t)
      BY <1>1, <1>2, <1>3, <1>5, <2>2, DispatchCloses DEF ArmsOk
    <3> QED
      BY <1>1, <1>4, <3>1 DEF Keeps
  <2> QED
    BY <1>1, <1>4, <1>6, <2>1, <2>2 DEF Keeps
<1>7. ASSUME NEW s \in Else[g], Touched(s)', NEW t \in Then[g] PROVE Closed(t)'
  <2>1. CASE Touched(s)
    BY <1>1, <1>3, <1>4, <2>1 DEF ArmsOk, Keeps
  <2>2. CASE Dispatch /\ Runnable(s)
    <3>1. Closed(t)
      BY <1>1, <1>2, <1>3, <1>5, <2>2, DispatchCloses DEF ArmsOk
    <3> QED
      BY <1>1, <1>4, <3>1 DEF Keeps
  <2> QED
    BY <1>1, <1>4, <1>7, <2>1, <2>2 DEF Keeps
<1> QED
  BY <1>6, <1>7 DEF ArmsOk

\* A step that is executed in the batch finds what it requires done.
LEMMA RequirementsMet ==
    ASSUME TypeOK, BatchInv, WonInv, ControlInv, NEW s \in Steps, s # OnTimeout,
           batch[s] = "started", NEW q \in Requires[s]
    PROVE  q \in won /\ (q \in stray \/ row[q] = "succeeded")
<1>1. pc = "batch" /\ Runnable(s)
  BY MemberOf
<1>2. q \in Steps /\ known[q] = "succeeded"
  BY <1>1, ScenarioAssumption DEF Runnable
<1>3. batch[q] = "out"
  BY <1>1, <1>2 DEF BatchInv, StepOk, Runnable
<1>4. q \in won
  BY <1>2 DEF WonInv, WonOk
<1> QED
  BY <1>1, <1>2, <1>3, <1>4 DEF BatchInv, StepOk, RowOk, Loaded

\* What was required stays done.
LEMMA RequiresStep ==
    ASSUME TypeOK, LateInv, BatchInv, WonInv, ControlInv, RequiresRespected, [Next]_vars,
           NEW s \in executed' \ {OnTimeout}, NEW q \in Requires[s]
    PROVE  q \in won' /\ (q \in stray' \/ row'[q] = "succeeded")
<1>1. s \in executed \/ (s \in Steps /\ RunStep(s))
  BY DEF Next, Round, StepProgress, Load, ReadInstance, SkipLoser, PassGateway, Decide,
     EndGateways, Cascade, Dispatch, NothingRunnable, MarkTimeout, Escalate, EndTimeout,
     NextRound, HandleFailure, Expire, Raise, StartStep, RunStep, FinishStep, StepError,
     LateStepWrite, WorkerDies, Reap, Terminate, Resume, AckReadInstance, AckReadStep,
     AckWrite, hist, vars
<1>2. won \subseteq won' /\ stray \subseteq stray'
  BY DEF Next, Round, StepProgress, Load, ReadInstance, SkipLoser, PassGateway, Decide,
     EndGateways, Cascade, Dispatch, NothingRunnable, MarkTimeout, Escalate, EndTimeout,
     NextRound, HandleFailure, Expire, Raise, StartStep, RunStep, FinishStep, StepError,
     LateStepWrite, WorkerDies, Reap, Terminate, Resume, AckReadInstance, AckReadStep,
     AckWrite, GiveUp, hist, vars
<1>3. s \in Steps /\ q \in Steps
  BY <1>1, ScenarioAssumption DEF TypeOK
<1>4. q \in won /\ (q \in stray \/ row[q] = "succeeded")
  <2>1. CASE s \in executed
    BY <2>1 DEF RequiresRespected
  <2>2. CASE RunStep(s)
    BY <1>3, <2>2, RequirementsMet DEF RunStep
  <2> QED
    BY <1>1, <2>1, <2>2
<1>5. Settles(q)
  BY <1>3, SettledStep
<1> QED
  BY <1>2, <1>4, <1>5 DEF Settles

\* A first run completes on a map that the rows agree with, and nothing writes the
\* row of a step without a runner.
LEMMA CompletedStep ==
    ASSUME TypeOK, LateInv, BatchInv, ControlInv, FirstRunInv,
           CompletedMeansDone, [Next]_vars
    PROVE  CompletedMeansDone'
<1>1. CASE Load
  BY <1>1, MemberOf DEF Load, End, rows, mem, hist, CompletedMeansDone, ControlInv
<1>2. CASE ReadInstance
  BY <1>2, MemberOf DEF ReadInstance, End, rows, mem, hist, CompletedMeansDone,
     ControlInv
<1>3. CASE SkipLoser
  BY <1>3, MemberOf DEF SkipLoser, MarkSkipped, PutRow, Losing, rows, mem, hist,
     CompletedMeansDone, ControlInv
<1>4. CASE PassGateway
  BY <1>4, MemberOf DEF PassGateway, AtGateway, rows, mem, hist, CompletedMeansDone,
     ControlInv
<1>5. CASE Decide
  BY <1>5, MemberOf DEF Decide, AtGateway, rows, mem, hist, CompletedMeansDone,
     ControlInv
<1>6. CASE EndGateways
  BY <1>6, MemberOf DEF EndGateways, rows, mem, hist, CompletedMeansDone, ControlInv
<1>7. CASE Cascade
  BY <1>7, MemberOf DEF Cascade, MarkSkipped, PutRow, Cascading, rows, mem, hist,
     CompletedMeansDone, ControlInv
<1>8. CASE Dispatch
  BY <1>8, MemberOf DEF Dispatch, rows, mem, hist, CompletedMeansDone, ControlInv
<1>9. CASE NothingRunnable
  BY <1>9, MemberOf DEF NothingRunnable, Finish, End, FirstRunInv, FirstOk,
     FirstStray, BatchInv, StepOk, RowOk, Loaded, IsTerminal, Terminal, rows, mem,
     hist, CompletedMeansDone, ControlInv
<1>10. CASE MarkTimeout
  BY <1>10, MemberOf DEF MarkTimeout, PutRow, rows, mem, hist, CompletedMeansDone,
     ControlInv
<1>11. CASE Escalate
  BY <1>11, MemberOf DEF Escalate, Escalates, rows, mem, hist, CompletedMeansDone,
     ControlInv
<1>12. CASE EndTimeout
  BY <1>12, MemberOf DEF EndTimeout, End, rows, mem, hist, CompletedMeansDone,
     ControlInv
<1>13. CASE NextRound
  BY <1>13, MemberOf DEF NextRound, rows, mem, hist, CompletedMeansDone, ControlInv
<1>14. CASE HandleFailure
  BY <1>14, MemberOf DEF HandleFailure, Finish, End, rows, mem, hist,
     CompletedMeansDone, ControlInv
<1>15. CASE Expire
  BY <1>15, MemberOf DEF Expire, rows, mem, hist, CompletedMeansDone, ControlInv
<1>16. CASE Raise
  BY <1>16, MemberOf DEF Raise, End, GiveUp, rows, mem, hist, CompletedMeansDone,
     ControlInv
<1>17. ASSUME NEW s \in Steps, StartStep(s) PROVE CompletedMeansDone'
  BY <1>17, MemberOf DEF StartStep, PutRow, rows, mem, hist, CompletedMeansDone,
     ControlInv
<1>18. ASSUME NEW s \in Steps, RunStep(s) PROVE CompletedMeansDone'
  BY <1>18, MemberOf DEF RunStep, Mirrored, rows, mem, hist, CompletedMeansDone,
     ControlInv
<1>19. ASSUME NEW s \in Steps, FinishStep(s) PROVE CompletedMeansDone'
  BY <1>19, MemberOf DEF FinishStep, PutRow, Verdict, rows, mem, hist,
     CompletedMeansDone, ControlInv
<1>20. ASSUME NEW s \in Steps, StepError(s) PROVE CompletedMeansDone'
  BY <1>20, MemberOf DEF StepError, GiveUp, Verdict, rows, mem, hist,
     CompletedMeansDone, ControlInv
<1>21. CASE LateStepWrite
  <2>1. late # {} /\ inst' = inst /\ runs' = runs
    BY <1>21 DEF LateStepWrite, hist
  <2>2. ASSUME inst = "completed", runs = 1 PROVE FALSE
    <3>1. stray # {} /\ pc = "idle"
      BY <2>1, <2>2 DEF LateInv, ControlInv
    <3> QED
      BY <2>2, <3>1 DEF FirstRunInv, FirstStray, BatchInv, StepOk
  <2> QED
    BY <2>1, <2>2 DEF CompletedMeansDone
<1>22. CASE WorkerDies
  BY <1>22, MemberOf DEF WorkerDies, End, rows, mem, hist, CompletedMeansDone,
     ControlInv
<1>23. CASE Reap
  BY <1>23, MemberOf DEF Reap, rows, mem, hist, CompletedMeansDone, ControlInv
<1>24. CASE Terminate
  BY <1>24, MemberOf DEF Terminate, rows, mem, hist, CompletedMeansDone, ControlInv
<1>25. CASE Resume
  BY <1>25, MemberOf DEF Resume, Resumable, rows, mem, hist, CompletedMeansDone,
     ControlInv
<1>26. ASSUME NEW k \in Ackers, AckReadInstance(k) PROVE CompletedMeansDone'
  BY <1>26, MemberOf DEF AckReadInstance, rows, mem, hist, CompletedMeansDone,
     ControlInv
<1>27. ASSUME NEW k \in Ackers, NEW s \in Steps, AckReadStep(k, s) PROVE CompletedMeansDone'
  BY <1>27, MemberOf DEF AckReadStep, rows, mem, hist, CompletedMeansDone,
     ControlInv
<1>28. ASSUME NEW k \in Ackers, AckWrite(k) PROVE CompletedMeansDone'
  BY <1>28, MemberOf DEF AckWrite, StillSeen, rows, mem, hist, CompletedMeansDone,
     ControlInv
<1>29. CASE UNCHANGED vars
  BY <1>29, MemberOf DEF vars, rows, mem, hist, CompletedMeansDone, ControlInv
<1> QED
  BY <1>1, <1>2, <1>3, <1>4, <1>5, <1>6, <1>7, <1>8, <1>9, <1>10, <1>11, <1>12,
     <1>13, <1>14, <1>15, <1>16, <1>17, <1>18, <1>19, <1>20, <1>21, <1>22, <1>23,
     <1>24, <1>25, <1>26, <1>27, <1>28, <1>29 DEF Next, Round, StepProgress

\* In a first run an assessment that has succeeded is in the context.
LEMMA AssessStep ==
    ASSUME TypeOK, BatchInv, ControlInv, FirstRunInv,
           FirstRunReadsAssess, [Next]_vars
    PROVE  FirstRunReadsAssess'
<1>1. CASE Load
  BY <1>1, ScenarioAssumption DEF Load, End, rows, mem, hist, FirstRunReadsAssess,
     TypeOK
<1>2. CASE ReadInstance
  BY <1>2, ScenarioAssumption DEF ReadInstance, End, rows, mem, hist,
     FirstRunReadsAssess, TypeOK
<1>3. CASE SkipLoser
  BY <1>3, ScenarioAssumption DEF SkipLoser, MarkSkipped, PutRow, Losing, rows, mem,
     hist, FirstRunReadsAssess, TypeOK
<1>4. CASE PassGateway
  BY <1>4, ScenarioAssumption DEF PassGateway, AtGateway, rows, mem, hist,
     FirstRunReadsAssess, TypeOK
<1>5. CASE Decide
  BY <1>5, ScenarioAssumption DEF Decide, AtGateway, NeedsAssess, FirstRunInv,
     FirstOk, Loaded, rows, mem, hist, FirstRunReadsAssess, TypeOK
<1>6. CASE EndGateways
  BY <1>6, ScenarioAssumption DEF EndGateways, rows, mem, hist, FirstRunReadsAssess,
     TypeOK
<1>7. CASE Cascade
  BY <1>7, ScenarioAssumption DEF Cascade, MarkSkipped, PutRow, Cascading, rows,
     mem, hist, FirstRunReadsAssess, TypeOK
<1>8. CASE Dispatch
  BY <1>8, ScenarioAssumption DEF Dispatch, rows, mem, hist, FirstRunReadsAssess,
     TypeOK
<1>9. CASE NothingRunnable
  BY <1>9, ScenarioAssumption DEF NothingRunnable, Finish, End, rows, mem, hist,
     FirstRunReadsAssess, TypeOK
<1>10. CASE MarkTimeout
  BY <1>10, ScenarioAssumption DEF MarkTimeout, PutRow, rows, mem, hist,
     FirstRunReadsAssess, TypeOK
<1>11. CASE Escalate
  BY <1>11, ScenarioAssumption DEF Escalate, Escalates, rows, mem, hist,
     FirstRunReadsAssess, TypeOK
<1>12. CASE EndTimeout
  BY <1>12, ScenarioAssumption DEF EndTimeout, End, rows, mem, hist,
     FirstRunReadsAssess, TypeOK
<1>13. CASE NextRound
  BY <1>13, ScenarioAssumption DEF NextRound, rows, mem, hist, FirstRunReadsAssess,
     TypeOK
<1>14. CASE HandleFailure
  BY <1>14, ScenarioAssumption DEF HandleFailure, Finish, End, rows, mem, hist,
     FirstRunReadsAssess, TypeOK
<1>15. CASE Expire
  BY <1>15, ScenarioAssumption DEF Expire, rows, mem, hist, FirstRunReadsAssess,
     TypeOK
<1>16. CASE Raise
  BY <1>16, ScenarioAssumption DEF Raise, End, GiveUp, rows, mem, hist,
     FirstRunReadsAssess, TypeOK
<1>17. ASSUME NEW s \in Steps, StartStep(s) PROVE FirstRunReadsAssess'
  BY <1>17, ScenarioAssumption DEF StartStep, PutRow, rows, mem, hist,
     FirstRunReadsAssess, TypeOK
<1>18. ASSUME NEW s \in Steps, RunStep(s) PROVE FirstRunReadsAssess'
  BY <1>18, ScenarioAssumption DEF RunStep, Mirrored, rows, mem, hist,
     FirstRunReadsAssess, TypeOK
<1>19. ASSUME NEW s \in Steps, FinishStep(s) PROVE FirstRunReadsAssess'
  BY <1>19, ScenarioAssumption DEF FinishStep, PutRow, Verdict, rows, mem, hist,
     FirstRunReadsAssess, TypeOK
<1>20. ASSUME NEW s \in Steps, StepError(s) PROVE FirstRunReadsAssess'
  BY <1>20, ScenarioAssumption DEF StepError, GiveUp, Verdict, rows, mem, hist,
     FirstRunReadsAssess, TypeOK
<1>21. CASE LateStepWrite
  BY <1>21, ScenarioAssumption DEF LateStepWrite, PutRow, rows, mem, hist,
     FirstRunReadsAssess, TypeOK
<1>22. CASE WorkerDies
  BY <1>22, ScenarioAssumption DEF WorkerDies, End, rows, mem, hist,
     FirstRunReadsAssess, TypeOK
<1>23. CASE Reap
  BY <1>23, ScenarioAssumption DEF Reap, rows, mem, hist, FirstRunReadsAssess,
     TypeOK
<1>24. CASE Terminate
  BY <1>24, ScenarioAssumption DEF Terminate, rows, mem, hist, FirstRunReadsAssess,
     TypeOK
<1>25. CASE Resume
  BY <1>25, ScenarioAssumption DEF Resume, rows, mem, hist, FirstRunReadsAssess,
     TypeOK
<1>26. ASSUME NEW k \in Ackers, AckReadInstance(k) PROVE FirstRunReadsAssess'
  BY <1>26, ScenarioAssumption DEF AckReadInstance, rows, mem, hist,
     FirstRunReadsAssess, TypeOK
<1>27. ASSUME NEW k \in Ackers, NEW s \in Steps, AckReadStep(k, s) PROVE FirstRunReadsAssess'
  BY <1>27, ScenarioAssumption DEF AckReadStep, rows, mem, hist,
     FirstRunReadsAssess, TypeOK
<1>28. ASSUME NEW k \in Ackers, AckWrite(k) PROVE FirstRunReadsAssess'
  BY <1>28, ScenarioAssumption DEF AckWrite, StillSeen, rows, mem, hist,
     FirstRunReadsAssess, TypeOK
<1>29. CASE UNCHANGED vars
  BY <1>29, ScenarioAssumption DEF vars, rows, mem, hist, FirstRunReadsAssess,
     TypeOK
<1> QED
  BY <1>1, <1>2, <1>3, <1>4, <1>5, <1>6, <1>7, <1>8, <1>9, <1>10, <1>11, <1>12,
     <1>13, <1>14, <1>15, <1>16, <1>17, <1>18, <1>19, <1>20, <1>21, <1>22, <1>23,
     <1>24, <1>25, <1>26, <1>27, <1>28, <1>29 DEF Next, Round, StepProgress

\* The invariant holds initially.
LEMMA RunnerInit == Init => TypeOK /\ RunnerInv
<1> SUFFICES ASSUME Init PROVE TypeOK /\ RunnerInv
  OBVIOUS
<1>1. TypeOK
  <2>1. 1 \in 1 .. Len(Gateways) + 1 /\ 1 \in 1 .. MaxRuns
    BY ScenarioAssumption
  <2>2. ack \in [Ackers -> [seen : SUBSET Comps, clear : SUBSET Comps,
                           stage : {"new", "seen", "write", "over"}]]
    BY DEF Init, Idle
  <2> QED
    BY <2>1, <2>2 DEF Init, TypeOK, Resumable, StepState, Terminal, Progress,
       Nothing, Undecided, Empty
<1>2. LateInv /\ BatchInv /\ WonInv /\ ControlInv
  BY DEF Init, LateInv, BatchInv, StepOk, RowOk, WonInv, WonOk, ControlInv, Loaded,
     Declares, Nothing, Empty
<1>3. FirstRunInv
  BY DEF Init, FirstRunInv, FirstOk, FirstStray, Loaded, Nothing, Empty
<1>4. ArmInv
  BY ScenarioAssumption DEF Init, ArmInv, ArmsOk, Touched, Nothing, Empty
<1>5. RequiresRespected /\ CompletedMeansDone /\ FirstRunReadsAssess
  BY DEF Init, RequiresRespected, CompletedMeansDone, FirstRunReadsAssess
<1> QED
  BY <1>1, <1>2, <1>3, <1>4, <1>5 DEF RunnerInv

\* Every step keeps the invariant.
LEMMA RunnerStep ==
    ASSUME TypeOK, RunnerInv, [Next]_vars
    PROVE  TypeOK' /\ RunnerInv'
<1> USE DEF RunnerInv
<1>1. TypeOK' /\ LateInv' /\ ControlInv'
  BY TypeStep, LateStep, ControlStep
<1>2. BatchInv' /\ WonInv'
  BY BatchStep, WonStep DEF BatchInv, WonInv
<1>3. FirstRunInv'
  <2>1. runs' = 1 => FirstStray'
    BY StrayStep
  <2>2. runs' = 1 => \A s \in Steps : FirstOk(s)'
    BY FirstStep
  <2> QED
    BY <2>1, <2>2 DEF FirstRunInv
<1>4. ArmInv'
  BY ArmStep DEF ArmInv
<1>5. RequiresRespected'
  BY RequiresStep DEF RequiresRespected
<1>6. CompletedMeansDone' /\ FirstRunReadsAssess'
  BY CompletedStep, AssessStep
<1> QED
  BY <1>1, <1>2, <1>3, <1>4, <1>5, <1>6

\* The invariant of the runner.
LEMMA RunnerInvariant == Spec => [](TypeOK /\ RunnerInv)
BY RunnerInit, RunnerStep, PTL DEF Spec

----------------------------------------------------------------------------
(* The theorems *)

\* Rows, the runner's map, its batch and the acknowledgements keep their types
\* through every run of an instance (runner.py, scenario_instances.py).
THEOREM TypeCorrect == Spec => []TypeOK
BY RunnerInvariant, PTL

\* While no run meets its deadline, steps of one arm only of every XOR gateway are
\* executed over all runs, whatever fails, crashes or is decided otherwise after a
\* resumption: _run_inner marks the losing arm's rows before it dispatches.
THEOREM OneArmOnly == Spec => []NoBothArms
<1>1. RunnerInv => NoBothArms
  BY DEF RunnerInv, ArmInv, ArmsOk, Closed, Touched, NoBothArms, OneArm
<1> QED
  BY <1>1, RunnerInvariant, PTL

\* What a step requires has succeeded before the step is executed, and its row says so
\* ever after unless a write of it was given up (_runnable_steps, _sync).
THEOREM RequirementsFirst == Spec => []RequiresRespected
<1>1. RunnerInv => RequiresRespected
  BY DEF RunnerInv
<1> QED
  BY <1>1, RunnerInvariant, PTL

\* A first run that completes leaves rows that say so, whichever writes of step rows
\* failed (_exec_step, gather, _handle_failure).
THEOREM CompletionIsTrue == Spec => []CompletedMeansDone
<1>1. RunnerInv => CompletedMeansDone
  BY DEF RunnerInv
<1> QED
  BY <1>1, RunnerInvariant, PTL

\* In a first run no gateway is decided without the assessment its arms require
\* (_exec_step, the gateways of _run_inner).
THEOREM FirstRunAssessed == Spec => []FirstRunReadsAssess
<1>1. RunnerInv => FirstRunReadsAssess
  BY DEF RunnerInv
<1> QED
  BY <1>1, RunnerInvariant, PTL

\* No resumption or deadline writes over a settled row: only a write that run_sync gave
\* up can (start_step, finish_step, _mark_step, _sync).
THEOREM SettledStay == Spec => SettledStepsStay
<1>1. TypeOK /\ RunnerInv /\ [Next]_vars
      => [\A s \in Steps \ stray :
             /\ row[s] = "succeeded" => row'[s] = "succeeded"
             /\ row[s] = "skipped" /\ s # OnTimeout => row'[s] = "skipped"]_vars
  BY SettledStep DEF RunnerInv, Settles
<1> QED
  BY <1>1, RunnerInvariant, PTL DEF Spec, SettledStepsStay

\* When a batch ends the instance as compensated, every compensation declared by a
\* failed row of the batch is on the list (_handle_failure).
THEOREM CompensationsListed == Spec => FailuresAreListed
<1>1. ASSUME TypeOK, RunnerInv, [Next]_vars, BatchIsOver, pc' = "idle", inst' = "compensated",
             NEW s \in Members, batch[s] = "failed", row[s] = "failed"
      PROVE  declared[s] \subseteq pending'
  <2>1. pc = "batch" /\ inst # "compensated"
    BY <1>1 DEF BatchIsOver, RunnerInv, ControlInv
  <2>2. HandleFailure
    BY <1>1, <2>1
    DEF Next, Round, StepProgress, Load, ReadInstance, SkipLoser, PassGateway, Decide,
        AtGateway, EndGateways, Cascade, Dispatch, NothingRunnable, MarkTimeout, Escalate,
        EndTimeout, NextRound, Expire, Raise, StartStep, RunStep, FinishStep, StepError,
        LateStepWrite, WorkerDies, Reap, Terminate, Resume, AckReadInstance, AckReadStep, AckWrite, End,
        vars, rows
  <2>3. s \in Steps /\ s \in Failed /\ declared[s] = Declares(s, "failed")
    BY <1>1 DEF Failed, Members, RunnerInv, BatchInv, StepOk
  <2>4. declared[s] \subseteq Compensations
    BY <2>3 DEF Compensations, Declares
  <2> QED
    BY <2>2, <2>4 DEF HandleFailure
<1>2. TypeOK /\ RunnerInv /\ [Next]_vars
      => [BatchIsOver /\ pc' = "idle" /\ inst' = "compensated"
          => \A s \in Members :
                batch[s] = "failed" /\ row[s] = "failed" => declared[s] \subseteq pending']_vars
  BY <1>1
<1> QED
  BY <1>2, RunnerInvariant, PTL DEF Spec, FailuresAreListed

\* An acknowledgement that writes takes compensations off the list it reads and adds
\* none, whatever other acknowledgements and failures came in between (ack_pending).
THEOREM AcksOnlyClear == Spec => AckNeverRevives
<1>1. ASSUME TypeOK, RunnerInv, [Next]_vars, NEW k \in Ackers,
             ack[k].stage = "write", ack'[k].stage = "over"
      PROVE  pending' \subseteq pending
  <2>1. ack' # ack
    BY <1>1
  <2>2. pending' = pending \/ \E j \in Ackers : AckWrite(j)
    BY <1>1, <2>1
    DEF Next, Round, StepProgress, Load, ReadInstance, SkipLoser, PassGateway, Decide,
        AtGateway, EndGateways, Cascade, Dispatch, NothingRunnable, MarkTimeout, Escalate,
        EndTimeout, NextRound, HandleFailure, Expire, Raise, StartStep, RunStep, FinishStep,
        StepError, LateStepWrite, WorkerDies, Reap, Terminate, Resume, AckReadInstance, AckReadStep,
        vars, rows
  <2> QED
    BY <2>2 DEF AckWrite, StillSeen
<1>2. TypeOK /\ RunnerInv /\ [Next]_vars
      => [(\E k \in Ackers : ack[k].stage = "write" /\ ack'[k].stage = "over")
          => pending' \subseteq pending]_vars
  BY <1>1
<1> QED
  BY <1>2, RunnerInvariant, PTL DEF Spec, AckNeverRevives

============================================================================
