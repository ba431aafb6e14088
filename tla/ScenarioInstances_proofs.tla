---------------------- MODULE ScenarioInstances_proofs ----------------------
(***************************************************************************)
(* Proofs about ScenarioInstances, for any set of rows, objects and        *)
(* runners, any heartbeat interval and timeout, and any orphan age that    *)
(* leaves room for MaxMisses heartbeats that wait out their timeout.       *)
(***************************************************************************)
EXTENDS ScenarioInstances, TLAPS

----------------------------------------------------------------------------
(* The inductive invariant *)

\* A runner that nobody took the row from drives a running row.
UncutDrives ==
    \A r \in Runners : Live(r) /\ r \notin cut => status[InstanceOf[r]] = "running"

\* The sets of runners agree with where the runners are.
ControlInv ==
    \A r \in Runners :
        /\ r \in hb => pc[r] \in {"loop", "decide", "exec"}
        /\ r \in fresh => pc[r] \in {"loop", "decide", "exec", "crashed"}
        /\ r \in cut => pc[r] # "unused"

\* A heartbeat that waits for its touch has slept.
CallInv ==
    \A r \in Runners : call[r] # "none" => r \in hb /\ beat[r] >= Beat

\* The age of a row is accounted for by its runner's heartbeat: the rounds that
\* failed, the round it is in, and the wait for the last touch that landed.
AgeBound ==
    \A r \in hb \cap fresh :
        status[InstanceOf[r]] = "running"
        => /\ age[InstanceOf[r]] <= beat[r] + misses[r] * (Beat + Timeout) + Timeout
           /\ call[r] = "alive" => age[InstanceOf[r]] + Beat <= beat[r]

SafetyInv ==
    /\ TypeOK
    /\ ControlInv
    /\ UncutDrives
    /\ OneRunningPerObject
    /\ RunnersDoNotMeet
    /\ RunningHasRunner
    /\ CallInv
    /\ AgeBound

----------------------------------------------------------------------------
(* Preservation *)

\* A counter that is reset is in its range, and a runner's row is a row.
LEMMA Ranges ==
    /\ 0 \in 0 .. Stale + 1 /\ 0 \in 0 .. Beat + Timeout /\ 0 \in 0 .. MaxMisses
    /\ \A r \in Runners : InstanceOf[r] \in Instances
  BY ObjectAssumption, BeatAssumption

\* Every action keeps the types.
LEMMA TypeStep ==
    ASSUME TypeOK, [Next]_vars
    PROVE  TypeOK'
<1>1. ASSUME NEW r \in Runners, Instantiate(r) PROVE TypeOK'
  BY <1>1, Ranges DEF Instantiate, Write, IndexAllows, TypeOK, Pcs, Statuses,
     Outcomes, Answers
<1>2. ASSUME NEW r \in Runners, Resume(r) PROVE TypeOK'
  BY <1>2, Ranges DEF Resume, Write, ResumeAllowed, IndexAllows, TypeOK, Pcs,
     Statuses, Outcomes, Answers
<1>3. ASSUME NEW r \in Runners, Spawn(r) PROVE TypeOK'
  BY <1>3, Ranges DEF Spawn, TypeOK, Pcs, Statuses, Outcomes,
     Answers
<1>4. ASSUME NEW r \in Runners, SpawnFails(r) PROVE TypeOK'
  BY <1>4, Ranges DEF SpawnFails, Vanish, Leave, TypeOK, Pcs, Statuses,
     Outcomes, Answers
<1>5. ASSUME NEW r \in Runners, Start(r) PROVE TypeOK'
  BY <1>5, Ranges DEF Start, Leave, TypeOK, Pcs, Statuses, Outcomes,
     Answers
<1>6. ASSUME NEW r \in Runners, ReadRow(r) PROVE TypeOK'
  BY <1>6, Ranges DEF ReadRow, Leave, MayGoOn, TypeOK, Pcs, Statuses, Outcomes,
     Answers
<1>7. ASSUME NEW r \in Runners, Dispatch(r) PROVE TypeOK'
  BY <1>7, Ranges DEF Dispatch, TypeOK, Pcs, Statuses, Outcomes,
     Answers
<1>8. ASSUME NEW r \in Runners, BatchDone(r) PROVE TypeOK'
  BY <1>8, Ranges DEF BatchDone, TypeOK, Pcs, Statuses, Outcomes,
     Answers
<1>9. ASSUME NEW r \in Runners, Finish(r) PROVE TypeOK'
  BY <1>9, Ranges DEF Finish, Write, Cut, Leave, TypeOK, Pcs, Statuses,
     Outcomes, Answers
<1>10. ASSUME NEW r \in Runners, Raise(r) PROVE TypeOK'
  <2>1. late' \in [Runners -> SUBSET (Outcomes \cup {"touch"})]
    BY <1>10 DEF Raise, TypeOK
  <2> QED
    BY <1>10, <2>1, Ranges DEF Raise, TypeOK, Pcs, Answers
<1>11. ASSUME NEW r \in Runners, CrashWrite(r) PROVE TypeOK'
  BY <1>11, Ranges DEF CrashWrite, Write, Cut, Leave, TypeOK, Pcs, Statuses,
     Outcomes, Answers
<1>12. ASSUME NEW r \in Runners, CrashWriteFails(r) PROVE TypeOK'
  <2>1. late' \in [Runners -> SUBSET (Outcomes \cup {"touch"})]
    BY <1>12 DEF CrashWriteFails, TypeOK, Outcomes
  <2> QED
    BY <1>12, <2>1, Ranges DEF CrashWriteFails, Vanish, Leave, TypeOK, Pcs, Answers
<1>13. ASSUME NEW r \in Runners, LateWrite(r) PROVE TypeOK'
  <2>1. late' \in [Runners -> SUBSET (Outcomes \cup {"touch"})]
    BY <1>13 DEF LateWrite, TypeOK
  <2>2. status' \in [Instances -> Statuses] /\ age' \in [Instances -> 0 .. Stale + 1]
    <3>1. PICK o \in late[r] \cap Outcomes : Write(InstanceOf[r], o)
      BY <1>13 DEF LateWrite
    <3>2. o \in Statuses
      BY DEF Outcomes, Statuses
    <3> QED
      BY <3>1, <3>2, Ranges DEF Write, TypeOK
  <2> QED
    BY <1>13, <2>1, <2>2, Ranges DEF LateWrite, Cut, TypeOK
<1>14. ASSUME NEW r \in Runners, Touch(r) PROVE TypeOK'
  BY <1>14, Ranges DEF Touch, Refresh, TypeOK, Answers
<1>15. ASSUME NEW r \in Runners, Heartbeat(r) PROVE TypeOK'
  BY <1>15, Ranges DEF Heartbeat, TypeOK, Answers
<1>16. ASSUME NEW r \in Runners, HeartbeatFails(r) PROVE TypeOK'
  <2>1. misses' \in [Runners -> 0 .. MaxMisses]
    BY <1>16, BeatAssumption DEF HeartbeatFails, TypeOK
  <2>2. late' \in [Runners -> SUBSET (Outcomes \cup {"touch"})]
    BY <1>16 DEF HeartbeatFails, TypeOK
  <2> QED
    BY <1>16, <2>1, <2>2, Ranges DEF HeartbeatFails, TypeOK, Answers
<1>17. ASSUME NEW r \in Runners, LateTouch(r) PROVE TypeOK'
  <2>1. late' \in [Runners -> SUBSET (Outcomes \cup {"touch"})]
    BY <1>17 DEF LateTouch, TypeOK
  <2> QED
    BY <1>17, <2>1, Ranges DEF LateTouch, Refresh, TypeOK
<1>18. ASSUME NEW r \in Runners, WorkerDies(r) PROVE TypeOK'
  BY <1>18, Ranges DEF WorkerDies, Vanish, Leave, TypeOK, Pcs, Statuses,
     Outcomes, Answers
<1>19. ASSUME NEW i \in Instances, Terminate(i) PROVE TypeOK'
  BY <1>19, Ranges DEF Terminate, Write, Cut, TypeOK, Pcs, Statuses, Outcomes,
     Answers
<1>20. CASE Reap
  BY <1>20, Ranges DEF Reap, Orphaned, TypeOK, Pcs, Statuses, Outcomes,
     Answers
<1>21. CASE Tick
  <2>1. age' \in [Instances -> 0 .. Stale + 1]
    BY <1>21, BeatAssumption DEF Tick, TypeOK
  <2>2. beat' \in [Runners -> 0 .. Beat + Timeout]
    BY <1>21, BeatAssumption DEF Tick, TypeOK
  <2> QED
    BY <1>21, <2>1, <2>2 DEF Tick, TypeOK
<1>22. CASE UNCHANGED vars
  BY <1>22, Ranges DEF vars, TypeOK, Pcs, Statuses, Outcomes,
     Answers
<1> QED
  BY <1>1, <1>2, <1>3, <1>4, <1>5, <1>6, <1>7, <1>8, <1>9, <1>10, <1>11,
     <1>12, <1>13, <1>14, <1>15, <1>16, <1>17, <1>18, <1>19, <1>20, <1>21,
     <1>22 DEF Next, RunnerStep

\* Every action keeps the sets of runners consistent with their control.
LEMMA ControlStep ==
    ASSUME TypeOK, ControlInv, [Next]_vars
    PROVE  ControlInv'
<1>1. ASSUME NEW r \in Runners, Instantiate(r) PROVE ControlInv'
  BY <1>1 DEF Instantiate, Write, IndexAllows, TypeOK, ControlInv, Live
<1>2. ASSUME NEW r \in Runners, Resume(r) PROVE ControlInv'
  BY <1>2 DEF Resume, Write, ResumeAllowed, IndexAllows, TypeOK, ControlInv,
     Live
<1>3. ASSUME NEW r \in Runners, Spawn(r) PROVE ControlInv'
  BY <1>3 DEF Spawn, TypeOK, ControlInv, Live
<1>4. ASSUME NEW r \in Runners, SpawnFails(r) PROVE ControlInv'
  BY <1>4 DEF SpawnFails, Vanish, Leave, TypeOK, ControlInv, Live
<1>5. ASSUME NEW r \in Runners, Start(r) PROVE ControlInv'
  BY <1>5 DEF Start, Leave, TypeOK, ControlInv, Live
<1>6. ASSUME NEW r \in Runners, ReadRow(r) PROVE ControlInv'
  BY <1>6 DEF ReadRow, Leave, MayGoOn, TypeOK, ControlInv, Live
<1>7. ASSUME NEW r \in Runners, Dispatch(r) PROVE ControlInv'
  BY <1>7 DEF Dispatch, TypeOK, ControlInv, Live
<1>8. ASSUME NEW r \in Runners, BatchDone(r) PROVE ControlInv'
  BY <1>8 DEF BatchDone, TypeOK, ControlInv, Live
<1>9. ASSUME NEW r \in Runners, Finish(r) PROVE ControlInv'
  BY <1>9 DEF Finish, Write, Cut, Leave, TypeOK, ControlInv, Live
<1>10. ASSUME NEW r \in Runners, Raise(r) PROVE ControlInv'
  BY <1>10 DEF Raise, TypeOK, ControlInv, Live
<1>11. ASSUME NEW r \in Runners, CrashWrite(r) PROVE ControlInv'
  BY <1>11 DEF CrashWrite, Write, Cut, Leave, TypeOK, ControlInv, Live
<1>12. ASSUME NEW r \in Runners, CrashWriteFails(r) PROVE ControlInv'
  BY <1>12 DEF CrashWriteFails, Vanish, Leave, TypeOK, ControlInv, Live
<1>13. ASSUME NEW r \in Runners, LateWrite(r) PROVE ControlInv'
  BY <1>13 DEF LateWrite, Write, Cut, TypeOK, ControlInv, Live
<1>14. ASSUME NEW r \in Runners, Touch(r) PROVE ControlInv'
  BY <1>14 DEF Touch, Refresh, TypeOK, ControlInv, Live
<1>15. ASSUME NEW r \in Runners, Heartbeat(r) PROVE ControlInv'
  BY <1>15 DEF Heartbeat, TypeOK, ControlInv, Live
<1>16. ASSUME NEW r \in Runners, HeartbeatFails(r) PROVE ControlInv'
  BY <1>16 DEF HeartbeatFails, TypeOK, ControlInv, Live
<1>17. ASSUME NEW r \in Runners, LateTouch(r) PROVE ControlInv'
  BY <1>17 DEF LateTouch, Refresh, TypeOK, ControlInv, Live
<1>18. ASSUME NEW r \in Runners, WorkerDies(r) PROVE ControlInv'
  BY <1>18 DEF WorkerDies, Vanish, Leave, TypeOK, ControlInv, Live
<1>19. ASSUME NEW i \in Instances, Terminate(i) PROVE ControlInv'
  BY <1>19 DEF Terminate, Write, Cut, TypeOK, ControlInv, Live
<1>20. CASE Reap
  BY <1>20 DEF Reap, Orphaned, TypeOK, ControlInv, Live
<1>21. CASE Tick
  BY <1>21 DEF Tick, TypeOK, ControlInv, Live
<1>22. CASE UNCHANGED vars
  BY <1>22 DEF vars, TypeOK, ControlInv, Live
<1> QED
  BY <1>1, <1>2, <1>3, <1>4, <1>5, <1>6, <1>7, <1>8, <1>9, <1>10, <1>11,
     <1>12, <1>13, <1>14, <1>15, <1>16, <1>17, <1>18, <1>19, <1>20, <1>21,
     <1>22 DEF Next, RunnerStep

\* Whoever closes a row cuts its runners; a runner leaves what it closes.
LEMMA UncutStep ==
    ASSUME TypeOK, ControlInv, UncutDrives, [Next]_vars
    PROVE  UncutDrives'
<1>1. ASSUME NEW r \in Runners, Instantiate(r) PROVE UncutDrives'
  BY <1>1, ObjectAssumption DEF Instantiate, Write, IndexAllows, TypeOK,
     ControlInv, UncutDrives, Live
<1>2. ASSUME NEW r \in Runners, Resume(r) PROVE UncutDrives'
  BY <1>2, ObjectAssumption DEF Resume, Write, ResumeAllowed, IndexAllows,
     TypeOK, ControlInv, UncutDrives, Live
<1>3. ASSUME NEW r \in Runners, Spawn(r) PROVE UncutDrives'
  BY <1>3, ObjectAssumption DEF Spawn, TypeOK, ControlInv, UncutDrives, Live
<1>4. ASSUME NEW r \in Runners, SpawnFails(r) PROVE UncutDrives'
  BY <1>4, ObjectAssumption DEF SpawnFails, Vanish, Leave, TypeOK, ControlInv,
     UncutDrives, Live
<1>5. ASSUME NEW r \in Runners, Start(r) PROVE UncutDrives'
  BY <1>5, ObjectAssumption DEF Start, Leave, TypeOK, ControlInv, UncutDrives,
     Live
<1>6. ASSUME NEW r \in Runners, ReadRow(r) PROVE UncutDrives'
  BY <1>6, ObjectAssumption DEF ReadRow, Leave, MayGoOn, TypeOK, ControlInv,
     UncutDrives, Live
<1>7. ASSUME NEW r \in Runners, Dispatch(r) PROVE UncutDrives'
  BY <1>7, ObjectAssumption DEF Dispatch, TypeOK, ControlInv, UncutDrives,
     Live
<1>8. ASSUME NEW r \in Runners, BatchDone(r) PROVE UncutDrives'
  BY <1>8, ObjectAssumption DEF BatchDone, TypeOK, ControlInv, UncutDrives,
     Live
<1>9. ASSUME NEW r \in Runners, Finish(r) PROVE UncutDrives'
  BY <1>9, ObjectAssumption DEF Finish, Write, Cut, Leave, TypeOK, ControlInv,
     UncutDrives, Live
<1>10. ASSUME NEW r \in Runners, Raise(r) PROVE UncutDrives'
  BY <1>10, ObjectAssumption DEF Raise, TypeOK, ControlInv, UncutDrives, Live
<1>11. ASSUME NEW r \in Runners, CrashWrite(r) PROVE UncutDrives'
  BY <1>11, ObjectAssumption DEF CrashWrite, Write, Cut, Leave, TypeOK,
     ControlInv, UncutDrives, Live
<1>12. ASSUME NEW r \in Runners, CrashWriteFails(r) PROVE UncutDrives'
  BY <1>12, ObjectAssumption DEF CrashWriteFails, Vanish, Leave, TypeOK,
     ControlInv, UncutDrives, Live
<1>13. ASSUME NEW r \in Runners, LateWrite(r) PROVE UncutDrives'
  BY <1>13, ObjectAssumption DEF LateWrite, Write, Cut, TypeOK, ControlInv,
     UncutDrives, Live
<1>14. ASSUME NEW r \in Runners, Touch(r) PROVE UncutDrives'
  BY <1>14, ObjectAssumption DEF Touch, Refresh, TypeOK, ControlInv, UncutDrives,
     Live
<1>15. ASSUME NEW r \in Runners, Heartbeat(r) PROVE UncutDrives'
  BY <1>15, ObjectAssumption DEF Heartbeat, TypeOK, ControlInv, UncutDrives,
     Live
<1>16. ASSUME NEW r \in Runners, HeartbeatFails(r) PROVE UncutDrives'
  BY <1>16, ObjectAssumption DEF HeartbeatFails, TypeOK, ControlInv,
     UncutDrives, Live
<1>17. ASSUME NEW r \in Runners, LateTouch(r) PROVE UncutDrives'
  BY <1>17, ObjectAssumption DEF LateTouch, Refresh, TypeOK, ControlInv,
     UncutDrives, Live
<1>18. ASSUME NEW r \in Runners, WorkerDies(r) PROVE UncutDrives'
  BY <1>18, ObjectAssumption DEF WorkerDies, Vanish, Leave, TypeOK,
     ControlInv, UncutDrives, Live
<1>19. ASSUME NEW i \in Instances, Terminate(i) PROVE UncutDrives'
  BY <1>19, ObjectAssumption DEF Terminate, Write, Cut, TypeOK, ControlInv,
     UncutDrives, Live
<1>20. CASE Reap
  BY <1>20, ObjectAssumption DEF Reap, Orphaned, TypeOK, ControlInv,
     UncutDrives, Live
<1>21. CASE Tick
  BY <1>21, ObjectAssumption DEF Tick, TypeOK, ControlInv, UncutDrives, Live
<1>22. CASE UNCHANGED vars
  BY <1>22, ObjectAssumption DEF vars, TypeOK, ControlInv, UncutDrives, Live
<1> QED
  BY <1>1, <1>2, <1>3, <1>4, <1>5, <1>6, <1>7, <1>8, <1>9, <1>10, <1>11,
     <1>12, <1>13, <1>14, <1>15, <1>16, <1>17, <1>18, <1>19, <1>20, <1>21,
     <1>22 DEF Next, RunnerStep

\* Only the index lets a row become running.
LEMMA ObjectStep ==
    ASSUME TypeOK, OneRunningPerObject, [Next]_vars
    PROVE  OneRunningPerObject'
<1>1. ASSUME NEW r \in Runners, Instantiate(r) PROVE OneRunningPerObject'
  BY <1>1, ObjectAssumption DEF Instantiate, Write, IndexAllows, TypeOK,
     OneRunningPerObject, Outcomes
<1>2. ASSUME NEW r \in Runners, Resume(r) PROVE OneRunningPerObject'
  BY <1>2, ObjectAssumption DEF Resume, Write, ResumeAllowed, IndexAllows,
     TypeOK, OneRunningPerObject, Outcomes
<1>3. ASSUME NEW r \in Runners, Spawn(r) PROVE OneRunningPerObject'
  BY <1>3, ObjectAssumption DEF Spawn, TypeOK, OneRunningPerObject, Outcomes
<1>4. ASSUME NEW r \in Runners, SpawnFails(r) PROVE OneRunningPerObject'
  BY <1>4, ObjectAssumption DEF SpawnFails, Vanish, Leave, TypeOK,
     OneRunningPerObject, Outcomes
<1>5. ASSUME NEW r \in Runners, Start(r) PROVE OneRunningPerObject'
  BY <1>5, ObjectAssumption DEF Start, Leave, TypeOK, OneRunningPerObject,
     Outcomes
<1>6. ASSUME NEW r \in Runners, ReadRow(r) PROVE OneRunningPerObject'
  BY <1>6, ObjectAssumption DEF ReadRow, Leave, MayGoOn, TypeOK,
     OneRunningPerObject, Outcomes
<1>7. ASSUME NEW r \in Runners, Dispatch(r) PROVE OneRunningPerObject'
  BY <1>7, ObjectAssumption DEF Dispatch, TypeOK, OneRunningPerObject,
     Outcomes
<1>8. ASSUME NEW r \in Runners, BatchDone(r) PROVE OneRunningPerObject'
  BY <1>8, ObjectAssumption DEF BatchDone, TypeOK, OneRunningPerObject,
     Outcomes
<1>9. ASSUME NEW r \in Runners, Finish(r) PROVE OneRunningPerObject'
  BY <1>9, ObjectAssumption DEF Finish, Write, Cut, Leave, TypeOK,
     OneRunningPerObject, Outcomes
<1>10. ASSUME NEW r \in Runners, Raise(r) PROVE OneRunningPerObject'
  BY <1>10, ObjectAssumption DEF Raise, TypeOK, OneRunningPerObject, Outcomes
<1>11. ASSUME NEW r \in Runners, CrashWrite(r) PROVE OneRunningPerObject'
  BY <1>11, ObjectAssumption DEF CrashWrite, Write, Cut, Leave, TypeOK,
     OneRunningPerObject, Outcomes
<1>12. ASSUME NEW r \in Runners, CrashWriteFails(r) PROVE OneRunningPerObject'
  BY <1>12, ObjectAssumption DEF CrashWriteFails, Vanish, Leave, TypeOK,
     OneRunningPerObject, Outcomes
<1>13. ASSUME NEW r \in Runners, LateWrite(r) PROVE OneRunningPerObject'
  BY <1>13, ObjectAssumption DEF LateWrite, Write, Cut, TypeOK,
     OneRunningPerObject, Outcomes
<1>14. ASSUME NEW r \in Runners, Touch(r) PROVE OneRunningPerObject'
  BY <1>14, ObjectAssumption DEF Touch, Refresh, TypeOK, OneRunningPerObject,
     Outcomes
<1>15. ASSUME NEW r \in Runners, Heartbeat(r) PROVE OneRunningPerObject'
  BY <1>15, ObjectAssumption DEF Heartbeat, TypeOK, OneRunningPerObject,
     Outcomes
<1>16. ASSUME NEW r \in Runners, HeartbeatFails(r) PROVE OneRunningPerObject'
  BY <1>16, ObjectAssumption DEF HeartbeatFails, TypeOK, OneRunningPerObject,
     Outcomes
<1>17. ASSUME NEW r \in Runners, LateTouch(r) PROVE OneRunningPerObject'
  BY <1>17, ObjectAssumption DEF LateTouch, Refresh, TypeOK, OneRunningPerObject,
     Outcomes
<1>18. ASSUME NEW r \in Runners, WorkerDies(r) PROVE OneRunningPerObject'
  BY <1>18, ObjectAssumption DEF WorkerDies, Vanish, Leave, TypeOK,
     OneRunningPerObject, Outcomes
<1>19. ASSUME NEW i \in Instances, Terminate(i) PROVE OneRunningPerObject'
  BY <1>19, ObjectAssumption DEF Terminate, Write, Cut, TypeOK,
     OneRunningPerObject, Outcomes
<1>20. CASE Reap
  BY <1>20, ObjectAssumption DEF Reap, Orphaned, TypeOK, OneRunningPerObject,
     Outcomes
<1>21. CASE Tick
  BY <1>21, ObjectAssumption DEF Tick, TypeOK, OneRunningPerObject, Outcomes
<1>22. CASE UNCHANGED vars
  BY <1>22, ObjectAssumption DEF vars, TypeOK, OneRunningPerObject, Outcomes
<1> QED
  BY <1>1, <1>2, <1>3, <1>4, <1>5, <1>6, <1>7, <1>8, <1>9, <1>10, <1>11,
     <1>12, <1>13, <1>14, <1>15, <1>16, <1>17, <1>18, <1>19, <1>20, <1>21,
     <1>22 DEF Next, RunnerStep

\* A runner is added to a row that is not running, whose live runners are cut.
LEMMA MeetStep ==
    ASSUME TypeOK, ControlInv, UncutDrives, RunnersDoNotMeet, [Next]_vars
    PROVE  RunnersDoNotMeet'
<1>1. ASSUME NEW r \in Runners, Instantiate(r) PROVE RunnersDoNotMeet'
  BY <1>1, ObjectAssumption DEF Instantiate, Write, IndexAllows, TypeOK,
     ControlInv, UncutDrives, RunnersDoNotMeet, Live, Resumable
<1>2. ASSUME NEW r \in Runners, Resume(r) PROVE RunnersDoNotMeet'
  BY <1>2, ObjectAssumption DEF Resume, Write, ResumeAllowed, IndexAllows,
     TypeOK, ControlInv, UncutDrives, RunnersDoNotMeet, Live, Resumable
<1>3. ASSUME NEW r \in Runners, Spawn(r) PROVE RunnersDoNotMeet'
  BY <1>3, ObjectAssumption DEF Spawn, TypeOK, ControlInv, UncutDrives,
     RunnersDoNotMeet, Live, Resumable
<1>4. ASSUME NEW r \in Runners, SpawnFails(r) PROVE RunnersDoNotMeet'
  BY <1>4, ObjectAssumption DEF SpawnFails, Vanish, Leave, TypeOK, ControlInv,
     UncutDrives, RunnersDoNotMeet, Live, Resumable
<1>5. ASSUME NEW r \in Runners, Start(r) PROVE RunnersDoNotMeet'
  BY <1>5, ObjectAssumption DEF Start, Leave, TypeOK, ControlInv, UncutDrives,
     RunnersDoNotMeet, Live, Resumable
<1>6. ASSUME NEW r \in Runners, ReadRow(r) PROVE RunnersDoNotMeet'
  BY <1>6, ObjectAssumption DEF ReadRow, Leave, MayGoOn, TypeOK, ControlInv,
     UncutDrives, RunnersDoNotMeet, Live, Resumable
<1>7. ASSUME NEW r \in Runners, Dispatch(r) PROVE RunnersDoNotMeet'
  BY <1>7, ObjectAssumption DEF Dispatch, TypeOK, ControlInv, UncutDrives,
     RunnersDoNotMeet, Live, Resumable
<1>8. ASSUME NEW r \in Runners, BatchDone(r) PROVE RunnersDoNotMeet'
  BY <1>8, ObjectAssumption DEF BatchDone, TypeOK, ControlInv, UncutDrives,
     RunnersDoNotMeet, Live, Resumable
<1>9. ASSUME NEW r \in Runners, Finish(r) PROVE RunnersDoNotMeet'
  BY <1>9, ObjectAssumption DEF Finish, Write, Cut, Leave, TypeOK, ControlInv,
     UncutDrives, RunnersDoNotMeet, Live, Resumable
<1>10. ASSUME NEW r \in Runners, Raise(r) PROVE RunnersDoNotMeet'
  BY <1>10, ObjectAssumption DEF Raise, TypeOK, ControlInv, UncutDrives,
     RunnersDoNotMeet, Live, Resumable
<1>11. ASSUME NEW r \in Runners, CrashWrite(r) PROVE RunnersDoNotMeet'
  BY <1>11, ObjectAssumption DEF CrashWrite, Write, Cut, Leave, TypeOK,
     ControlInv, UncutDrives, RunnersDoNotMeet, Live, Resumable
<1>12. ASSUME NEW r \in Runners, CrashWriteFails(r) PROVE RunnersDoNotMeet'
  BY <1>12, ObjectAssumption DEF CrashWriteFails, Vanish, Leave, TypeOK,
     ControlInv, UncutDrives, RunnersDoNotMeet, Live, Resumable
<1>13. ASSUME NEW r \in Runners, LateWrite(r) PROVE RunnersDoNotMeet'
  BY <1>13, ObjectAssumption DEF LateWrite, Write, Cut, TypeOK, ControlInv,
     UncutDrives, RunnersDoNotMeet, Live, Resumable
<1>14. ASSUME NEW r \in Runners, Touch(r) PROVE RunnersDoNotMeet'
  BY <1>14, ObjectAssumption DEF Touch, Refresh, TypeOK, ControlInv, UncutDrives,
     RunnersDoNotMeet, Live, Resumable
<1>15. ASSUME NEW r \in Runners, Heartbeat(r) PROVE RunnersDoNotMeet'
  BY <1>15, ObjectAssumption DEF Heartbeat, TypeOK, ControlInv, UncutDrives,
     RunnersDoNotMeet, Live, Resumable
<1>16. ASSUME NEW r \in Runners, HeartbeatFails(r) PROVE RunnersDoNotMeet'
  BY <1>16, ObjectAssumption DEF HeartbeatFails, TypeOK, ControlInv,
     UncutDrives, RunnersDoNotMeet, Live, Resumable
<1>17. ASSUME NEW r \in Runners, LateTouch(r) PROVE RunnersDoNotMeet'
  BY <1>17, ObjectAssumption DEF LateTouch, Refresh, TypeOK, ControlInv,
     UncutDrives, RunnersDoNotMeet, Live, Resumable
<1>18. ASSUME NEW r \in Runners, WorkerDies(r) PROVE RunnersDoNotMeet'
  BY <1>18, ObjectAssumption DEF WorkerDies, Vanish, Leave, TypeOK,
     ControlInv, UncutDrives, RunnersDoNotMeet, Live, Resumable
<1>19. ASSUME NEW i \in Instances, Terminate(i) PROVE RunnersDoNotMeet'
  BY <1>19, ObjectAssumption DEF Terminate, Write, Cut, TypeOK, ControlInv,
     UncutDrives, RunnersDoNotMeet, Live, Resumable
<1>20. CASE Reap
  BY <1>20, ObjectAssumption DEF Reap, Orphaned, TypeOK, ControlInv,
     UncutDrives, RunnersDoNotMeet, Live, Resumable
<1>21. CASE Tick
  BY <1>21, ObjectAssumption DEF Tick, TypeOK, ControlInv, UncutDrives,
     RunnersDoNotMeet, Live, Resumable
<1>22. CASE UNCHANGED vars
  BY <1>22, ObjectAssumption DEF vars, TypeOK, ControlInv, UncutDrives,
     RunnersDoNotMeet, Live, Resumable
<1> QED
  BY <1>1, <1>2, <1>3, <1>4, <1>5, <1>6, <1>7, <1>8, <1>9, <1>10, <1>11,
     <1>12, <1>13, <1>14, <1>15, <1>16, <1>17, <1>18, <1>19, <1>20, <1>21,
     <1>22 DEF Next, RunnerStep

\* A runner that ends closes its row, or the row is lost.
LEMMA HasRunnerStep ==
    ASSUME TypeOK, ControlInv, UncutDrives, RunnersDoNotMeet, RunningHasRunner, [Next]_vars
    PROVE  RunningHasRunner'
<1>1. ASSUME NEW r \in Runners, Instantiate(r) PROVE RunningHasRunner'
  BY <1>1, ObjectAssumption DEF Instantiate, Write, IndexAllows, TypeOK,
     ControlInv, UncutDrives, RunnersDoNotMeet, RunningHasRunner, Live,
     Outcomes
<1>2. ASSUME NEW r \in Runners, Resume(r) PROVE RunningHasRunner'
  BY <1>2, ObjectAssumption DEF Resume, Write, ResumeAllowed, IndexAllows,
     TypeOK, ControlInv, UncutDrives, RunnersDoNotMeet, RunningHasRunner,
     Live, Outcomes
<1>3. ASSUME NEW r \in Runners, Spawn(r) PROVE RunningHasRunner'
  BY <1>3, ObjectAssumption DEF Spawn, TypeOK, ControlInv, UncutDrives,
     RunnersDoNotMeet, RunningHasRunner, Live, Outcomes
<1>4. ASSUME NEW r \in Runners, SpawnFails(r) PROVE RunningHasRunner'
  BY <1>4, ObjectAssumption DEF SpawnFails, Vanish, Leave, TypeOK, ControlInv,
     UncutDrives, RunnersDoNotMeet, RunningHasRunner, Live, Outcomes
<1>5. ASSUME NEW r \in Runners, Start(r) PROVE RunningHasRunner'
  BY <1>5, ObjectAssumption DEF Start, Leave, TypeOK, ControlInv, UncutDrives,
     RunnersDoNotMeet, RunningHasRunner, Live, Outcomes
<1>6. ASSUME NEW r \in Runners, ReadRow(r) PROVE RunningHasRunner'
  BY <1>6, ObjectAssumption DEF ReadRow, Leave, MayGoOn, TypeOK, ControlInv,
     UncutDrives, RunnersDoNotMeet, RunningHasRunner, Live, Outcomes
<1>7. ASSUME NEW r \in Runners, Dispatch(r) PROVE RunningHasRunner'
  BY <1>7, ObjectAssumption DEF Dispatch, TypeOK, ControlInv, UncutDrives,
     RunnersDoNotMeet, RunningHasRunner, Live, Outcomes
<1>8. ASSUME NEW r \in Runners, BatchDone(r) PROVE RunningHasRunner'
  BY <1>8, ObjectAssumption DEF BatchDone, TypeOK, ControlInv, UncutDrives,
     RunnersDoNotMeet, RunningHasRunner, Live, Outcomes
<1>9. ASSUME NEW r \in Runners, Finish(r) PROVE RunningHasRunner'
  BY <1>9, ObjectAssumption DEF Finish, Write, Cut, Leave, TypeOK, ControlInv,
     UncutDrives, RunnersDoNotMeet, RunningHasRunner, Live, Outcomes
<1>10. ASSUME NEW r \in Runners, Raise(r) PROVE RunningHasRunner'
  BY <1>10, ObjectAssumption DEF Raise, TypeOK, ControlInv, UncutDrives,
     RunnersDoNotMeet, RunningHasRunner, Live, Outcomes
<1>11. ASSUME NEW r \in Runners, CrashWrite(r) PROVE RunningHasRunner'
  BY <1>11, ObjectAssumption DEF CrashWrite, Write, Cut, Leave, TypeOK,
     ControlInv, UncutDrives, RunnersDoNotMeet, RunningHasRunner, Live,
     Outcomes
<1>12. ASSUME NEW r \in Runners, CrashWriteFails(r) PROVE RunningHasRunner'
  BY <1>12, ObjectAssumption DEF CrashWriteFails, Vanish, Leave, TypeOK,
     ControlInv, UncutDrives, RunnersDoNotMeet, RunningHasRunner, Live,
     Outcomes
<1>13. ASSUME NEW r \in Runners, LateWrite(r) PROVE RunningHasRunner'
  BY <1>13, ObjectAssumption DEF LateWrite, Write, Cut, TypeOK, ControlInv,
     UncutDrives, RunnersDoNotMeet, RunningHasRunner, Live, Outcomes
<1>14. ASSUME NEW r \in Runners, Touch(r) PROVE RunningHasRunner'
  BY <1>14, ObjectAssumption DEF Touch, Refresh, TypeOK, ControlInv, UncutDrives,
     RunnersDoNotMeet, RunningHasRunner, Live, Outcomes
<1>15. ASSUME NEW r \in Runners, Heartbeat(r) PROVE RunningHasRunner'
  BY <1>15, ObjectAssumption DEF Heartbeat, TypeOK, ControlInv, UncutDrives,
     RunnersDoNotMeet, RunningHasRunner, Live, Outcomes
<1>16. ASSUME NEW r \in Runners, HeartbeatFails(r) PROVE RunningHasRunner'
  BY <1>16, ObjectAssumption DEF HeartbeatFails, TypeOK, ControlInv,
     UncutDrives, RunnersDoNotMeet, RunningHasRunner, Live, Outcomes
<1>17. ASSUME NEW r \in Runners, LateTouch(r) PROVE RunningHasRunner'
  BY <1>17, ObjectAssumption DEF LateTouch, Refresh, TypeOK, ControlInv,
     UncutDrives, RunnersDoNotMeet, RunningHasRunner, Live, Outcomes
<1>18. ASSUME NEW r \in Runners, WorkerDies(r) PROVE RunningHasRunner'
  BY <1>18, ObjectAssumption DEF WorkerDies, Vanish, Leave, TypeOK,
     ControlInv, UncutDrives, RunnersDoNotMeet, RunningHasRunner, Live,
     Outcomes
<1>19. ASSUME NEW i \in Instances, Terminate(i) PROVE RunningHasRunner'
  BY <1>19, ObjectAssumption DEF Terminate, Write, Cut, TypeOK, ControlInv,
     UncutDrives, RunnersDoNotMeet, RunningHasRunner, Live, Outcomes
<1>20. CASE Reap
  BY <1>20, ObjectAssumption DEF Reap, Orphaned, TypeOK, ControlInv,
     UncutDrives, RunnersDoNotMeet, RunningHasRunner, Live, Outcomes
<1>21. CASE Tick
  BY <1>21, ObjectAssumption DEF Tick, TypeOK, ControlInv, UncutDrives,
     RunnersDoNotMeet, RunningHasRunner, Live, Outcomes
<1>22. CASE UNCHANGED vars
  BY <1>22, ObjectAssumption DEF vars, TypeOK, ControlInv, UncutDrives,
     RunnersDoNotMeet, RunningHasRunner, Live, Outcomes
<1> QED
  BY <1>1, <1>2, <1>3, <1>4, <1>5, <1>6, <1>7, <1>8, <1>9, <1>10, <1>11,
     <1>12, <1>13, <1>14, <1>15, <1>16, <1>17, <1>18, <1>19, <1>20, <1>21,
     <1>22 DEF Next, RunnerStep

\* A heartbeat waits for a touch only while it is alive and has slept.
LEMMA CallStep ==
    ASSUME TypeOK, ControlInv, CallInv, [Next]_vars
    PROVE  CallInv'
<1>1. ASSUME NEW r \in Runners, Instantiate(r) PROVE CallInv'
  BY <1>1, BeatAssumption DEF Instantiate, Write, IndexAllows, TypeOK, ControlInv, CallInv
<1>2. ASSUME NEW r \in Runners, Resume(r) PROVE CallInv'
  BY <1>2, BeatAssumption DEF Resume, Write, ResumeAllowed, TypeOK, ControlInv, CallInv
<1>3. ASSUME NEW r \in Runners, Spawn(r) PROVE CallInv'
  BY <1>3, BeatAssumption DEF Spawn, TypeOK, ControlInv, CallInv
<1>4. ASSUME NEW r \in Runners, SpawnFails(r) PROVE CallInv'
  BY <1>4, BeatAssumption DEF SpawnFails, Vanish, Leave, TypeOK, ControlInv, CallInv
<1>5. ASSUME NEW r \in Runners, Start(r) PROVE CallInv'
  BY <1>5, BeatAssumption DEF Start, Leave, TypeOK, ControlInv, CallInv
<1>6. ASSUME NEW r \in Runners, ReadRow(r) PROVE CallInv'
  BY <1>6, BeatAssumption DEF ReadRow, Leave, MayGoOn, TypeOK, ControlInv, CallInv
<1>7. ASSUME NEW r \in Runners, Dispatch(r) PROVE CallInv'
  BY <1>7, BeatAssumption DEF Dispatch, TypeOK, ControlInv, CallInv
<1>8. ASSUME NEW r \in Runners, BatchDone(r) PROVE CallInv'
  BY <1>8, BeatAssumption DEF BatchDone, TypeOK, ControlInv, CallInv
<1>9. ASSUME NEW r \in Runners, Finish(r) PROVE CallInv'
  BY <1>9, BeatAssumption DEF Finish, Write, Cut, Leave, TypeOK, ControlInv, CallInv
<1>10. ASSUME NEW r \in Runners, Raise(r) PROVE CallInv'
  BY <1>10, BeatAssumption DEF Raise, TypeOK, ControlInv, CallInv
<1>11. ASSUME NEW r \in Runners, CrashWrite(r) PROVE CallInv'
  BY <1>11, BeatAssumption DEF CrashWrite, Write, Cut, Leave, TypeOK, ControlInv, CallInv
<1>12. ASSUME NEW r \in Runners, CrashWriteFails(r) PROVE CallInv'
  BY <1>12, BeatAssumption DEF CrashWriteFails, Vanish, Leave, TypeOK, ControlInv, CallInv
<1>13. ASSUME NEW r \in Runners, LateWrite(r) PROVE CallInv'
  BY <1>13, BeatAssumption DEF LateWrite, Write, Cut, TypeOK, ControlInv, CallInv
<1>14. ASSUME NEW r \in Runners, Touch(r) PROVE CallInv'
  BY <1>14, BeatAssumption DEF Touch, Refresh, TypeOK, ControlInv, CallInv
<1>15. ASSUME NEW r \in Runners, Heartbeat(r) PROVE CallInv'
  BY <1>15, BeatAssumption DEF Heartbeat, TypeOK, ControlInv, CallInv
<1>16. ASSUME NEW r \in Runners, HeartbeatFails(r) PROVE CallInv'
  BY <1>16, BeatAssumption DEF HeartbeatFails, TypeOK, ControlInv, CallInv
<1>17. ASSUME NEW r \in Runners, LateTouch(r) PROVE CallInv'
  BY <1>17, BeatAssumption DEF LateTouch, Refresh, TypeOK, ControlInv, CallInv
<1>18. ASSUME NEW r \in Runners, WorkerDies(r) PROVE CallInv'
  BY <1>18, BeatAssumption DEF WorkerDies, Vanish, Leave, TypeOK, ControlInv, CallInv
<1>19. ASSUME NEW i \in Instances, Terminate(i) PROVE CallInv'
  BY <1>19 DEF Terminate, Write, Cut, TypeOK, CallInv
<1>20. CASE Reap
  BY <1>20 DEF Reap, TypeOK, CallInv
<1>21. CASE Tick
  BY <1>21, BeatAssumption DEF Tick, TypeOK, CallInv
<1>22. CASE UNCHANGED vars
  BY <1>22 DEF vars, TypeOK, CallInv
<1> QED
  BY <1>1, <1>2, <1>3, <1>4, <1>5, <1>6, <1>7, <1>8, <1>9, <1>10, <1>11,
     <1>12, <1>13, <1>14, <1>15, <1>16, <1>17, <1>18, <1>19, <1>20, <1>21,
     <1>22 DEF Next, RunnerStep

\* A beat and a round of failed beats never make the bound negative.
LEMMA BoundRange ==
    ASSUME TypeOK, NEW q \in Runners
    PROVE  /\ beat[q] \in Nat /\ misses[q] \in Nat /\ Beat + Timeout \in Nat
           /\ misses[q] * (Beat + Timeout) \in Nat
           /\ age[InstanceOf[q]] \in Nat
  BY ObjectAssumption, BeatAssumption DEF TypeOK

\* A step that lets a beating runner's counters alone keeps its bound, when its
\* row gets no older.
LEMMA QuietAge ==
    ASSUME TypeOK, CallInv, AgeBound, NEW q \in Runners,
           q \in hb, q \in fresh, status[InstanceOf[q]] = "running",
           beat'[q] = beat[q], misses'[q] = misses[q], call'[q] = call[q],
           age'[InstanceOf[q]] \in {0, age[InstanceOf[q]]}
    PROVE  /\ age'[InstanceOf[q]] <= beat'[q] + misses'[q] * (Beat + Timeout) + Timeout
           /\ call'[q] = "alive" => age'[InstanceOf[q]] + Beat <= beat'[q]
<1>1. /\ age[InstanceOf[q]] <= beat[q] + misses[q] * (Beat + Timeout) + Timeout
      /\ call[q] = "alive" => age[InstanceOf[q]] + Beat <= beat[q]
  BY DEF AgeBound
<1>2. call[q] = "alive" => Beat <= beat[q]
  BY DEF CallInv
<1> QED
  BY <1>1, <1>2, BoundRange, BeatAssumption

\* A row that was just written is within the bound of its runner.
LEMMA FreshAge ==
    ASSUME TypeOK', CallInv', NEW q \in Runners, age'[InstanceOf[q]] = 0
    PROVE  /\ age'[InstanceOf[q]] <= beat'[q] + misses'[q] * (Beat + Timeout) + Timeout
           /\ call'[q] = "alive" => age'[InstanceOf[q]] + Beat <= beat'[q]
<1>1. /\ beat'[q] \in Nat /\ misses'[q] \in Nat /\ Beat + Timeout \in Nat
      /\ misses'[q] * (Beat + Timeout) \in Nat
  BY BeatAssumption DEF TypeOK
<1>2. call'[q] = "alive" => Beat <= beat'[q]
  BY DEF CallInv
<1> QED
  BY <1>1, <1>2, BeatAssumption

\* Only ticks age a row, and its runner's heartbeat counts them.
LEMMA AgeStep ==
    ASSUME TypeOK, ControlInv, CallInv, AgeBound, [Next]_vars, TypeOK', CallInv'
    PROVE  AgeBound'
<1> SUFFICES ASSUME NEW q \in Runners, q \in hb', q \in fresh',
                    status'[InstanceOf[q]] = "running"
             PROVE  /\ age'[InstanceOf[q]]
                         <= beat'[q] + misses'[q] * (Beat + Timeout) + Timeout
                    /\ call'[q] = "alive" => age'[InstanceOf[q]] + Beat <= beat'[q]
  BY DEF AgeBound, TypeOK
<1> DEFINE Kept == /\ q \in hb /\ q \in fresh /\ status[InstanceOf[q]] = "running"
                   /\ beat'[q] = beat[q] /\ misses'[q] = misses[q] /\ call'[q] = call[q]
                   /\ age'[InstanceOf[q]] \in {0, age[InstanceOf[q]]}
           Quiet == age'[InstanceOf[q]] = 0 \/ Kept
           Within == /\ age'[InstanceOf[q]]
                          <= beat'[q] + misses'[q] * (Beat + Timeout) + Timeout
                     /\ call'[q] = "alive" => age'[InstanceOf[q]] + Beat <= beat'[q]
<1>0. ASSUME Quiet PROVE Within
  BY <1>0, QuietAge, FreshAge
<1>a. InstanceOf[q] \in Instances
  BY Ranges
<1> HIDE DEF Within
<1> SUFFICES Within
  BY DEF Within
<1>1. ASSUME NEW r \in Runners, Instantiate(r) PROVE Within
  <2>1. Quiet
    BY <1>1, <1>a DEF Instantiate, Write, IndexAllows, TypeOK, ControlInv
  <2> QED
    BY <2>1, <1>0
<1>2. ASSUME NEW r \in Runners, Resume(r) PROVE Within
  <2>1. Quiet
    BY <1>2, <1>a DEF Resume, Write, ResumeAllowed, TypeOK, ControlInv
  <2> QED
    BY <2>1, <1>0
<1>3. ASSUME NEW r \in Runners, Spawn(r) PROVE Within
  <2>1. Quiet
    BY <1>3, <1>a DEF Spawn, TypeOK, ControlInv
  <2> QED
    BY <2>1, <1>0
<1>4. ASSUME NEW r \in Runners, SpawnFails(r) PROVE Within
  <2>1. Quiet
    BY <1>4, <1>a DEF SpawnFails, Vanish, Leave, TypeOK, ControlInv
  <2> QED
    BY <2>1, <1>0
<1>5. ASSUME NEW r \in Runners, Start(r) PROVE Within
  <2>1. Quiet
    BY <1>5, <1>a DEF Start, Leave, TypeOK, ControlInv
  <2> QED
    BY <2>1, <1>0
<1>6. ASSUME NEW r \in Runners, ReadRow(r) PROVE Within
  <2>1. Quiet
    BY <1>6, <1>a DEF ReadRow, Leave, MayGoOn, TypeOK, ControlInv
  <2> QED
    BY <2>1, <1>0
<1>7. ASSUME NEW r \in Runners, Dispatch(r) PROVE Within
  <2>1. Quiet
    BY <1>7, <1>a DEF Dispatch, TypeOK, ControlInv
  <2> QED
    BY <2>1, <1>0
<1>8. ASSUME NEW r \in Runners, BatchDone(r) PROVE Within
  <2>1. Quiet
    BY <1>8, <1>a DEF BatchDone, TypeOK, ControlInv
  <2> QED
    BY <2>1, <1>0
<1>9. ASSUME NEW r \in Runners, Finish(r) PROVE Within
  <2>1. Quiet
    BY <1>9, <1>a DEF Finish, Write, Cut, Leave, Outcomes, TypeOK, ControlInv
  <2> QED
    BY <2>1, <1>0
<1>10. ASSUME NEW r \in Runners, Raise(r) PROVE Within
  <2>1. Quiet
    BY <1>10, <1>a DEF Raise, TypeOK, ControlInv
  <2> QED
    BY <2>1, <1>0
<1>11. ASSUME NEW r \in Runners, CrashWrite(r) PROVE Within
  <2>1. Quiet
    BY <1>11, <1>a DEF CrashWrite, Write, Cut, Leave, TypeOK, ControlInv
  <2> QED
    BY <2>1, <1>0
<1>12. ASSUME NEW r \in Runners, CrashWriteFails(r) PROVE Within
  <2>1. Quiet
    BY <1>12, <1>a DEF CrashWriteFails, Vanish, Leave, TypeOK, ControlInv
  <2> QED
    BY <2>1, <1>0
<1>13. ASSUME NEW r \in Runners, LateWrite(r) PROVE Within
  <2>1. Quiet
    BY <1>13, <1>a DEF LateWrite, Write, Cut, Outcomes, TypeOK, ControlInv
  <2> QED
    BY <2>1, <1>0
<1>14. ASSUME NEW r \in Runners, Touch(r) PROVE Within
  <2>1. CASE r = q
    <3>1. status[InstanceOf[q]] = "running" /\ age'[InstanceOf[q]] = 0
      BY <1>14, <1>a, <2>1 DEF Touch, Refresh, TypeOK
    <3> QED
      BY <3>1, <1>0
  <2>2. CASE r # q
    <3>1. Quiet
      BY <1>14, <1>a, <2>2 DEF Touch, Refresh, TypeOK
    <3> QED
      BY <3>1, <1>0
  <2> QED
    BY <2>1, <2>2
<1>15. ASSUME NEW r \in Runners, Heartbeat(r) PROVE Within
  <2>1. CASE r = q
    <3>1. /\ call[q] = "alive" /\ q \in hb /\ q \in fresh
          /\ status[InstanceOf[q]] = "running"
          /\ age'[InstanceOf[q]] = age[InstanceOf[q]]
          /\ beat'[q] = 0 /\ misses'[q] = 0 /\ call'[q] = "none"
      BY <1>15, <1>a, <2>1 DEF Heartbeat, TypeOK, Answers
    <3>2. age[InstanceOf[q]] + Beat <= beat[q]
      BY <3>1 DEF AgeBound
    <3>3. beat[q] <= Beat + Timeout /\ beat[q] \in Nat /\ age[InstanceOf[q]] \in Nat
      BY <1>a, BeatAssumption DEF TypeOK
    <3>4. 0 * (Beat + Timeout) = 0
      BY BeatAssumption
    <3> QED
      BY <3>1, <3>2, <3>3, <3>4, BeatAssumption DEF Within
  <2>2. CASE r # q
    <3>1. Quiet
      BY <1>15, <1>a, <2>2 DEF Heartbeat, TypeOK
    <3> QED
      BY <3>1, <1>0
  <2> QED
    BY <2>1, <2>2
<1>16. ASSUME NEW r \in Runners, HeartbeatFails(r) PROVE Within
  <2>1. CASE r = q
    <3>1. /\ q \in hb /\ q \in fresh /\ status[InstanceOf[q]] = "running"
          /\ age'[InstanceOf[q]] = age[InstanceOf[q]]
          /\ beat'[q] = 0 /\ misses'[q] = misses[q] + 1 /\ call'[q] = "none"
      BY <1>16, <1>a, <2>1 DEF HeartbeatFails, TypeOK
    <3>2. age[InstanceOf[q]] <= beat[q] + misses[q] * (Beat + Timeout) + Timeout
      BY <3>1 DEF AgeBound
    <3>3. beat[q] <= Beat + Timeout /\ beat[q] \in Nat
      BY BeatAssumption DEF TypeOK
    <3>4. (misses[q] + 1) * (Beat + Timeout)
            = misses[q] * (Beat + Timeout) + (Beat + Timeout)
      BY BoundRange
    <3> QED
      BY <3>1, <3>2, <3>3, <3>4, BoundRange, BeatAssumption DEF Within
  <2>2. CASE r # q
    <3>1. Quiet
      BY <1>16, <1>a, <2>2 DEF HeartbeatFails, TypeOK
    <3> QED
      BY <3>1, <1>0
  <2> QED
    BY <2>1, <2>2
<1>17. ASSUME NEW r \in Runners, LateTouch(r) PROVE Within
  <2>1. Quiet
    BY <1>17, <1>a DEF LateTouch, Refresh, TypeOK, ControlInv
  <2> QED
    BY <2>1, <1>0
<1>18. ASSUME NEW r \in Runners, WorkerDies(r) PROVE Within
  <2>1. Quiet
    BY <1>18, <1>a DEF WorkerDies, Vanish, Leave, TypeOK, ControlInv
  <2> QED
    BY <2>1, <1>0
<1>19. ASSUME NEW i \in Instances, Terminate(i) PROVE Within
  <2>1. Quiet
    BY <1>19, <1>a DEF Terminate, Write, Cut, TypeOK
  <2> QED
    BY <2>1, <1>0
<1>20. CASE Reap
  <2>1. Quiet
    BY <1>20, <1>a DEF Reap, TypeOK
  <2> QED
    BY <2>1, <1>0
<1>21. CASE Tick
  <2>1. /\ q \in hb /\ q \in fresh /\ status[InstanceOf[q]] = "running"
        /\ age'[InstanceOf[q]] <= age[InstanceOf[q]] + 1
        /\ age'[InstanceOf[q]] \in Nat
        /\ beat'[q] = beat[q] + 1 /\ misses'[q] = misses[q] /\ call'[q] = call[q]
    BY <1>21, <1>a, BoundRange DEF Tick, TypeOK
  <2>2. /\ age[InstanceOf[q]] <= beat[q] + misses[q] * (Beat + Timeout) + Timeout
        /\ call[q] = "alive" => age[InstanceOf[q]] + Beat <= beat[q]
    BY <2>1 DEF AgeBound
  <2> QED
    BY <2>1, <2>2, BoundRange, BeatAssumption DEF Within
<1>22. CASE UNCHANGED vars
  <2>1. Quiet
    BY <1>22 DEF vars
  <2> QED
    BY <2>1, <1>0
<1> QED
  BY <1>1, <1>2, <1>3, <1>4, <1>5, <1>6, <1>7, <1>8, <1>9, <1>10, <1>11,
     <1>12, <1>13, <1>14, <1>15, <1>16, <1>17, <1>18, <1>19, <1>20, <1>21,
     <1>22 DEF Next, RunnerStep

\* The bound on the age of a row is below the age of an orphan.
LEMMA AgeBoundSpares ==
    ASSUME TypeOK, AgeBound
    PROVE  LiveRowsAreNotOrphans
<1> SUFFICES ASSUME NEW r \in Runners, r \in hb, r \in fresh, Orphaned(InstanceOf[r])
             PROVE  FALSE
  BY DEF LiveRowsAreNotOrphans, TypeOK
<1> DEFINE Round == Beat + Timeout
<1>1. age[InstanceOf[r]] <= beat[r] + misses[r] * Round + Timeout
  BY DEF AgeBound, Orphaned
<1>2. /\ beat[r] \in Nat /\ beat[r] <= Round
      /\ misses[r] \in Nat /\ misses[r] <= MaxMisses
      /\ age[InstanceOf[r]] \in Nat /\ Round \in Nat
  BY ObjectAssumption, BeatAssumption DEF TypeOK
<1>3. misses[r] * Round <= MaxMisses * Round
  <2> HIDE DEF Round
  <2> QED
    BY <1>2, BeatAssumption
<1>4. (MaxMisses + 1) * Round = MaxMisses * Round + Round
  BY BeatAssumption
<1>5. misses[r] * Round \in Nat /\ MaxMisses * Round \in Nat
  BY <1>2, BeatAssumption
<1>6. Timeout + (MaxMisses + 1) * Round <= Stale
  BY BeatAssumption
<1>7. age[InstanceOf[r]] > Stale
  BY DEF Orphaned
<1> HIDE DEF Round
<1> QED
  BY <1>1, <1>2, <1>3, <1>4, <1>5, <1>6, <1>7, BeatAssumption

LEMMA InitInv == Init => SafetyInv
  BY ObjectAssumption, BeatAssumption
     DEF Init, SafetyInv, TypeOK, ControlInv, UncutDrives, OneRunningPerObject,
         RunnersDoNotMeet, RunningHasRunner, CallInv, AgeBound, Live, Pcs,
         Statuses, Answers

\* The invariant of ScenarioInstances.
THEOREM Safety == Spec => []SafetyInv
<1>1. SafetyInv /\ [Next]_vars => SafetyInv'
  BY TypeStep, ControlStep, UncutStep, ObjectStep, MeetStep, HasRunnerStep,
     CallStep, AgeStep
     DEF SafetyInv
<1> QED
  BY InitInv, <1>1, PTL DEF Spec

\* create_instance and resume_instance with index V028: an object never has two
\* running rows.
THEOREM OneRunning == Spec => []OneRunningPerObject
<1>1. SafetyInv => OneRunningPerObject
  BY DEF SafetyInv
<1> QED
  BY <1>1, Safety, PTL

\* resume_instance: a second runner joins a row only after the row was taken
\* from the first.
THEOREM NoMeeting == Spec => []RunnersDoNotMeet
<1>1. SafetyInv => RunnersDoNotMeet
  BY DEF SafetyInv
<1> QED
  BY <1>1, Safety, PTL

\* mark_orphaned_running never fails a row whose runner beats, for every
\* interval, every timeout of a touch and every number of heartbeats that wait
\* out that timeout the orphan age leaves room for.
THEOREM ReaperSpares == Spec => []LiveRowsAreNotOrphans
<1>1. SafetyInv => LiveRowsAreNotOrphans
  BY AgeBoundSpares DEF SafetyInv
<1> QED
  BY <1>1, Safety, PTL

\* ScenarioRunner.run never leaves a row running behind it.
THEOREM NoAbandonedRow == Spec => []RunningHasRunner
<1>1. SafetyInv => RunningHasRunner
  BY DEF SafetyInv
<1> QED
  BY <1>1, Safety, PTL

\* Every variable keeps its type.
THEOREM TypeCorrect == Spec => []TypeOK
<1>1. SafetyInv => TypeOK
  BY DEF SafetyInv
<1> QED
  BY <1>1, Safety, PTL

============================================================================
