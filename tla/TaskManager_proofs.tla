------------------------- MODULE TaskManager_proofs -------------------------
(***************************************************************************)
(* Proofs about TaskManager, for any finite set of tasks, any workers, any *)
(* number of slots and any heartbeat interval, hold-up and orphan age that *)
(* leave room for MaxMisses dropped heartbeats.                            *)
(***************************************************************************)
EXTENDS TaskManager, FiniteSetTheorems, TLAPS

----------------------------------------------------------------------------
(* The inductive invariant *)

\* Nothing is submitted before the task has its slot; a function that waits for a
\* thread belongs to a task that is running and says so; a task that ended has
\* its verdict; only a task that runs, or has just ended, counts as having beaten.
ControlInv ==
    \A t \in Tasks :
        /\ phase[t] \in {"none", "created", "queued"} => thread[t] = "none"
        /\ phase[t] = "running" => obj[t] = "running"
        /\ phase[t] = "ended" => obj[t] \in Verdicts
        /\ thread[t] = "waiting" => phase[t] = "running"
        /\ t \in beaten => phase[t] \in {"running", "ended"}

\* The longest a heartbeat sleeps and is held up.
Round == Beat + Delay

\* The age of a stamp is accounted for by the rounds that failed, the round the
\* heartbeat is in, and the call that carried the stamp.
AgeBound ==
    \A t \in beaten : phase[t] = "running" => stamp[t] <= beat[t] + misses[t] * Round + Delay

TaskInv ==
    /\ TypeOK
    /\ ControlInv
    /\ SlotsBalanced
    /\ AgeBound

----------------------------------------------------------------------------
(* Slots *)

\* The holders of slots of one worker are finitely many.
LEMMA HoldersFinite ==
    ASSUME NEW w \in Workers
    PROVE  /\ IsFiniteSet(Holders(w)) /\ IsFiniteSet(Holders(w)')
           /\ Cardinality(Holders(w)) \in Nat
<1>1. Holders(w) \subseteq Tasks /\ Holders(w)' \subseteq Tasks
  BY DEF Holders
<1>2. IsFiniteSet(Holders(w)) /\ IsFiniteSet(Holders(w)')
  BY <1>1, FS_Subset, TaskAssumption
<1> QED
  BY <1>2, FS_CardinalityType

\* While somebody holds a slot of a worker, not all of its slots are free.
LEMMA HolderCounts ==
    ASSUME TypeOK, SlotsBalanced, NEW w \in Workers, NEW t \in Holders(w)
    PROVE  free[w] + 1 \in 0 .. Slots
<1>1. Cardinality(Holders(w)) # 0
  BY HoldersFinite, FS_EmptySet
<1>2. free[w] + Cardinality(Holders(w)) = Slots /\ free[w] \in Nat
  BY DEF SlotsBalanced, TypeOK
<1> QED
  BY <1>1, <1>2, HoldersFinite, TaskAssumption

\* A step that changes neither the slots nor who holds them keeps the balance.
LEMMA SlotsUntouched ==
    ASSUME SlotsBalanced, free' = free, \A w \in Workers : Holders(w)' = Holders(w)
    PROVE  SlotsBalanced'
  BY DEF SlotsBalanced

\* A task that leaves "running" gives back the slot it has, and only that one.
LEMMA LeavingSlot ==
    ASSUME TypeOK, SlotsBalanced, NEW t \in Tasks, Release(t), phase[t] # "ended",
           phase' = [phase EXCEPT ![t] = "ended"],
           \A u \in Tasks \ {t} : thread'[u] = thread[u]
    PROVE  SlotsBalanced' /\ free' \in [Workers -> 0 .. Slots]
<1> DEFINE o == Owner[t]
<1>1. o \in Workers /\ phase \in [Tasks -> {"none", "created", "queued", "running", "ended", "over"}]
      /\ free \in [Workers -> 0 .. Slots]
  BY TaskAssumption DEF TypeOK
<1>2. \A w \in Workers \ {o} : Holders(w)' = Holders(w)
  BY <1>1 DEF Holders
<1>3. CASE t \in Holders(o)
  <2>1. Holders(o)' = Holders(o) \ {t}
    BY <1>1, <1>3 DEF Holders
  <2>2. Cardinality(Holders(o)') = Cardinality(Holders(o)) - 1
    BY <2>1, <1>1, <1>3, HoldersFinite, FS_RemoveElement
  <2>3. free' = [free EXCEPT ![o] = @ + 1]
    BY <1>3 DEF Release
  <2>4. free[o] + 1 \in 0 .. Slots
    BY <1>1, <1>3, HolderCounts
  <2>5. free' \in [Workers -> 0 .. Slots]
    BY <1>1, <2>3, <2>4
  <2>6. Cardinality(Holders(o)) \in Nat /\ free[o] \in Nat
    BY <1>1, HoldersFinite
  <2>7. free'[o] + Cardinality(Holders(o)') = Slots
    BY <1>1, <2>2, <2>3, <2>6 DEF SlotsBalanced
  <2>8. \A w \in Workers \ {o} : free'[w] + Cardinality(Holders(w)') = Slots
    BY <1>1, <1>2, <2>3 DEF SlotsBalanced
  <2> QED
    BY <2>5, <2>7, <2>8 DEF SlotsBalanced
<1>4. CASE t \notin Holders(o)
  <2>1. free' = free
    BY <1>4 DEF Release
  <2>2. Holders(o)' = Holders(o)
    BY <1>1, <1>4 DEF Holders
  <2> QED
    BY <1>1, <1>2, <2>1, <2>2, SlotsUntouched
<1> QED
  BY <1>3, <1>4

----------------------------------------------------------------------------
(* Preservation *)

\* Counters that are reset are in range.
LEMMA Ranges ==
    /\ 0 \in 0 .. Beat + Delay /\ 0 \in 0 .. Stale /\ 0 \in 0 .. MaxMisses /\ Stale \in 0 .. Stale
    /\ \A t \in Tasks : Owner[t] \in Workers
  BY TaskAssumption, StampAssumption

\* The orphan age is longer than the longest hold-up.
LEMMA DelayFits == Delay <= Stale /\ Round \in Nat /\ Delay + (MaxMisses + 1) * Round < Stale
<1> DEFINE R == (MaxMisses + 1) * Round
<1>1. MaxMisses + 1 \in Nat /\ Round \in Nat
  BY StampAssumption DEF Round
<1>2. R \in Nat
  BY <1>1
<1>3. Delay + R < Stale
  BY StampAssumption DEF Round
<1> HIDE DEF R
<1>4. Delay <= Stale
  BY <1>2, <1>3, StampAssumption
<1> QED
  BY <1>1, <1>3, <1>4 DEF R

\* Every action keeps the types.
LEMMA TypeStep ==
    ASSUME TypeOK, ControlInv, SlotsBalanced, [Next]_vars
    PROVE  TypeOK'
<1>1. ASSUME NEW t \in Tasks, Create(t) PROVE TypeOK'
  BY <1>1, Ranges
  DEF Create, SetObj, Enter, IsUp, Evictable, Deletable, EntryOf, procs,
      store, clock, TypeOK, Statuses, Active, Verdicts
<1>2. ASSUME NEW t \in Tasks, Begin(t) PROVE TypeOK'
  <2>1. redis' \in [Tasks -> Statuses]
    BY <1>2 DEF Begin, Mirror, TypeOK, Statuses, Active
  <2>2. obj' \in [Tasks -> Statuses]
    BY <1>2 DEF Begin, SetObj, TypeOK, Statuses, Active
  <2>3. phase' \in [Tasks -> {"none", "created", "queued", "running", "ended", "over"}]
    BY <1>2 DEF Begin, Enter, TypeOK
  <2>4. UNCHANGED <<procs, entry, thread, free, index, history, clock>>
    BY <1>2 DEF Begin
  <2> QED
    BY <2>1, <2>2, <2>3, <2>4 DEF procs, clock, TypeOK
<1>3. ASSUME NEW t \in Tasks, Acquire(t) PROVE TypeOK'
  <2>1. free' \in [Workers -> 0 .. Slots]
    BY <1>3, Ranges, TaskAssumption DEF Acquire, TypeOK
  <2> QED
    BY <1>3, <2>1 DEF Acquire, SetObj, Enter, Mirror, procs, store, clock, TypeOK, Statuses,
       Active, Verdicts
<1>4. ASSUME NEW t \in Tasks, Complete(t) PROVE TypeOK'
  <2>1. free' \in [Workers -> 0 .. Slots]
    BY <1>4, LeavingSlot DEF Complete, Enter, CancelSubmitted, TypeOK
  <2> QED
    BY <1>4, <2>1 DEF Complete, SetObj, Enter, procs, store, clock, TypeOK, Statuses,
       Active, Verdicts
<1>5. ASSUME NEW t \in Tasks, Lifetime(t) PROVE TypeOK'
  <2>1. free' \in [Workers -> 0 .. Slots]
    BY <1>5, LeavingSlot DEF Lifetime, Enter, CancelSubmitted, TypeOK
  <2> QED
    BY <1>5, <2>1 DEF Lifetime, SetObj, Enter, CancelSubmitted, procs, store, clock, TypeOK, Statuses,
       Active, Verdicts
<1>6. ASSUME NEW t \in Tasks, FinalSync(t) PROVE TypeOK'
  <2>1. history' \in [Tasks -> Verdicts \cup {"none"}]
    BY <1>6 DEF FinalSync, Record, TypeOK, ControlInv
  <2> QED
    BY <1>6, <2>1, Ranges DEF FinalSync, Enter, Mirror, procs, TypeOK, Statuses,
       Active, Verdicts
<1>7. ASSUME NEW t \in Tasks, ThreadStart(t) PROVE TypeOK'
  BY <1>7, Ranges
  DEF ThreadStart, procs, store, clock, TypeOK, Statuses, Active, Verdicts
<1>8. ASSUME NEW t \in Tasks, ThreadEnd(t) PROVE TypeOK'
  BY <1>8, Ranges
  DEF ThreadEnd, procs, store, clock, TypeOK, Statuses, Active, Verdicts
<1>9. ASSUME NEW t \in Tasks, Heartbeat(t) PROVE TypeOK'
  <2>1. PICK took \in 0 .. beat[t] - Beat : stamp' = [stamp EXCEPT ![t] = took]
    BY <1>9 DEF Heartbeat
  <2>2. took \in 0 .. Stale
    <3>1. beat[t] \in 0 .. Beat + Delay /\ Delay <= Stale
      BY DelayFits DEF TypeOK
    <3> QED
      BY <3>1, StampAssumption
  <2>3. stamp' \in [Tasks -> 0 .. Stale]
    BY <2>1, <2>2 DEF TypeOK
  <2> QED
    BY <1>9, <2>3, Ranges
    DEF Heartbeat, procs, store, clock, TypeOK, Statuses, Active, Verdicts
<1>10. ASSUME NEW t \in Tasks, HeartbeatLost(t) PROVE TypeOK'
  <2>1. misses' \in [Tasks -> 0 .. MaxMisses]
    BY <1>10, StampAssumption DEF HeartbeatLost, TypeOK
  <2> QED
    BY <1>10, <2>1, Ranges DEF HeartbeatLost, procs, store, clock, TypeOK, Statuses, Active,
       Verdicts
<1>11. ASSUME NEW t \in Tasks, HashExpires(t) PROVE TypeOK'
  BY <1>11, Ranges
  DEF HashExpires, Beats, procs, store, clock, TypeOK, Statuses, Active,
      Verdicts
<1>12. ASSUME NEW w \in Workers, Die(w) PROVE TypeOK'
  <2>1. free' \in [Workers -> 0 .. Slots]
    BY <1>12, TaskAssumption DEF Die, TypeOK
  <2> QED
    BY <1>12, <2>1, Ranges DEF Die, procs, store, clock, TypeOK, Statuses, Active, Verdicts
<1>13. ASSUME NEW w \in Workers, Restart(w) PROVE TypeOK'
  BY <1>13, Ranges
  DEF Restart, procs, store, clock, TypeOK, Statuses, Active, Verdicts
<1>14. ASSUME NEW w \in Workers, Serve(w) PROVE TypeOK'
  BY <1>14, Ranges
  DEF Serve, procs, store, clock, TypeOK, Statuses, Active, Verdicts
<1>15. ASSUME NEW w \in Workers, NEW t \in Tasks, GetTask(w, t) PROVE TypeOK'
  BY <1>15, Ranges
  DEF GetTask, EntryOf, procs, store, clock, TypeOK, Statuses, Active,
      Verdicts
<1>16. ASSUME NEW w \in Workers, NEW t \in Tasks, ReapTask(w, t) PROVE TypeOK'
  <2>0. redis[t] \in Statuses /\ "failed" \in Statuses
    BY DEF TypeOK, Statuses, Verdicts
  <2>1. entry' \in [Workers -> [Tasks -> Statuses \cup {"own"}]]
    <3>1. \/ entry' = entry
          \/ \E st \in Statuses : entry' = [entry EXCEPT ![w] = [entry[w] EXCEPT ![t] = st]]
      BY <1>16, <2>0, Zenon DEF ReapTask
    <3>2. entry \in [Workers -> [Tasks -> Statuses \cup {"own"}]]
      BY DEF TypeOK
    <3>3. CASE entry' = entry
      BY <3>2, <3>3
    <3>4. ASSUME NEW st \in Statuses, entry' = [entry EXCEPT ![w] = [entry[w] EXCEPT ![t] = st]]
          PROVE  entry' \in [Workers -> [Tasks -> Statuses \cup {"own"}]]
      <4>1. [entry[w] EXCEPT ![t] = st] \in [Tasks -> Statuses \cup {"own"}]
        BY <3>2
      <4> QED
        BY <3>2, <3>4, <4>1, Zenon
    <3> QED
      BY <3>1, <3>3, <3>4
  <2>2. redis' \in [Tasks -> Statuses] /\ history' \in [Tasks -> Verdicts \cup {"none"}]
    BY <1>16 DEF ReapTask, Mirror, Record, store, TypeOK, Statuses, Verdicts
  <2> QED
    BY <1>16, <2>1, <2>2 DEF ReapTask, clock, TypeOK
<1>17. ASSUME IndexExpires PROVE TypeOK'
  BY <1>17, Ranges
  DEF IndexExpires, procs, store, clock, TypeOK, Statuses, Active, Verdicts
<1>18. ASSUME Tick PROVE TypeOK'
  <2>1. beat' \in [Tasks -> 0 .. Beat + Delay]
    BY <1>18, StampAssumption DEF Tick, Beats, TypeOK
  <2>2. stamp' \in [Tasks -> 0 .. Stale]
    BY <1>18, StampAssumption DEF Tick, TypeOK
  <2> QED
    BY <1>18, <2>1, <2>2 DEF Tick, procs, store, TypeOK, Statuses, Active, Verdicts
<1>19. ASSUME UNCHANGED vars PROVE TypeOK'
  BY <1>19, Ranges
  DEF vars, procs, store, clock, TypeOK, Statuses, Active, Verdicts
<1> QED
  BY <1>1, <1>2, <1>3, <1>4, <1>5, <1>6, <1>7, <1>8, <1>9, <1>10, <1>11,
     <1>12, <1>13, <1>14, <1>15, <1>16, <1>17, <1>18, <1>19, SMTT(30)
  DEF Next, Progress

\* Every action keeps the agreement of phases, objects and threads.
LEMMA ControlStep ==
    ASSUME TypeOK, ControlInv, [Next]_vars
    PROVE  ControlInv'
<1>1. ASSUME NEW t \in Tasks, Create(t) PROVE ControlInv'
  BY <1>1
  DEF Create, SetObj, Enter, IsUp, Evictable, Deletable, EntryOf, procs,
      store, clock, TypeOK, ControlInv, Verdicts
<1>2. ASSUME NEW t \in Tasks, Begin(t) PROVE ControlInv'
  BY <1>2
  DEF Begin, SetObj, Enter, Mirror, procs, store, clock, TypeOK, ControlInv,
      Verdicts
<1>3. ASSUME NEW t \in Tasks, Acquire(t) PROVE ControlInv'
  BY <1>3
  DEF Acquire, SetObj, Enter, Mirror, procs, store, clock, TypeOK, ControlInv,
      Verdicts
<1>4. ASSUME NEW t \in Tasks, Complete(t) PROVE ControlInv'
  BY <1>4
  DEF Complete, SetObj, Enter, Release, Holders, procs, store, clock, TypeOK,
      ControlInv, Verdicts
<1>5. ASSUME NEW t \in Tasks, Lifetime(t) PROVE ControlInv'
  BY <1>5
  DEF Lifetime, SetObj, Enter, Release, CancelSubmitted, Holders, procs,
      store, clock, TypeOK, ControlInv, Verdicts
<1>6. ASSUME NEW t \in Tasks, FinalSync(t) PROVE ControlInv'
  BY <1>6
  DEF FinalSync, SetObj, Enter, Mirror, Record, procs, store, clock, TypeOK,
      ControlInv, Verdicts
<1>7. ASSUME NEW t \in Tasks, ThreadStart(t) PROVE ControlInv'
  BY <1>7
  DEF ThreadStart, procs, store, clock, TypeOK, ControlInv, Verdicts
<1>8. ASSUME NEW t \in Tasks, ThreadEnd(t) PROVE ControlInv'
  BY <1>8
  DEF ThreadEnd, procs, store, clock, TypeOK, ControlInv, Verdicts
<1>9. ASSUME NEW t \in Tasks, Heartbeat(t) PROVE ControlInv'
  BY <1>9
  DEF Heartbeat, procs, store, clock, TypeOK, ControlInv, Verdicts
<1>10. ASSUME NEW t \in Tasks, HeartbeatLost(t) PROVE ControlInv'
  BY <1>10
  DEF HeartbeatLost, procs, store, clock, TypeOK, ControlInv, Verdicts
<1>11. ASSUME NEW t \in Tasks, HashExpires(t) PROVE ControlInv'
  BY <1>11
  DEF HashExpires, Beats, procs, store, clock, TypeOK, ControlInv, Verdicts
<1>12. ASSUME NEW w \in Workers, Die(w) PROVE ControlInv'
  BY <1>12
  DEF Die, procs, store, clock, TypeOK, ControlInv, Verdicts
<1>13. ASSUME NEW w \in Workers, Restart(w) PROVE ControlInv'
  BY <1>13
  DEF Restart, procs, store, clock, TypeOK, ControlInv, Verdicts
<1>14. ASSUME NEW w \in Workers, Serve(w) PROVE ControlInv'
  BY <1>14
  DEF Serve, procs, store, clock, TypeOK, ControlInv, Verdicts
<1>15. ASSUME NEW w \in Workers, NEW t \in Tasks, GetTask(w, t) PROVE ControlInv'
  BY <1>15
  DEF GetTask, EntryOf, procs, store, clock, TypeOK, ControlInv, Verdicts
<1>16. ASSUME NEW w \in Workers, NEW t \in Tasks, ReapTask(w, t) PROVE ControlInv'
  BY <1>16
  DEF ReapTask, Mirror, Record, Reapable, procs, store, clock, TypeOK,
      ControlInv, Verdicts
<1>17. ASSUME IndexExpires PROVE ControlInv'
  BY <1>17
  DEF IndexExpires, procs, store, clock, TypeOK, ControlInv, Verdicts
<1>18. ASSUME Tick PROVE ControlInv'
  BY <1>18
  DEF Tick, Beats, procs, store, clock, TypeOK, ControlInv, Verdicts
<1>19. ASSUME UNCHANGED vars PROVE ControlInv'
  BY <1>19
  DEF vars, procs, store, clock, TypeOK, ControlInv, Verdicts
<1> QED
  BY <1>1, <1>2, <1>3, <1>4, <1>5, <1>6, <1>7, <1>8, <1>9, <1>10, <1>11,
     <1>12, <1>13, <1>14, <1>15, <1>16, <1>17, <1>18, <1>19, SMTT(30)
  DEF Next, Progress

\* Every action keeps the balance of slots.
LEMMA SlotStep ==
    ASSUME TypeOK, ControlInv, SlotsBalanced, [Next]_vars
    PROVE  SlotsBalanced'
<1>1. ASSUME NEW t \in Tasks, Create(t) PROVE SlotsBalanced'
  <2>1. \A w \in Workers : Holders(w)' = Holders(w)
    BY <1>1 DEF Create, Enter, Holders, TypeOK, ControlInv
  <2> QED
    BY <1>1, <2>1, SlotsUntouched DEF Create
<1>2. ASSUME NEW t \in Tasks, Begin(t) PROVE SlotsBalanced'
  <2>1. \A w \in Workers : Holders(w)' = Holders(w)
    BY <1>2 DEF Begin, Enter, Holders, TypeOK, ControlInv
  <2> QED
    BY <1>2, <2>1, SlotsUntouched DEF Begin
<1>3. ASSUME NEW t \in Tasks, Acquire(t) PROVE SlotsBalanced'
  <2> DEFINE o == Owner[t]
  <2>1. /\ o \in Workers /\ free \in [Workers -> 0 .. Slots]
        /\ phase \in [Tasks -> {"none", "created", "queued", "running", "ended", "over"}]
        /\ thread \in [Tasks -> {"none", "waiting", "running", "done"}]
    BY <1>3, Ranges DEF Acquire, TypeOK, ControlInv
  <2>2. \A w \in Workers \ {o} : Holders(w)' = Holders(w)
    BY <1>3, <2>1 DEF Acquire, Enter, Holders
  <2>3. Holders(o)' = Holders(o) \cup {t} /\ t \notin Holders(o)
    BY <1>3, <2>1 DEF Acquire, Enter, Holders
  <2>4. Cardinality(Holders(o)') = Cardinality(Holders(o)) + 1
    BY <2>1, <2>3, HoldersFinite, FS_AddElement
  <2>5. free' = [free EXCEPT ![o] = @ - 1] /\ free[o] \in Nat /\ Cardinality(Holders(o)) \in Nat
    BY <1>3, <2>1, HoldersFinite DEF Acquire
  <2>6. free'[o] + Cardinality(Holders(o)') = Slots
    BY <2>1, <2>4, <2>5, TaskAssumption DEF SlotsBalanced
  <2>7. \A w \in Workers \ {o} : free'[w] + Cardinality(Holders(w)') = Slots
    BY <2>1, <2>2, <2>5 DEF SlotsBalanced
  <2> QED
    BY <2>6, <2>7 DEF SlotsBalanced
<1>4. ASSUME NEW t \in Tasks, Complete(t) PROVE SlotsBalanced'
  BY <1>4, LeavingSlot DEF Complete, Enter, CancelSubmitted, TypeOK
<1>5. ASSUME NEW t \in Tasks, Lifetime(t) PROVE SlotsBalanced'
  BY <1>5, LeavingSlot DEF Lifetime, Enter, CancelSubmitted, TypeOK
<1>6. ASSUME NEW t \in Tasks, FinalSync(t) PROVE SlotsBalanced'
  <2>1. \A w \in Workers : Holders(w)' = Holders(w)
    BY <1>6 DEF FinalSync, Enter, Holders, TypeOK, ControlInv
  <2> QED
    BY <1>6, <2>1, SlotsUntouched DEF FinalSync
<1>7. ASSUME NEW t \in Tasks, ThreadStart(t) PROVE SlotsBalanced'
  BY <1>7, SlotsUntouched DEF ThreadStart, Holders, TypeOK
<1>8. ASSUME NEW t \in Tasks, ThreadEnd(t) PROVE SlotsBalanced'
  BY <1>8, SlotsUntouched DEF ThreadEnd, Holders, TypeOK
<1>9. ASSUME NEW t \in Tasks, Heartbeat(t) PROVE SlotsBalanced'
  BY <1>9, SlotsUntouched DEF Heartbeat, Holders, TypeOK
<1>10. ASSUME NEW t \in Tasks, HeartbeatLost(t) PROVE SlotsBalanced'
  BY <1>10, SlotsUntouched DEF HeartbeatLost, Holders, TypeOK
<1>11. ASSUME NEW t \in Tasks, HashExpires(t) PROVE SlotsBalanced'
  BY <1>11, SlotsUntouched DEF HashExpires, Holders, TypeOK
<1>12. ASSUME NEW w \in Workers, Die(w) PROVE SlotsBalanced'
  <2>1. \A v \in Workers \ {w} : Holders(v)' = Holders(v) /\ free'[v] = free[v]
    BY <1>12 DEF Die, Holders, TypeOK
  <2>2. Holders(w)' = {}
    BY <1>12 DEF Die, Holders, TypeOK
  <2>3. free'[w] = Slots
    BY <1>12 DEF Die, TypeOK
  <2>4. Cardinality(Holders(w)') = 0
    BY <2>2, FS_EmptySet
  <2> QED
    BY <2>1, <2>3, <2>4, TaskAssumption DEF SlotsBalanced
<1>13. ASSUME NEW w \in Workers, Restart(w) PROVE SlotsBalanced'
  BY <1>13, SlotsUntouched DEF Restart, Holders, TypeOK
<1>14. ASSUME NEW w \in Workers, Serve(w) PROVE SlotsBalanced'
  BY <1>14, SlotsUntouched DEF Serve, Holders, TypeOK
<1>15. ASSUME NEW w \in Workers, NEW t \in Tasks, GetTask(w, t) PROVE SlotsBalanced'
  BY <1>15, SlotsUntouched DEF GetTask, Holders, TypeOK
<1>16. ASSUME NEW w \in Workers, NEW t \in Tasks, ReapTask(w, t) PROVE SlotsBalanced'
  BY <1>16, SlotsUntouched DEF ReapTask, Holders, TypeOK
<1>17. ASSUME IndexExpires PROVE SlotsBalanced'
  BY <1>17, SlotsUntouched DEF IndexExpires, Holders, TypeOK
<1>18. ASSUME Tick PROVE SlotsBalanced'
  BY <1>18, SlotsUntouched DEF Tick, Holders, TypeOK
<1>19. ASSUME UNCHANGED vars PROVE SlotsBalanced'
  BY <1>19, SlotsUntouched DEF vars, Holders
<1> QED
  BY <1>1, <1>2, <1>3, <1>4, <1>5, <1>6, <1>7, <1>8, <1>9, <1>10, <1>11,
     <1>12, <1>13, <1>14, <1>15, <1>16, <1>17, <1>18, <1>19, SMTT(30)
  DEF Next, Progress

\* Every action keeps the bound on the age of stamps.
LEMMA AgeStep ==
    ASSUME TypeOK, ControlInv, AgeBound, [Next]_vars
    PROVE  AgeBound'
<1>1. ASSUME NEW t \in Tasks, Create(t) PROVE AgeBound'
  BY <1>1, StampAssumption
  DEF Create, SetObj, Enter, IsUp, Evictable, Deletable, EntryOf, procs,
      store, clock, TypeOK, ControlInv, AgeBound
<1>2. ASSUME NEW t \in Tasks, Begin(t) PROVE AgeBound'
  BY <1>2, StampAssumption
  DEF Begin, SetObj, Enter, Mirror, procs, store, clock, TypeOK, ControlInv,
      AgeBound
<1>3. ASSUME NEW t \in Tasks, Acquire(t) PROVE AgeBound'
  BY <1>3, StampAssumption
  DEF Acquire, SetObj, Enter, Mirror, procs, store, clock, TypeOK, ControlInv,
      AgeBound
<1>4. ASSUME NEW t \in Tasks, Complete(t) PROVE AgeBound'
  BY <1>4, StampAssumption
  DEF Complete, SetObj, Enter, Release, Holders, procs, store, clock, TypeOK,
      ControlInv, AgeBound
<1>5. ASSUME NEW t \in Tasks, Lifetime(t) PROVE AgeBound'
  BY <1>5, StampAssumption
  DEF Lifetime, SetObj, Enter, Release, CancelSubmitted, Holders, procs,
      store, clock, TypeOK, ControlInv, AgeBound
<1>6. ASSUME NEW t \in Tasks, FinalSync(t) PROVE AgeBound'
  BY <1>6, StampAssumption
  DEF FinalSync, SetObj, Enter, Mirror, Record, procs, store, clock, TypeOK,
      ControlInv, AgeBound
<1>7. ASSUME NEW t \in Tasks, ThreadStart(t) PROVE AgeBound'
  BY <1>7, StampAssumption
  DEF ThreadStart, procs, store, clock, TypeOK, ControlInv, AgeBound
<1>8. ASSUME NEW t \in Tasks, ThreadEnd(t) PROVE AgeBound'
  BY <1>8, StampAssumption
  DEF ThreadEnd, procs, store, clock, TypeOK, ControlInv, AgeBound
<1>9. ASSUME NEW t \in Tasks, Heartbeat(t) PROVE AgeBound'
  <2> SUFFICES ASSUME NEW u \in beaten', phase'[u] = "running"
               PROVE  stamp'[u] <= beat'[u] + misses'[u] * Round + Delay
    BY DEF AgeBound
  <2>1. CASE u = t
    <3>1. /\ stamp'[t] \in 0 .. beat[t] - Beat /\ beat[t] \in 0 .. Beat + Delay
          /\ beat'[t] = 0 /\ misses'[t] = 0
      BY <1>9 DEF Heartbeat, TypeOK
    <3>2. 0 * Round = 0
      BY DelayFits
    <3> QED
      BY <2>1, <3>1, <3>2, StampAssumption
  <2>2. CASE u # t
    <3>1. /\ u \in beaten /\ phase[u] = "running"
          /\ stamp'[u] = stamp[u] /\ beat'[u] = beat[u] /\ misses'[u] = misses[u]
      BY <1>9, <2>2 DEF Heartbeat, TypeOK
    <3> QED
      BY <3>1 DEF AgeBound
  <2> QED
    BY <2>1, <2>2
<1>10. ASSUME NEW t \in Tasks, HeartbeatLost(t) PROVE AgeBound'
  <2> SUFFICES ASSUME NEW u \in beaten, phase[u] = "running"
               PROVE  stamp[u] <= beat'[u] + misses'[u] * Round + Delay
    BY <1>10 DEF AgeBound, HeartbeatLost
  <2>0. /\ u \in Tasks /\ stamp[u] <= beat[u] + misses[u] * Round + Delay
        /\ misses[u] \in Nat /\ stamp[u] \in Nat /\ misses[u] * Round \in Nat
        /\ beat[u] \in 0 .. Beat + Delay
    BY DelayFits, StampAssumption DEF TypeOK, AgeBound
  <2>1. CASE u = t
    <3>1. beat'[u] = 0 /\ misses'[u] = misses[u] + 1
      BY <1>10, <2>1 DEF HeartbeatLost, TypeOK
    <3>2. (misses[u] + 1) * Round = misses[u] * Round + Round
      BY <2>0, DelayFits
    <3> QED
      BY <2>0, <3>1, <3>2, StampAssumption DEF Round
  <2>2. CASE u # t
    <3>1. beat'[u] = beat[u] /\ misses'[u] = misses[u]
      BY <1>10, <2>0, <2>2 DEF HeartbeatLost, TypeOK
    <3> QED
      BY <2>0, <3>1
  <2> QED
    BY <2>1, <2>2
<1>11. ASSUME NEW t \in Tasks, HashExpires(t) PROVE AgeBound'
  BY <1>11, StampAssumption
  DEF HashExpires, Beats, procs, store, clock, TypeOK, ControlInv, AgeBound
<1>12. ASSUME NEW w \in Workers, Die(w) PROVE AgeBound'
  BY <1>12, StampAssumption
  DEF Die, procs, store, clock, TypeOK, ControlInv, AgeBound
<1>13. ASSUME NEW w \in Workers, Restart(w) PROVE AgeBound'
  BY <1>13, StampAssumption
  DEF Restart, procs, store, clock, TypeOK, ControlInv, AgeBound
<1>14. ASSUME NEW w \in Workers, Serve(w) PROVE AgeBound'
  BY <1>14, StampAssumption
  DEF Serve, procs, store, clock, TypeOK, ControlInv, AgeBound
<1>15. ASSUME NEW w \in Workers, NEW t \in Tasks, GetTask(w, t) PROVE AgeBound'
  BY <1>15, StampAssumption
  DEF GetTask, EntryOf, procs, store, clock, TypeOK, ControlInv, AgeBound
<1>16. ASSUME NEW w \in Workers, NEW t \in Tasks, ReapTask(w, t) PROVE AgeBound'
  BY <1>16, StampAssumption
  DEF ReapTask, Mirror, Record, Reapable, procs, store, clock, TypeOK,
      ControlInv, AgeBound
<1>17. ASSUME IndexExpires PROVE AgeBound'
  BY <1>17, StampAssumption
  DEF IndexExpires, procs, store, clock, TypeOK, ControlInv, AgeBound
<1>18. ASSUME Tick PROVE AgeBound'
  <2> SUFFICES ASSUME NEW u \in beaten, phase[u] = "running"
               PROVE  stamp'[u] <= beat'[u] + misses[u] * Round + Delay
    BY <1>18 DEF AgeBound, Tick
  <2>1. /\ u \in Tasks /\ stamp[u] <= beat[u] + misses[u] * Round + Delay
        /\ stamp[u] \in 0 .. Stale /\ beat[u] \in Nat /\ misses[u] * Round \in Nat
    BY DelayFits, StampAssumption DEF TypeOK, AgeBound
  <2>2. beat'[u] = beat[u] + 1
    BY <1>18, <2>1 DEF Tick, Beats
  <2>3. stamp'[u] = IF stamp[u] < Stale THEN stamp[u] + 1 ELSE Stale
    BY <1>18, <2>1 DEF Tick
  <2> QED
    BY <2>1, <2>2, <2>3, StampAssumption
<1>19. ASSUME UNCHANGED vars PROVE AgeBound'
  BY <1>19, StampAssumption
  DEF vars, procs, store, clock, TypeOK, ControlInv, AgeBound
<1> QED
  BY <1>1, <1>2, <1>3, <1>4, <1>5, <1>6, <1>7, <1>8, <1>9, <1>10, <1>11,
     <1>12, <1>13, <1>14, <1>15, <1>16, <1>17, <1>18, <1>19, SMTT(30)
  DEF Next, Progress

----------------------------------------------------------------------------
(* Theorems *)

\* The invariant holds of the initial states.
LEMMA InvInit == Init => TaskInv
<1> SUFFICES ASSUME Init PROVE TaskInv
  OBVIOUS
<1>1. TypeOK
  BY Ranges, TaskAssumption DEF Init, TypeOK, Statuses, Active, Verdicts
<1>2. ControlInv /\ AgeBound
  BY DEF Init, ControlInv, AgeBound
<1>3. \A w \in Workers : Holders(w) = {}
  BY DEF Init, Holders
<1>4. SlotsBalanced
  BY <1>3, FS_EmptySet, TaskAssumption DEF Init, SlotsBalanced
<1> QED
  BY <1>1, <1>2, <1>4 DEF TaskInv

\* Every action keeps the invariant.
LEMMA InvStep == TaskInv /\ [Next]_vars => TaskInv'
  BY TypeStep, ControlStep, SlotStep, AgeStep DEF TaskInv

\* The invariant that the results below follow from.
THEOREM Safety == Spec => []TaskInv
  BY InvInit, InvStep, PTL DEF Spec

\* Every variable of the task manager keeps its type; no gate has more free
\* slots than the executor has threads.
THEOREM TypeCorrect == Spec => []TypeOK
<1>1. TaskInv => TypeOK
  BY DEF TaskInv
<1> QED
  BY Safety, <1>1, PTL

\* No timeout, failure or death loses a slot of the gate or frees one twice,
\* for any number of tasks and slots (run_background).
THEOREM SlotsKept == Spec => []SlotsBalanced
<1>1. TaskInv => SlotsBalanced
  BY DEF TaskInv
<1> QED
  BY Safety, <1>1, PTL

\* The age of a stamp stays below the orphan age.
LEMMA AgeIsEnough == TypeOK /\ AgeBound => BeatingTasksSpared
<1> SUFFICES ASSUME TypeOK, AgeBound, NEW t \in beaten, phase[t] = "running"
             PROVE  stamp[t] < Stale
  BY StampAssumption DEF BeatingTasksSpared, Reapable, TypeOK
<1>1. stamp[t] <= beat[t] + misses[t] * Round + Delay
  BY DEF AgeBound
<1>2. /\ beat[t] \in 0 .. Round /\ misses[t] \in 0 .. MaxMisses /\ stamp[t] \in Nat
  BY StampAssumption DEF TypeOK, Round
<1>3. misses[t] * Round <= MaxMisses * Round
  BY <1>2, DelayFits, StampAssumption
<1>4. (MaxMisses + 1) * Round = MaxMisses * Round + Round
  BY DelayFits, StampAssumption
<1>5. misses[t] * Round \in Nat /\ MaxMisses * Round \in Nat
  BY <1>2, DelayFits, StampAssumption
<1> QED
  BY <1>1, <1>2, <1>3, <1>4, <1>5, DelayFits, StampAssumption

\* A starting worker fails no running task that has beaten, for every interval
\* and orphan age with Delay + (MaxMisses + 1) * (Beat + Delay) < Stale
\* (reap_orphaned_tasks).
THEOREM ReaperSpares == Spec => []BeatingTasksSpared
<1>1. TaskInv => BeatingTasksSpared
  BY AgeIsEnough DEF TaskInv
<1> QED
  BY Safety, <1>1, PTL

\* A function whose task has been failed is never started (run_background).
THEOREM NoLateStart == Spec => FailedNeverStarts
<1>1. TaskInv /\ [Next]_vars
      => [\A t \in Tasks : thread[t] = "waiting" /\ thread'[t] = "running"
                           => obj[t] = "running"]_vars
  BY DEF TaskInv, ControlInv
<1> QED
  BY Safety, <1>1, PTL DEF Spec, FailedNeverStarts

=============================================================================
