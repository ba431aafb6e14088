---------------------- MODULE ActionIdempotency_proofs ----------------------
(***************************************************************************)
(* Proofs about ActionIdempotency, for any set of requests, slots and      *)
(* objects and any assignment of calls to requests.                        *)
(***************************************************************************)
EXTENDS ActionIdempotency, TLAPS

\* Every action keeps the types.
LEMMA TypeStep ==
    TypeOK /\ [Next]_vars => TypeOK'
<1> SUFFICES ASSUME TypeOK, [Next]_vars PROVE TypeOK'
  OBVIOUS
<1>1. ASSUME NEW r \in Requests, Refuse(r) PROVE TypeOK'
  BY <1>1, CallAssumption DEF Refuse, Answer, slotVars, hist, TypeOK, Pcs, Responses, Lifecycle
<1>2. ASSUME NEW r \in Requests, Resolve(r) PROVE TypeOK'
  BY <1>2, CallAssumption DEF Resolve, Goto, slotVars, hist, TypeOK, Pcs, Responses, Lifecycle
<1>3. ASSUME NEW r \in Requests, Acquire(r) PROVE TypeOK'
  <2>1. state' \in [Slots -> {"none", "running", "completed", "failed"}]
    BY <1>3 DEF TypeOK, Acquire, TryAcquire
  <2>2. owner' \in [Slots -> Requests \cup {"none"}]
    BY <1>3 DEF TypeOK, Acquire, TryAcquire
  <2> QED
    BY <1>3, <2>1, <2>2 DEF Acquire, Goto, hist, TypeOK, Pcs
<1>4. ASSUME NEW r \in Requests, AcquireError(r) PROVE TypeOK'
  BY <1>4, CallAssumption DEF AcquireError, Answer, slotVars, hist, TypeOK, Pcs, Responses, Lifecycle
<1>5. ASSUME NEW r \in Requests, ReadBack(r) PROVE TypeOK'
  <2>1. pc' \in [Requests -> Pcs] /\ resp' \in [Requests -> Responses]
    BY <1>5 DEF TypeOK, ReadBack, Goto, Answer, Pcs, Responses
  <2> QED
    BY <1>5, <2>1 DEF ReadBack, slotVars, hist, TypeOK
<1>6. ASSUME NEW r \in Requests, ReadBackError(r) PROVE TypeOK'
  BY <1>6, CallAssumption DEF ReadBackError, Answer, slotVars, hist, TypeOK, Pcs, Responses, Lifecycle
<1>7. ASSUME NEW r \in Requests, Precheck(r) PROVE TypeOK'
  BY <1>7, CallAssumption DEF Precheck, Goto, slotVars, hist, TypeOK, Pcs, Responses, Lifecycle
<1>8. ASSUME NEW r \in Requests, SkipEffect(r) PROVE TypeOK'
  BY <1>8, CallAssumption DEF SkipEffect, Goto, slotVars, hist, TypeOK, Pcs, Responses, Lifecycle
<1>9. ASSUME NEW r \in Requests, RefuseEffect(r) PROVE TypeOK'
  BY <1>9, CallAssumption DEF RefuseEffect, Goto, slotVars, hist, TypeOK, Pcs, Responses, Lifecycle
<1>10. ASSUME NEW r \in Requests, CountTimeout(r) PROVE TypeOK'
  BY <1>10, CallAssumption DEF CountTimeout, Goto, slotVars, hist, TypeOK, Pcs, Responses, Lifecycle
<1>11. ASSUME NEW r \in Requests, SubmitEffect(r) PROVE TypeOK'
  BY <1>11, CallAssumption DEF SubmitEffect, Goto, slotVars, hist, TypeOK, Pcs, Responses, Lifecycle
<1>12. ASSUME NEW r \in Requests, AwaitEffect(r) PROVE TypeOK'
  BY <1>12, CallAssumption DEF AwaitEffect, Goto, slotVars, hist, TypeOK, Pcs, Responses, Lifecycle
<1>13. ASSUME NEW r \in Requests, EffectTimeout(r) PROVE TypeOK'
  BY <1>13, CallAssumption DEF EffectTimeout, Goto, slotVars, hist, TypeOK, Pcs, Responses, Lifecycle
<1>14. ASSUME NEW r \in Requests, Mark(r) PROVE TypeOK'
  <2>1. pc' \in [Requests -> Pcs] /\ resp' \in [Requests -> Responses]
    <3>1. CASE pc[r] = "refuse_mark"
      BY <1>14, <3>1 DEF TypeOK, Mark, AfterMark, Answer, Goto, Pcs, Responses
    <3>2. CASE pc[r] = "fail_mark"
      BY <1>14, <3>2 DEF TypeOK, Mark, AfterMark, Answer, Goto, Pcs, Responses
    <3>3. CASE pc[r] = "complete_mark"
      BY <1>14, <3>3 DEF TypeOK, Mark, AfterMark, Answer, Goto, Pcs, Responses
    <3> QED
      BY <1>14, <3>1, <3>2, <3>3 DEF Mark
  <2>2. MarkOf(r) \in {"completed", "failed"}
    BY DEF MarkOf
  <2>3. state' \in [Slots -> {"none", "running", "completed", "failed"}]
    BY <1>14, <2>2 DEF Mark, MarkSlot, TypeOK
  <2>4. owner' = owner
    BY <1>14 DEF Mark, MarkSlot
  <2> QED
    BY <1>14, <2>1, <2>3, <2>4 DEF Mark, hist, TypeOK
<1>15. ASSUME NEW r \in Requests, MarkLost(r) PROVE TypeOK'
  <2>1. pc' \in [Requests -> Pcs] /\ resp' \in [Requests -> Responses]
    <3>1. CASE pc[r] = "refuse_mark"
      BY <1>15, <3>1 DEF TypeOK, MarkLost, AfterMark, Answer, Goto, Pcs, Responses
    <3>2. CASE pc[r] = "fail_mark"
      BY <1>15, <3>2 DEF TypeOK, MarkLost, AfterMark, Answer, Goto, Pcs, Responses
    <3>3. CASE pc[r] = "complete_mark"
      BY <1>15, <3>3 DEF TypeOK, MarkLost, AfterMark, Answer, Goto, Pcs, Responses
    <3> QED
      BY <1>15, <3>1, <3>2, <3>3 DEF MarkLost
  <2>2. MarkOf(r) \in {"completed", "failed"}
    BY DEF MarkOf
  <2> QED
    BY <1>15, <2>1, <2>2 DEF MarkLost, hist, TypeOK
<1>16. ASSUME NEW r \in Requests, Audit(r) PROVE TypeOK'
  BY <1>16, CallAssumption DEF Audit, Goto, slotVars, hist, TypeOK, Pcs, Responses, Lifecycle
<1>17. ASSUME NEW r \in Requests, Publish(r) PROVE TypeOK'
  BY <1>17, CallAssumption DEF Publish, Answer, slotVars, hist, TypeOK, Pcs, Responses, Lifecycle
<1>18. ASSUME NEW r \in Requests, FailAudit(r) PROVE TypeOK'
  <2>1. FailureResponse(r) \in Responses
    BY CallAssumption DEF FailureResponse, Fallbacks, Responses
  <2> QED
    BY <1>18, <2>1 DEF FailAudit, Answer, slotVars, hist, TypeOK, Pcs
<1>19. ASSUME NEW r \in Requests, EffectLands(r) PROVE TypeOK'
  BY <1>19, CallAssumption DEF EffectLands, slotVars, hist, TypeOK, Pcs, Responses, Lifecycle
<1>20. ASSUME NEW r \in Requests, EffectFails(r) PROVE TypeOK'
  BY <1>20, CallAssumption DEF EffectFails, slotVars, hist, TypeOK, Pcs, Responses, Lifecycle
<1>21. ASSUME NEW r \in Requests, LateCall(r) PROVE TypeOK'
  <2>1. late[r] # "acquire" => late[r] \in {"completed", "failed"}
    BY <1>21 DEF LateCall, TypeOK
  <2>2. state' \in [Slots -> {"none", "running", "completed", "failed"}]
    BY <1>21, <2>1 DEF TypeOK, LateCall, TryAcquire, MarkSlot
  <2>3. owner' \in [Slots -> Requests \cup {"none"}]
    BY <1>21 DEF TypeOK, LateCall, TryAcquire, MarkSlot
  <2> QED
    BY <1>21, <2>2, <2>3 DEF LateCall, hist, TypeOK
<1>22. ASSUME NEW r \in Requests, Crash(r) PROVE TypeOK'
  BY <1>22, CallAssumption DEF Crash, slotVars, hist, TypeOK, Pcs, Responses, Lifecycle
<1>23. ASSUME NEW s \in Slots, ResetRunning(s) PROVE TypeOK'
  BY <1>23, CallAssumption DEF ResetRunning, slotVars, hist, TypeOK, Pcs, Responses, Lifecycle
<1>24. CASE UNCHANGED vars
  BY <1>24 DEF vars, TypeOK, Pcs, Responses, Lifecycle
<1> QED
  BY <1>1, <1>2, <1>3, <1>4, <1>5, <1>6, <1>7, <1>8, <1>9, <1>10, <1>11,
     <1>12, <1>13, <1>14, <1>15, <1>16, <1>17, <1>18, <1>19, <1>20, <1>21,
     <1>22, <1>23, <1>24 DEF Next, Step

\* What AfterMark does, without its CASE.
LEMMA AfterMarkFacts ==
    ASSUME TypeOK, NEW r \in Requests, AfterMark(r),
           pc[r] \in {"refuse_mark", "fail_mark", "complete_mark"}
    PROVE  /\ pc[r] = "refuse_mark" => /\ pc' = [pc EXCEPT ![r] = "done"]
                                       /\ resp' = [resp EXCEPT ![r] = "rejected"]
           /\ pc[r] = "fail_mark" => /\ pc' = [pc EXCEPT ![r] = "fail_audit"]
                                     /\ resp' = resp
           /\ pc[r] = "complete_mark" => /\ pc' = [pc EXCEPT ![r] = "publish"]
                                         /\ resp' = resp
<1>1. CASE pc[r] = "refuse_mark"
  BY <1>1 DEF AfterMark, Answer
<1>2. CASE pc[r] = "fail_mark"
  BY <1>2 DEF AfterMark, Goto
<1>3. CASE pc[r] = "complete_mark"
  BY <1>3 DEF AfterMark, Goto
<1> QED
  BY <1>1, <1>2, <1>3

\* Every action keeps a request's control state consistent with its effect.
LEMMA ControlStep ==
    ASSUME TypeOK, ControlInv, [Next]_vars,
           NEW q \in Requests
    PROVE  ControlOk(q)'
<1> USE DEF ControlInv
<1>1. ASSUME NEW r \in Requests, Refuse(r) PROVE ControlOk(q)'
  BY <1>1 DEF Refuse, Answer, slotVars, hist, TypeOK, EffectOk, LateOk,
     AnswerOk, ControlOk, Keyed
<1>2. ASSUME NEW r \in Requests, Resolve(r) PROVE ControlOk(q)'
  BY <1>2 DEF Resolve, Goto, slotVars, hist, TypeOK, EffectOk, LateOk,
     AnswerOk, ControlOk, Keyed
<1>3. ASSUME NEW r \in Requests, Acquire(r) PROVE ControlOk(q)'
  BY <1>3 DEF Acquire, Goto, TryAcquire, Claimable, slotVars, hist, TypeOK,
     EffectOk, LateOk, AnswerOk, ControlOk, Keyed
<1>4. ASSUME NEW r \in Requests, AcquireError(r) PROVE ControlOk(q)'
  BY <1>4 DEF AcquireError, Answer, slotVars, hist, TypeOK, EffectOk, LateOk,
     AnswerOk, ControlOk, Keyed
<1>5. ASSUME NEW r \in Requests, ReadBack(r) PROVE ControlOk(q)'
  BY <1>5 DEF ReadBack, Goto, Answer, slotVars, hist, TypeOK, EffectOk,
     LateOk, AnswerOk, ControlOk, Keyed
<1>6. ASSUME NEW r \in Requests, ReadBackError(r) PROVE ControlOk(q)'
  BY <1>6 DEF ReadBackError, Answer, slotVars, hist, TypeOK, EffectOk, LateOk,
     AnswerOk, ControlOk, Keyed
<1>7. ASSUME NEW r \in Requests, Precheck(r) PROVE ControlOk(q)'
  BY <1>7 DEF Precheck, Goto, slotVars, hist, TypeOK, EffectOk, LateOk,
     AnswerOk, ControlOk, Keyed
<1>8. ASSUME NEW r \in Requests, SkipEffect(r) PROVE ControlOk(q)'
  BY <1>8 DEF SkipEffect, Goto, slotVars, hist, TypeOK, EffectOk, LateOk,
     AnswerOk, ControlOk, Keyed
<1>9. ASSUME NEW r \in Requests, RefuseEffect(r) PROVE ControlOk(q)'
  BY <1>9 DEF RefuseEffect, Goto, slotVars, hist, TypeOK, EffectOk, LateOk,
     AnswerOk, ControlOk, Keyed
<1>10. ASSUME NEW r \in Requests, CountTimeout(r) PROVE ControlOk(q)'
  BY <1>10 DEF CountTimeout, Goto, slotVars, hist, TypeOK, EffectOk, LateOk,
     AnswerOk, ControlOk, Keyed
<1>11. ASSUME NEW r \in Requests, SubmitEffect(r) PROVE ControlOk(q)'
  BY <1>11 DEF SubmitEffect, Goto, slotVars, hist, TypeOK, EffectOk, LateOk,
     AnswerOk, ControlOk, Keyed
<1>12. ASSUME NEW r \in Requests, AwaitEffect(r) PROVE ControlOk(q)'
  BY <1>12 DEF AwaitEffect, Goto, slotVars, hist, TypeOK, EffectOk, LateOk,
     AnswerOk, ControlOk, Keyed
<1>13. ASSUME NEW r \in Requests, EffectTimeout(r) PROVE ControlOk(q)'
  BY <1>13 DEF EffectTimeout, Goto, slotVars, hist, TypeOK, EffectOk, LateOk,
     AnswerOk, ControlOk, Keyed
<1>14. ASSUME NEW r \in Requests, Mark(r) PROVE ControlOk(q)'
  BY <1>14, AfterMarkFacts DEF Mark, MarkOf, slotVars, hist, TypeOK, EffectOk, LateOk, AnswerOk, ControlOk, Keyed
<1>15. ASSUME NEW r \in Requests, MarkLost(r) PROVE ControlOk(q)'
  BY <1>15, AfterMarkFacts DEF MarkLost, MarkOf, slotVars, hist, TypeOK, EffectOk, LateOk, AnswerOk, ControlOk, Keyed
<1>16. ASSUME NEW r \in Requests, Audit(r) PROVE ControlOk(q)'
  BY <1>16 DEF Audit, Goto, slotVars, hist, TypeOK, EffectOk, LateOk,
     AnswerOk, ControlOk, Keyed
<1>17. ASSUME NEW r \in Requests, Publish(r) PROVE ControlOk(q)'
  BY <1>17 DEF Publish, Answer, slotVars, hist, TypeOK, EffectOk, LateOk,
     AnswerOk, ControlOk, Keyed
<1>18. ASSUME NEW r \in Requests, FailAudit(r) PROVE ControlOk(q)'
  <2>1. r \in timedOut => FailureResponse(r) = "manual_intervention"
    BY DEF FailureResponse
  <2>2. r \notin timedOut => effect[r] = "failed"
    BY <1>18 DEF FailAudit, ControlOk, EffectOk
  <2>3. FailureResponse(r) # "none"
    BY CallAssumption DEF FailureResponse, Fallbacks
  <2> QED
    BY <1>18, <2>1, <2>2, <2>3 DEF FailAudit, Answer, slotVars, hist, TypeOK, EffectOk, LateOk, AnswerOk, ControlOk, Keyed
<1>19. ASSUME NEW r \in Requests, EffectLands(r) PROVE ControlOk(q)'
  BY <1>19 DEF EffectLands, slotVars, hist, TypeOK, EffectOk, LateOk,
     AnswerOk, ControlOk, Keyed
<1>20. ASSUME NEW r \in Requests, EffectFails(r) PROVE ControlOk(q)'
  BY <1>20 DEF EffectFails, slotVars, hist, TypeOK, EffectOk, LateOk,
     AnswerOk, ControlOk, Keyed
<1>21. ASSUME NEW r \in Requests, LateCall(r) PROVE ControlOk(q)'
  BY <1>21 DEF LateCall, TryAcquire, Claimable, MarkSlot, slotVars, hist,
     TypeOK, EffectOk, LateOk, AnswerOk, ControlOk, Keyed
<1>22. ASSUME NEW r \in Requests, Crash(r) PROVE ControlOk(q)'
  BY <1>22 DEF Crash, slotVars, hist, TypeOK, EffectOk, LateOk, AnswerOk,
     ControlOk, Keyed
<1>23. ASSUME NEW s \in Slots, ResetRunning(s) PROVE ControlOk(q)'
  BY <1>23 DEF ResetRunning, slotVars, hist, TypeOK, EffectOk, LateOk,
     AnswerOk, ControlOk, Keyed
<1>24. CASE UNCHANGED vars
  BY <1>24 DEF vars, TypeOK, EffectOk, LateOk, AnswerOk, ControlOk, Keyed
<1> QED
  BY <1>1, <1>2, <1>3, <1>4, <1>5, <1>6, <1>7, <1>8, <1>9, <1>10, <1>11,
     <1>12, <1>13, <1>14, <1>15, <1>16, <1>17, <1>18, <1>19, <1>20, <1>21,
     <1>22, <1>23, <1>24 DEF Next, Step

\* A request has a slot exactly when its action declares a key.
LEMMA SlotOfType ==
    \A r \in Requests : Keyed(r) <=> SlotOf(r) \in Slots
  BY CallAssumption, NoSlotAssumption DEF Keyed, SlotOf

LEMMA OwnershipStep ==
    ASSUME TypeOK, ControlInv, SlotInv, [Next]_vars,
           NEW q \in Requests
    PROVE  OwnershipOk(q)'
<1> USE DEF ControlInv, SlotInv
<1>1. ASSUME NEW r \in Requests, Refuse(r) PROVE OwnershipOk(q)'
  BY <1>1, SlotOfType DEF Refuse, Answer, slotVars, hist, TypeOK, ControlOk,
     EffectOk, LateOk, OwnershipOk, OwnerOk, Owned, Holds, Holding, Keyed
<1>2. ASSUME NEW r \in Requests, Resolve(r) PROVE OwnershipOk(q)'
  BY <1>2, SlotOfType DEF Resolve, Goto, slotVars, hist, TypeOK, ControlOk,
     EffectOk, LateOk, OwnershipOk, OwnerOk, Owned, Holds, Holding, Keyed
<1>3. ASSUME NEW r \in Requests, Acquire(r) PROVE OwnershipOk(q)'
  BY <1>3, SlotOfType DEF Acquire, Goto, TryAcquire, Claimable, slotVars,
     hist, TypeOK, ControlOk, EffectOk, LateOk, OwnershipOk, OwnerOk, Owned,
     Holds, Holding, Keyed
<1>4. ASSUME NEW r \in Requests, AcquireError(r) PROVE OwnershipOk(q)'
  BY <1>4, SlotOfType DEF AcquireError, Answer, slotVars, hist, TypeOK,
     ControlOk, EffectOk, LateOk, OwnershipOk, OwnerOk, Owned, Holds, Holding,
     Keyed
<1>5. ASSUME NEW r \in Requests, ReadBack(r) PROVE OwnershipOk(q)'
  BY <1>5, SlotOfType DEF ReadBack, Goto, Answer, slotVars, hist, TypeOK,
     ControlOk, EffectOk, LateOk, OwnershipOk, OwnerOk, Owned, Holds, Holding,
     Keyed
<1>6. ASSUME NEW r \in Requests, ReadBackError(r) PROVE OwnershipOk(q)'
  BY <1>6, SlotOfType DEF ReadBackError, Answer, slotVars, hist, TypeOK,
     ControlOk, EffectOk, LateOk, OwnershipOk, OwnerOk, Owned, Holds, Holding,
     Keyed
<1>7. ASSUME NEW r \in Requests, Precheck(r) PROVE OwnershipOk(q)'
  BY <1>7, SlotOfType DEF Precheck, Goto, slotVars, hist, TypeOK, ControlOk,
     EffectOk, LateOk, OwnershipOk, OwnerOk, Owned, Holds, Holding, Keyed
<1>8. ASSUME NEW r \in Requests, SkipEffect(r) PROVE OwnershipOk(q)'
  BY <1>8, SlotOfType DEF SkipEffect, Goto, slotVars, hist, TypeOK, ControlOk,
     EffectOk, LateOk, OwnershipOk, OwnerOk, Owned, Holds, Holding, Keyed
<1>9. ASSUME NEW r \in Requests, RefuseEffect(r) PROVE OwnershipOk(q)'
  BY <1>9, SlotOfType DEF RefuseEffect, Goto, slotVars, hist, TypeOK,
     ControlOk, EffectOk, LateOk, OwnershipOk, OwnerOk, Owned, Holds, Holding,
     Keyed
<1>10. ASSUME NEW r \in Requests, CountTimeout(r) PROVE OwnershipOk(q)'
  BY <1>10, SlotOfType DEF CountTimeout, Goto, slotVars, hist, TypeOK,
     ControlOk, EffectOk, LateOk, OwnershipOk, OwnerOk, Owned, Holds, Holding,
     Keyed
<1>11. ASSUME NEW r \in Requests, SubmitEffect(r) PROVE OwnershipOk(q)'
  BY <1>11, SlotOfType DEF SubmitEffect, Goto, slotVars, hist, TypeOK,
     ControlOk, EffectOk, LateOk, OwnershipOk, OwnerOk, Owned, Holds, Holding,
     Keyed
<1>12. ASSUME NEW r \in Requests, AwaitEffect(r) PROVE OwnershipOk(q)'
  BY <1>12, SlotOfType DEF AwaitEffect, Goto, slotVars, hist, TypeOK,
     ControlOk, EffectOk, LateOk, OwnershipOk, OwnerOk, Owned, Holds, Holding,
     Keyed
<1>13. ASSUME NEW r \in Requests, EffectTimeout(r) PROVE OwnershipOk(q)'
  BY <1>13, SlotOfType DEF EffectTimeout, Goto, slotVars, hist, TypeOK,
     ControlOk, EffectOk, LateOk, OwnershipOk, OwnerOk, Owned, Holds, Holding,
     Keyed
<1>14. ASSUME NEW r \in Requests, Mark(r) PROVE OwnershipOk(q)'
  <2>1. CASE ~Keyed(r)
    BY <1>14, <2>1, AfterMarkFacts DEF Mark, hist, TypeOK, ControlOk, EffectOk, LateOk, OwnershipOk, OwnerOk, Owned, Holds, Holding, Keyed
  <2>2. CASE Keyed(r)
    <3>1. SlotOf(r) \in Slots
      BY <2>2, SlotOfType
    <3>2. SlotOf(r) \notin reset => Owned(r)
      BY <1>14, <2>2 DEF Mark, OwnershipOk, Holds, Holding
    <3>3. late[r] \notin {"completed", "failed"}
      BY <1>14 DEF Mark, ControlOk, LateOk
    <3>4. owner' = owner /\ state' = [state EXCEPT ![SlotOf(r)] = IF @ = "none" THEN @ ELSE MarkOf(r)]
      BY <1>14, <2>2 DEF Mark, MarkSlot
    <3>5. CASE q = r
      <4>1. pc'[r] \notin Holding /\ late' = late /\ effect' = effect
            /\ timedOut' = timedOut /\ reset' = reset
        BY <1>14, AfterMarkFacts DEF Mark, Holding, hist, TypeOK
      <4>2. effect[r] = "landed" /\ r \notin timedOut => MarkOf(r) = "completed"
        BY <1>14 DEF Mark, MarkOf, ControlOk, EffectOk
      <4> QED
        BY <3>1, <3>2, <3>3, <3>4, <3>5, <4>1, <4>2
           DEF OwnershipOk, Owned, Holds, TypeOK
    <3>6. CASE q # r
      <4>1. pc'[q] = pc[q] /\ late' = late /\ effect' = effect
            /\ timedOut' = timedOut /\ reset' = reset
        BY <1>14, <3>6, AfterMarkFacts DEF Mark, hist, TypeOK
      <4> QED
        BY <3>1, <3>2, <3>4, <3>6, <4>1
           DEF OwnershipOk, Owned, Holds, TypeOK
    <3> QED
      BY <3>5, <3>6
  <2> QED
    BY <2>1, <2>2
<1>15. ASSUME NEW r \in Requests, MarkLost(r) PROVE OwnershipOk(q)'
  BY <1>15, AfterMarkFacts DEF MarkLost, MarkSlot, MarkOf, slotVars, hist, TypeOK, ControlOk, EffectOk, LateOk, OwnershipOk, OwnerOk, Owned, Holds, Holding, Keyed
<1>16. ASSUME NEW r \in Requests, Audit(r) PROVE OwnershipOk(q)'
  BY <1>16, SlotOfType DEF Audit, Goto, slotVars, hist, TypeOK, ControlOk,
     EffectOk, LateOk, OwnershipOk, OwnerOk, Owned, Holds, Holding, Keyed
<1>17. ASSUME NEW r \in Requests, Publish(r) PROVE OwnershipOk(q)'
  BY <1>17, SlotOfType DEF Publish, Answer, slotVars, hist, TypeOK, ControlOk,
     EffectOk, LateOk, OwnershipOk, OwnerOk, Owned, Holds, Holding, Keyed
<1>18. ASSUME NEW r \in Requests, FailAudit(r) PROVE OwnershipOk(q)'
  BY <1>18, SlotOfType DEF FailAudit, Answer, FailureResponse, slotVars, hist,
     TypeOK, ControlOk, EffectOk, LateOk, OwnershipOk, OwnerOk, Owned, Holds,
     Holding, Keyed
<1>19. ASSUME NEW r \in Requests, EffectLands(r) PROVE OwnershipOk(q)'
  BY <1>19, SlotOfType DEF EffectLands, slotVars, hist, TypeOK, ControlOk,
     EffectOk, LateOk, OwnershipOk, OwnerOk, Owned, Holds, Holding, Keyed
<1>20. ASSUME NEW r \in Requests, EffectFails(r) PROVE OwnershipOk(q)'
  BY <1>20, SlotOfType DEF EffectFails, slotVars, hist, TypeOK, ControlOk,
     EffectOk, LateOk, OwnershipOk, OwnerOk, Owned, Holds, Holding, Keyed
<1>21. ASSUME NEW r \in Requests, LateCall(r) PROVE OwnershipOk(q)'
  BY <1>21, SlotOfType DEF LateCall, TryAcquire, Claimable, MarkSlot,
     slotVars, hist, TypeOK, ControlOk, EffectOk, LateOk, OwnershipOk,
     OwnerOk, Owned, Holds, Holding, Keyed
<1>22. ASSUME NEW r \in Requests, Crash(r) PROVE OwnershipOk(q)'
  BY <1>22, SlotOfType DEF Crash, slotVars, hist, TypeOK, ControlOk, EffectOk,
     LateOk, OwnershipOk, OwnerOk, Owned, Holds, Holding, Keyed
<1>23. ASSUME NEW s \in Slots, ResetRunning(s) PROVE OwnershipOk(q)'
  BY <1>23, SlotOfType DEF ResetRunning, slotVars, hist, TypeOK, ControlOk,
     EffectOk, LateOk, OwnershipOk, OwnerOk, Owned, Holds, Holding, Keyed
<1>24. CASE UNCHANGED vars
  BY <1>24, SlotOfType DEF vars, TypeOK, ControlOk, EffectOk, LateOk,
     OwnershipOk, OwnerOk, Owned, Holds, Holding, Keyed
<1> QED
  BY <1>1, <1>2, <1>3, <1>4, <1>5, <1>6, <1>7, <1>8, <1>9, <1>10, <1>11,
     <1>12, <1>13, <1>14, <1>15, <1>16, <1>17, <1>18, <1>19, <1>20, <1>21,
     <1>22, <1>23, <1>24 DEF Next, Step

LEMMA OwnerStep ==
    ASSUME TypeOK, ControlInv, SlotInv, [Next]_vars,
           NEW t \in Slots
    PROVE  OwnerOk(t)'
<1> USE DEF ControlInv, SlotInv
<1>1. ASSUME NEW r \in Requests, Refuse(r) PROVE OwnerOk(t)'
  BY <1>1, SlotOfType DEF Refuse, Answer, slotVars, hist, TypeOK, ControlOk,
     EffectOk, LateOk, OwnershipOk, OwnerOk, Owned, Holds, Holding, Keyed
<1>2. ASSUME NEW r \in Requests, Resolve(r) PROVE OwnerOk(t)'
  BY <1>2, SlotOfType DEF Resolve, Goto, slotVars, hist, TypeOK, ControlOk,
     EffectOk, LateOk, OwnershipOk, OwnerOk, Owned, Holds, Holding, Keyed
<1>3. ASSUME NEW r \in Requests, Acquire(r) PROVE OwnerOk(t)'
  BY <1>3, SlotOfType DEF Acquire, Goto, TryAcquire, Claimable, slotVars,
     hist, TypeOK, ControlOk, EffectOk, LateOk, OwnershipOk, OwnerOk, Owned,
     Holds, Holding, Keyed
<1>4. ASSUME NEW r \in Requests, AcquireError(r) PROVE OwnerOk(t)'
  BY <1>4, SlotOfType DEF AcquireError, Answer, slotVars, hist, TypeOK,
     ControlOk, EffectOk, LateOk, OwnershipOk, OwnerOk, Owned, Holds, Holding,
     Keyed
<1>5. ASSUME NEW r \in Requests, ReadBack(r) PROVE OwnerOk(t)'
  BY <1>5, SlotOfType DEF ReadBack, Goto, Answer, slotVars, hist, TypeOK,
     ControlOk, EffectOk, LateOk, OwnershipOk, OwnerOk, Owned, Holds, Holding,
     Keyed
<1>6. ASSUME NEW r \in Requests, ReadBackError(r) PROVE OwnerOk(t)'
  BY <1>6, SlotOfType DEF ReadBackError, Answer, slotVars, hist, TypeOK,
     ControlOk, EffectOk, LateOk, OwnershipOk, OwnerOk, Owned, Holds, Holding,
     Keyed
<1>7. ASSUME NEW r \in Requests, Precheck(r) PROVE OwnerOk(t)'
  BY <1>7, SlotOfType DEF Precheck, Goto, slotVars, hist, TypeOK, ControlOk,
     EffectOk, LateOk, OwnershipOk, OwnerOk, Owned, Holds, Holding, Keyed
<1>8. ASSUME NEW r \in Requests, SkipEffect(r) PROVE OwnerOk(t)'
  BY <1>8, SlotOfType DEF SkipEffect, Goto, slotVars, hist, TypeOK, ControlOk,
     EffectOk, LateOk, OwnershipOk, OwnerOk, Owned, Holds, Holding, Keyed
<1>9. ASSUME NEW r \in Requests, RefuseEffect(r) PROVE OwnerOk(t)'
  BY <1>9, SlotOfType DEF RefuseEffect, Goto, slotVars, hist, TypeOK,
     ControlOk, EffectOk, LateOk, OwnershipOk, OwnerOk, Owned, Holds, Holding,
     Keyed
<1>10. ASSUME NEW r \in Requests, CountTimeout(r) PROVE OwnerOk(t)'
  BY <1>10, SlotOfType DEF CountTimeout, Goto, slotVars, hist, TypeOK,
     ControlOk, EffectOk, LateOk, OwnershipOk, OwnerOk, Owned, Holds, Holding,
     Keyed
<1>11. ASSUME NEW r \in Requests, SubmitEffect(r) PROVE OwnerOk(t)'
  BY <1>11, SlotOfType DEF SubmitEffect, Goto, slotVars, hist, TypeOK,
     ControlOk, EffectOk, LateOk, OwnershipOk, OwnerOk, Owned, Holds, Holding,
     Keyed
<1>12. ASSUME NEW r \in Requests, AwaitEffect(r) PROVE OwnerOk(t)'
  BY <1>12, SlotOfType DEF AwaitEffect, Goto, slotVars, hist, TypeOK,
     ControlOk, EffectOk, LateOk, OwnershipOk, OwnerOk, Owned, Holds, Holding,
     Keyed
<1>13. ASSUME NEW r \in Requests, EffectTimeout(r) PROVE OwnerOk(t)'
  BY <1>13, SlotOfType DEF EffectTimeout, Goto, slotVars, hist, TypeOK,
     ControlOk, EffectOk, LateOk, OwnershipOk, OwnerOk, Owned, Holds, Holding,
     Keyed
<1>14. ASSUME NEW r \in Requests, Mark(r) PROVE OwnerOk(t)'
  BY <1>14, AfterMarkFacts DEF Mark, MarkSlot, MarkOf, slotVars, hist, TypeOK, ControlOk, EffectOk, LateOk, OwnershipOk, OwnerOk, Owned, Holds, Holding, Keyed
<1>15. ASSUME NEW r \in Requests, MarkLost(r) PROVE OwnerOk(t)'
  BY <1>15, AfterMarkFacts DEF MarkLost, MarkSlot, MarkOf, slotVars, hist, TypeOK, ControlOk, EffectOk, LateOk, OwnershipOk, OwnerOk, Owned, Holds, Holding, Keyed
<1>16. ASSUME NEW r \in Requests, Audit(r) PROVE OwnerOk(t)'
  BY <1>16, SlotOfType DEF Audit, Goto, slotVars, hist, TypeOK, ControlOk,
     EffectOk, LateOk, OwnershipOk, OwnerOk, Owned, Holds, Holding, Keyed
<1>17. ASSUME NEW r \in Requests, Publish(r) PROVE OwnerOk(t)'
  BY <1>17, SlotOfType DEF Publish, Answer, slotVars, hist, TypeOK, ControlOk,
     EffectOk, LateOk, OwnershipOk, OwnerOk, Owned, Holds, Holding, Keyed
<1>18. ASSUME NEW r \in Requests, FailAudit(r) PROVE OwnerOk(t)'
  BY <1>18, SlotOfType DEF FailAudit, Answer, FailureResponse, slotVars, hist,
     TypeOK, ControlOk, EffectOk, LateOk, OwnershipOk, OwnerOk, Owned, Holds,
     Holding, Keyed
<1>19. ASSUME NEW r \in Requests, EffectLands(r) PROVE OwnerOk(t)'
  BY <1>19, SlotOfType DEF EffectLands, slotVars, hist, TypeOK, ControlOk,
     EffectOk, LateOk, OwnershipOk, OwnerOk, Owned, Holds, Holding, Keyed
<1>20. ASSUME NEW r \in Requests, EffectFails(r) PROVE OwnerOk(t)'
  BY <1>20, SlotOfType DEF EffectFails, slotVars, hist, TypeOK, ControlOk,
     EffectOk, LateOk, OwnershipOk, OwnerOk, Owned, Holds, Holding, Keyed
<1>21. ASSUME NEW r \in Requests, LateCall(r) PROVE OwnerOk(t)'
  BY <1>21, SlotOfType DEF LateCall, TryAcquire, Claimable, MarkSlot,
     slotVars, hist, TypeOK, ControlOk, EffectOk, LateOk, OwnershipOk,
     OwnerOk, Owned, Holds, Holding, Keyed
<1>22. ASSUME NEW r \in Requests, Crash(r) PROVE OwnerOk(t)'
  BY <1>22, SlotOfType DEF Crash, slotVars, hist, TypeOK, ControlOk, EffectOk,
     LateOk, OwnershipOk, OwnerOk, Owned, Holds, Holding, Keyed
<1>23. ASSUME NEW s \in Slots, ResetRunning(s) PROVE OwnerOk(t)'
  BY <1>23, SlotOfType DEF ResetRunning, slotVars, hist, TypeOK, ControlOk,
     EffectOk, LateOk, OwnershipOk, OwnerOk, Owned, Holds, Holding, Keyed
<1>24. CASE UNCHANGED vars
  BY <1>24, SlotOfType DEF vars, TypeOK, ControlOk, EffectOk, LateOk,
     OwnershipOk, OwnerOk, Owned, Holds, Holding, Keyed
<1> QED
  BY <1>1, <1>2, <1>3, <1>4, <1>5, <1>6, <1>7, <1>8, <1>9, <1>10, <1>11,
     <1>12, <1>13, <1>14, <1>15, <1>16, <1>17, <1>18, <1>19, <1>20, <1>21,
     <1>22, <1>23, <1>24 DEF Next, Step

\* One slot's part of CompletedIsInEffect and of NoSilentWedge.
InEffect(s) ==
    state[s] = "completed" =>
        \E r \in Requests : SlotOf(r) = s /\ effect[r] \in {"landed", "skipped"}

NotWedged(s) ==
    \A r \in Requests :
        state[s] = "running" /\ owner[s] = r
        => Holds(r) \/ pc[r] = "readback" \/ pc[r] = "dead" \/ r \in fault

\* An effect that has landed, or that nothing was needed for, stays so.
LEMMA EffectIsStable ==
    ASSUME TypeOK, ControlInv, [Next]_vars,
           NEW q \in Requests, effect[q] \in {"landed", "skipped"}
    PROVE  effect'[q] \in {"landed", "skipped"}
<1> USE DEF ControlInv
<1>1. ASSUME NEW r \in Requests, Refuse(r) PROVE effect'[q] \in {"landed", "skipped"}
  BY <1>1 DEF Refuse, Answer, slotVars, hist, TypeOK, ControlOk,
     EffectOk
<1>2. ASSUME NEW r \in Requests, Resolve(r) PROVE effect'[q] \in {"landed", "skipped"}
  BY <1>2 DEF Resolve, Goto, slotVars, hist, TypeOK, ControlOk,
     EffectOk
<1>3. ASSUME NEW r \in Requests, Acquire(r) PROVE effect'[q] \in {"landed", "skipped"}
  BY <1>3 DEF Acquire, Goto, TryAcquire, Claimable, slotVars, hist, TypeOK,
     ControlOk, EffectOk
<1>4. ASSUME NEW r \in Requests, AcquireError(r) PROVE effect'[q] \in {"landed", "skipped"}
  BY <1>4 DEF AcquireError, Answer, slotVars, hist, TypeOK, ControlOk,
     EffectOk
<1>5. ASSUME NEW r \in Requests, ReadBack(r) PROVE effect'[q] \in {"landed", "skipped"}
  BY <1>5 DEF ReadBack, Goto, Answer, slotVars, hist, TypeOK,
     ControlOk, EffectOk
<1>6. ASSUME NEW r \in Requests, ReadBackError(r) PROVE effect'[q] \in {"landed", "skipped"}
  BY <1>6 DEF ReadBackError, Answer, slotVars, hist, TypeOK,
     ControlOk, EffectOk
<1>7. ASSUME NEW r \in Requests, Precheck(r) PROVE effect'[q] \in {"landed", "skipped"}
  BY <1>7 DEF Precheck, Goto, slotVars, hist, TypeOK, ControlOk,
     EffectOk
<1>8. ASSUME NEW r \in Requests, SkipEffect(r) PROVE effect'[q] \in {"landed", "skipped"}
  BY <1>8 DEF SkipEffect, Goto, slotVars, hist, TypeOK, ControlOk,
     EffectOk
<1>9. ASSUME NEW r \in Requests, RefuseEffect(r) PROVE effect'[q] \in {"landed", "skipped"}
  BY <1>9 DEF RefuseEffect, Goto, slotVars, hist, TypeOK, ControlOk,
     EffectOk
<1>10. ASSUME NEW r \in Requests, CountTimeout(r) PROVE effect'[q] \in {"landed", "skipped"}
  BY <1>10 DEF CountTimeout, Goto, slotVars, hist, TypeOK, ControlOk,
     EffectOk
<1>11. ASSUME NEW r \in Requests, SubmitEffect(r) PROVE effect'[q] \in {"landed", "skipped"}
  BY <1>11 DEF SubmitEffect, Goto, slotVars, hist, TypeOK, ControlOk,
     EffectOk
<1>12. ASSUME NEW r \in Requests, AwaitEffect(r) PROVE effect'[q] \in {"landed", "skipped"}
  BY <1>12 DEF AwaitEffect, Goto, slotVars, hist, TypeOK, ControlOk,
     EffectOk
<1>13. ASSUME NEW r \in Requests, EffectTimeout(r) PROVE effect'[q] \in {"landed", "skipped"}
  BY <1>13 DEF EffectTimeout, Goto, slotVars, hist, TypeOK, ControlOk,
     EffectOk
<1>14. ASSUME NEW r \in Requests, Mark(r) PROVE effect'[q] \in {"landed", "skipped"}
  BY <1>14 DEF Mark, MarkSlot, MarkOf, slotVars, hist, TypeOK,
     ControlOk, EffectOk
<1>15. ASSUME NEW r \in Requests, MarkLost(r) PROVE effect'[q] \in {"landed", "skipped"}
  BY <1>15 DEF MarkLost, MarkOf, slotVars, hist, TypeOK, ControlOk,
     EffectOk
<1>16. ASSUME NEW r \in Requests, Audit(r) PROVE effect'[q] \in {"landed", "skipped"}
  BY <1>16 DEF Audit, Goto, slotVars, hist, TypeOK, ControlOk,
     EffectOk
<1>17. ASSUME NEW r \in Requests, Publish(r) PROVE effect'[q] \in {"landed", "skipped"}
  BY <1>17 DEF Publish, Answer, slotVars, hist, TypeOK, ControlOk,
     EffectOk
<1>18. ASSUME NEW r \in Requests, FailAudit(r) PROVE effect'[q] \in {"landed", "skipped"}
  BY <1>18 DEF FailAudit, Answer, FailureResponse, slotVars, hist, TypeOK,
     ControlOk, EffectOk
<1>19. ASSUME NEW r \in Requests, EffectLands(r) PROVE effect'[q] \in {"landed", "skipped"}
  BY <1>19 DEF EffectLands, slotVars, hist, TypeOK, ControlOk,
     EffectOk
<1>20. ASSUME NEW r \in Requests, EffectFails(r) PROVE effect'[q] \in {"landed", "skipped"}
  BY <1>20 DEF EffectFails, slotVars, hist, TypeOK, ControlOk,
     EffectOk
<1>21. ASSUME NEW r \in Requests, LateCall(r) PROVE effect'[q] \in {"landed", "skipped"}
  BY <1>21 DEF LateCall, TryAcquire, Claimable, MarkSlot, slotVars, hist,
     TypeOK, ControlOk, EffectOk
<1>22. ASSUME NEW r \in Requests, Crash(r) PROVE effect'[q] \in {"landed", "skipped"}
  BY <1>22 DEF Crash, slotVars, hist, TypeOK, ControlOk, EffectOk
<1>23. ASSUME NEW s \in Slots, ResetRunning(s) PROVE effect'[q] \in {"landed", "skipped"}
  BY <1>23 DEF ResetRunning, slotVars, hist, TypeOK, ControlOk,
     EffectOk
<1>24. CASE UNCHANGED vars
  BY <1>24 DEF vars, TypeOK, ControlOk, EffectOk
<1> QED
  BY <1>1, <1>2, <1>3, <1>4, <1>5, <1>6, <1>7, <1>8, <1>9, <1>10, <1>11,
     <1>12, <1>13, <1>14, <1>15, <1>16, <1>17, <1>18, <1>19, <1>20, <1>21,
     <1>22, <1>23, <1>24 DEF Next, Step

\* Every action keeps a completed slot backed by an effect.
LEMMA InEffectStep ==
    ASSUME TypeOK, ControlInv, SlotInv, [Next]_vars,
           NEW t \in Slots, InEffect(t)
    PROVE  InEffect(t)'
<1> USE DEF ControlInv, SlotInv
<1>1. ASSUME NEW r \in Requests, Refuse(r) PROVE InEffect(t)'
  BY <1>1, EffectIsStable DEF Refuse, slotVars, hist, InEffect
<1>2. ASSUME NEW r \in Requests, Resolve(r) PROVE InEffect(t)'
  BY <1>2, EffectIsStable DEF Resolve, slotVars, hist, InEffect
<1>3. ASSUME NEW r \in Requests, Acquire(r) PROVE InEffect(t)'
  BY <1>3, EffectIsStable DEF Acquire, TryAcquire, TypeOK, InEffect
<1>4. ASSUME NEW r \in Requests, AcquireError(r) PROVE InEffect(t)'
  BY <1>4, EffectIsStable DEF AcquireError, slotVars, hist, InEffect
<1>5. ASSUME NEW r \in Requests, ReadBack(r) PROVE InEffect(t)'
  BY <1>5, EffectIsStable DEF ReadBack, slotVars, hist, InEffect
<1>6. ASSUME NEW r \in Requests, ReadBackError(r) PROVE InEffect(t)'
  BY <1>6, EffectIsStable DEF ReadBackError, slotVars, hist, InEffect
<1>7. ASSUME NEW r \in Requests, Precheck(r) PROVE InEffect(t)'
  BY <1>7, EffectIsStable DEF Precheck, slotVars, hist, InEffect
<1>8. ASSUME NEW r \in Requests, SkipEffect(r) PROVE InEffect(t)'
  BY <1>8, EffectIsStable DEF SkipEffect, slotVars, hist, InEffect
<1>9. ASSUME NEW r \in Requests, RefuseEffect(r) PROVE InEffect(t)'
  BY <1>9, EffectIsStable DEF RefuseEffect, slotVars, hist, InEffect
<1>10. ASSUME NEW r \in Requests, CountTimeout(r) PROVE InEffect(t)'
  BY <1>10, EffectIsStable DEF CountTimeout, slotVars, hist, InEffect
<1>11. ASSUME NEW r \in Requests, SubmitEffect(r) PROVE InEffect(t)'
  BY <1>11, EffectIsStable DEF SubmitEffect, slotVars, hist, InEffect
<1>12. ASSUME NEW r \in Requests, AwaitEffect(r) PROVE InEffect(t)'
  BY <1>12, EffectIsStable DEF AwaitEffect, slotVars, hist, InEffect
<1>13. ASSUME NEW r \in Requests, EffectTimeout(r) PROVE InEffect(t)'
  BY <1>13, EffectIsStable DEF EffectTimeout, slotVars, hist, InEffect
<1>14. ASSUME NEW r \in Requests, Mark(r) PROVE InEffect(t)'
  <2>1. CASE Keyed(r) /\ SlotOf(r) = t /\ pc[r] = "complete_mark"
    <3>1. effect[r] \in {"landed", "skipped"}
      BY <2>1 DEF ControlOk, EffectOk
    <3>2. effect'[r] \in {"landed", "skipped"}
      BY <3>1, EffectIsStable
    <3> QED
      BY <2>1, <3>2 DEF InEffect
  <2>2. CASE ~(Keyed(r) /\ SlotOf(r) = t /\ pc[r] = "complete_mark")
    <3>1. state'[t] = "completed" => state[t] = "completed"
      BY <1>14, <2>2 DEF Mark, MarkSlot, MarkOf, TypeOK
    <3> QED
      BY <3>1, EffectIsStable DEF InEffect
  <2> QED
    BY <2>1, <2>2
<1>15. ASSUME NEW r \in Requests, MarkLost(r) PROVE InEffect(t)'
  BY <1>15, EffectIsStable DEF MarkLost, slotVars, hist, InEffect
<1>16. ASSUME NEW r \in Requests, Audit(r) PROVE InEffect(t)'
  BY <1>16, EffectIsStable DEF Audit, slotVars, hist, InEffect
<1>17. ASSUME NEW r \in Requests, Publish(r) PROVE InEffect(t)'
  BY <1>17, EffectIsStable DEF Publish, slotVars, hist, InEffect
<1>18. ASSUME NEW r \in Requests, FailAudit(r) PROVE InEffect(t)'
  BY <1>18, EffectIsStable DEF FailAudit, slotVars, hist, InEffect
<1>19. ASSUME NEW r \in Requests, EffectLands(r) PROVE InEffect(t)'
  BY <1>19, EffectIsStable DEF EffectLands, slotVars, hist, InEffect
<1>20. ASSUME NEW r \in Requests, EffectFails(r) PROVE InEffect(t)'
  BY <1>20, EffectIsStable DEF EffectFails, slotVars, hist, InEffect
<1>21. ASSUME NEW r \in Requests, LateCall(r) PROVE InEffect(t)'
  <2>1. CASE SlotOf(r) = t /\ late[r] = "completed"
    <3>1. effect[r] \in {"landed", "skipped"}
      BY <2>1 DEF ControlOk, LateOk
    <3>2. effect'[r] \in {"landed", "skipped"}
      BY <3>1, EffectIsStable
    <3> QED
      BY <2>1, <3>2 DEF InEffect
  <2>2. CASE ~(SlotOf(r) = t /\ late[r] = "completed")
    <3>1. state'[t] = "completed" => state[t] = "completed"
      BY <1>21, <2>2 DEF LateCall, TryAcquire, MarkSlot, TypeOK
    <3> QED
      BY <3>1, EffectIsStable DEF InEffect
  <2> QED
    BY <2>1, <2>2
<1>22. ASSUME NEW r \in Requests, Crash(r) PROVE InEffect(t)'
  BY <1>22, EffectIsStable DEF Crash, slotVars, hist, InEffect
<1>23. ASSUME NEW s \in Slots, ResetRunning(s) PROVE InEffect(t)'
  BY <1>23, EffectIsStable DEF ResetRunning, TypeOK, InEffect
<1>24. CASE UNCHANGED vars
  BY <1>24 DEF vars, TypeOK, InEffect
<1> QED
  BY <1>1, <1>2, <1>3, <1>4, <1>5, <1>6, <1>7, <1>8, <1>9, <1>10, <1>11,
     <1>12, <1>13, <1>14, <1>15, <1>16, <1>17, <1>18, <1>19, <1>20, <1>21,
     <1>22, <1>23, <1>24 DEF Next, Step

\* Every action keeps a running slot accounted for.
LEMMA NotWedgedStep ==
    ASSUME TypeOK, ControlInv, SlotInv, [Next]_vars,
           NEW t \in Slots, NotWedged(t)
    PROVE  NotWedged(t)'
<1> USE DEF ControlInv, SlotInv
<1>1. ASSUME NEW r \in Requests, Refuse(r) PROVE NotWedged(t)'
  BY <1>1, SlotOfType DEF Refuse, Answer, slotVars, hist, TypeOK, NotWedged,
     Holds, Holding, Keyed, OwnerOk, ControlOk, LateOk
<1>2. ASSUME NEW r \in Requests, Resolve(r) PROVE NotWedged(t)'
  BY <1>2, SlotOfType DEF Resolve, Goto, slotVars, hist, TypeOK, NotWedged,
     Holds, Holding, Keyed, OwnerOk, ControlOk, LateOk
<1>3. ASSUME NEW r \in Requests, Acquire(r) PROVE NotWedged(t)'
  BY <1>3, SlotOfType DEF Acquire, Goto, TryAcquire, Claimable, slotVars,
     hist, TypeOK, NotWedged, Holds, Holding, Keyed, OwnerOk, ControlOk,
     LateOk
<1>4. ASSUME NEW r \in Requests, AcquireError(r) PROVE NotWedged(t)'
  BY <1>4, SlotOfType DEF AcquireError, Answer, slotVars, hist, TypeOK,
     NotWedged, Holds, Holding, Keyed, OwnerOk, ControlOk, LateOk
<1>5. ASSUME NEW r \in Requests, ReadBack(r) PROVE NotWedged(t)'
  BY <1>5, SlotOfType DEF ReadBack, Goto, Answer, slotVars, hist, TypeOK,
     NotWedged, Holds, Holding, Keyed, OwnerOk, ControlOk, LateOk
<1>6. ASSUME NEW r \in Requests, ReadBackError(r) PROVE NotWedged(t)'
  BY <1>6, SlotOfType DEF ReadBackError, Answer, slotVars, hist, TypeOK,
     NotWedged, Holds, Holding, Keyed, OwnerOk, ControlOk, LateOk
<1>7. ASSUME NEW r \in Requests, Precheck(r) PROVE NotWedged(t)'
  BY <1>7, SlotOfType DEF Precheck, Goto, slotVars, hist, TypeOK, NotWedged,
     Holds, Holding, Keyed, OwnerOk, ControlOk, LateOk
<1>8. ASSUME NEW r \in Requests, SkipEffect(r) PROVE NotWedged(t)'
  BY <1>8, SlotOfType DEF SkipEffect, Goto, slotVars, hist, TypeOK, NotWedged,
     Holds, Holding, Keyed, OwnerOk, ControlOk, LateOk
<1>9. ASSUME NEW r \in Requests, RefuseEffect(r) PROVE NotWedged(t)'
  BY <1>9, SlotOfType DEF RefuseEffect, Goto, slotVars, hist, TypeOK,
     NotWedged, Holds, Holding, Keyed, OwnerOk, ControlOk, LateOk
<1>10. ASSUME NEW r \in Requests, CountTimeout(r) PROVE NotWedged(t)'
  BY <1>10, SlotOfType DEF CountTimeout, Goto, slotVars, hist, TypeOK,
     NotWedged, Holds, Holding, Keyed, OwnerOk, ControlOk, LateOk
<1>11. ASSUME NEW r \in Requests, SubmitEffect(r) PROVE NotWedged(t)'
  BY <1>11, SlotOfType DEF SubmitEffect, Goto, slotVars, hist, TypeOK,
     NotWedged, Holds, Holding, Keyed, OwnerOk, ControlOk, LateOk
<1>12. ASSUME NEW r \in Requests, AwaitEffect(r) PROVE NotWedged(t)'
  BY <1>12, SlotOfType DEF AwaitEffect, Goto, slotVars, hist, TypeOK,
     NotWedged, Holds, Holding, Keyed, OwnerOk, ControlOk, LateOk
<1>13. ASSUME NEW r \in Requests, EffectTimeout(r) PROVE NotWedged(t)'
  BY <1>13, SlotOfType DEF EffectTimeout, Goto, slotVars, hist, TypeOK,
     NotWedged, Holds, Holding, Keyed, OwnerOk, ControlOk, LateOk
<1>14. ASSUME NEW r \in Requests, Mark(r) PROVE NotWedged(t)'
  BY <1>14, AfterMarkFacts, SlotOfType DEF Mark, MarkSlot, MarkOf, slotVars, hist, ControlOk, LateOk, TypeOK, NotWedged, Holds, Holding, Keyed, OwnerOk
<1>15. ASSUME NEW r \in Requests, MarkLost(r) PROVE NotWedged(t)'
  BY <1>15, AfterMarkFacts, SlotOfType DEF MarkLost, MarkSlot, MarkOf, slotVars, hist, ControlOk, LateOk, TypeOK, NotWedged, Holds, Holding, Keyed, OwnerOk
<1>16. ASSUME NEW r \in Requests, Audit(r) PROVE NotWedged(t)'
  BY <1>16, SlotOfType DEF Audit, Goto, slotVars, hist, TypeOK, NotWedged,
     Holds, Holding, Keyed, OwnerOk, ControlOk, LateOk
<1>17. ASSUME NEW r \in Requests, Publish(r) PROVE NotWedged(t)'
  BY <1>17, SlotOfType DEF Publish, Answer, slotVars, hist, TypeOK, NotWedged,
     Holds, Holding, Keyed, OwnerOk, ControlOk, LateOk
<1>18. ASSUME NEW r \in Requests, FailAudit(r) PROVE NotWedged(t)'
  BY <1>18, SlotOfType DEF FailAudit, Answer, FailureResponse, slotVars, hist,
     TypeOK, NotWedged, Holds, Holding, Keyed, OwnerOk, ControlOk, LateOk
<1>19. ASSUME NEW r \in Requests, EffectLands(r) PROVE NotWedged(t)'
  BY <1>19, SlotOfType DEF EffectLands, slotVars, hist, TypeOK, NotWedged,
     Holds, Holding, Keyed, OwnerOk, ControlOk, LateOk
<1>20. ASSUME NEW r \in Requests, EffectFails(r) PROVE NotWedged(t)'
  BY <1>20, SlotOfType DEF EffectFails, slotVars, hist, TypeOK, NotWedged,
     Holds, Holding, Keyed, OwnerOk, ControlOk, LateOk
<1>21. ASSUME NEW r \in Requests, LateCall(r) PROVE NotWedged(t)'
  BY <1>21, SlotOfType DEF LateCall, TryAcquire, Claimable, MarkSlot,
     slotVars, hist, TypeOK, NotWedged, Holds, Holding, Keyed, OwnerOk,
     ControlOk, LateOk
<1>22. ASSUME NEW r \in Requests, Crash(r) PROVE NotWedged(t)'
  BY <1>22, SlotOfType DEF Crash, slotVars, hist, TypeOK, NotWedged, Holds,
     Holding, Keyed, OwnerOk, ControlOk, LateOk
<1>23. ASSUME NEW s \in Slots, ResetRunning(s) PROVE NotWedged(t)'
  BY <1>23, SlotOfType DEF ResetRunning, slotVars, hist, TypeOK, NotWedged,
     Holds, Holding, Keyed, OwnerOk, ControlOk, LateOk
<1>24. CASE UNCHANGED vars
  BY <1>24, SlotOfType DEF vars, TypeOK, NotWedged, Holds, Holding, Keyed,
     OwnerOk, ControlOk, LateOk
<1> QED
  BY <1>1, <1>2, <1>3, <1>4, <1>5, <1>6, <1>7, <1>8, <1>9, <1>10, <1>11,
     <1>12, <1>13, <1>14, <1>15, <1>16, <1>17, <1>18, <1>19, <1>20, <1>21,
     <1>22, <1>23, <1>24 DEF Next, Step

SafetyInv == TypeOK /\ ControlInv /\ SlotInv /\ CompletedIsInEffect /\ NoSilentWedge

LEMMA SafetyInit == Init => SafetyInv
<1> SUFFICES ASSUME Init PROVE SafetyInv
  OBVIOUS
<1>1. TypeOK
  BY DEF Init, TypeOK, Pcs, Responses, Lifecycle
<1>2. ControlInv
  BY DEF Init, ControlInv, ControlOk, EffectOk, LateOk, AnswerOk
<1>3. SlotInv
  BY DEF Init, SlotInv, OwnershipOk, OwnerOk, Owned, Holds, Holding
<1>4. CompletedIsInEffect /\ NoSilentWedge
  BY DEF Init, CompletedIsInEffect, NoSilentWedge
<1> QED
  BY <1>1, <1>2, <1>3, <1>4 DEF SafetyInv

LEMMA SafetyStep == SafetyInv /\ [Next]_vars => SafetyInv'
<1> SUFFICES ASSUME SafetyInv, [Next]_vars PROVE SafetyInv'
  OBVIOUS
<1> USE DEF SafetyInv
<1>1. TypeOK'
  BY TypeStep
<1>2. ControlInv'
  BY ControlStep DEF ControlInv
<1>3. SlotInv'
  BY OwnershipStep, OwnerStep DEF SlotInv
<1>4. CompletedIsInEffect'
  <2>1. \A t \in Slots : InEffect(t)
    BY DEF CompletedIsInEffect, InEffect
  <2>2. \A t \in Slots : InEffect(t)'
    BY <2>1, InEffectStep
  <2> QED
    BY <2>2 DEF CompletedIsInEffect, InEffect
<1>5. NoSilentWedge'
  <2>1. \A t \in Slots : NotWedged(t)
    BY DEF NoSilentWedge, NotWedged
  <2>2. \A t \in Slots : NotWedged(t)'
    BY <2>1, NotWedgedStep
  <2> QED
    BY <2>2 DEF NoSilentWedge, NotWedged
<1> QED
  BY <1>1, <1>2, <1>3, <1>4, <1>5

\* The middleware keeps its types and the inductive invariant in every state.
THEOREM Safety == Spec => []SafetyInv
  BY SafetyInit, SafetyStep, PTL DEF Spec

\* Every variable of the middleware keeps its type.
THEOREM TypeCorrect == Spec => []TypeOK
<1>1. SafetyInv => TypeOK
  BY DEF SafetyInv
<1> QED
  BY <1>1, Safety, PTL

\* execute_action: at most one request executes on a slot that was never reset.
THEOREM Exclusion == Spec => []OneExecutorPerSlot
<1>1. SafetyInv => OneExecutorPerSlot
  BY SlotOfType DEF SafetyInv, SlotInv, OwnershipOk, Owned, OneExecutorPerSlot
<1> QED
  BY <1>1, Safety, PTL

\* Only the thread itself makes an effect land; histories only grow.
LEMMA LandingSteps ==
    ASSUME TypeOK, [Next]_vars, NEW q \in Requests, effect'[q] = "landed"
    PROVE  /\ effect[q] = "landed" \/ EffectLands(q)
           /\ timedOut \subseteq timedOut' /\ reset \subseteq reset'
<1> DEFINE G == /\ effect[q] = "landed" \/ EffectLands(q)
               /\ timedOut \subseteq timedOut' /\ reset \subseteq reset'
<1>1. ASSUME NEW r \in Requests, Refuse(r) PROVE G
  BY <1>1 DEF Refuse, Answer, slotVars, hist, TypeOK
<1>2. ASSUME NEW r \in Requests, Resolve(r) PROVE G
  BY <1>2 DEF Resolve, Goto, slotVars, hist, TypeOK
<1>3. ASSUME NEW r \in Requests, Acquire(r) PROVE G
  BY <1>3 DEF Acquire, Goto, TryAcquire, Claimable, slotVars, hist, TypeOK
<1>4. ASSUME NEW r \in Requests, AcquireError(r) PROVE G
  BY <1>4 DEF AcquireError, Answer, slotVars, hist, TypeOK
<1>5. ASSUME NEW r \in Requests, ReadBack(r) PROVE G
  BY <1>5 DEF ReadBack, Goto, Answer, slotVars, hist, TypeOK
<1>6. ASSUME NEW r \in Requests, ReadBackError(r) PROVE G
  BY <1>6 DEF ReadBackError, Answer, slotVars, hist, TypeOK
<1>7. ASSUME NEW r \in Requests, Precheck(r) PROVE G
  BY <1>7 DEF Precheck, Goto, slotVars, hist, TypeOK
<1>8. ASSUME NEW r \in Requests, SkipEffect(r) PROVE G
  BY <1>8 DEF SkipEffect, Goto, slotVars, hist, TypeOK
<1>9. ASSUME NEW r \in Requests, RefuseEffect(r) PROVE G
  BY <1>9 DEF RefuseEffect, Goto, slotVars, hist, TypeOK
<1>10. ASSUME NEW r \in Requests, CountTimeout(r) PROVE G
  BY <1>10 DEF CountTimeout, Goto, slotVars, hist, TypeOK
<1>11. ASSUME NEW r \in Requests, SubmitEffect(r) PROVE G
  BY <1>11 DEF SubmitEffect, Goto, slotVars, hist, TypeOK
<1>12. ASSUME NEW r \in Requests, AwaitEffect(r) PROVE G
  BY <1>12 DEF AwaitEffect, Goto, slotVars, hist, TypeOK
<1>13. ASSUME NEW r \in Requests, EffectTimeout(r) PROVE G
  BY <1>13 DEF EffectTimeout, Goto, slotVars, hist, TypeOK
<1>14. ASSUME NEW r \in Requests, Mark(r) PROVE G
  BY <1>14 DEF Mark, MarkSlot, MarkOf, slotVars, hist, TypeOK
<1>15. ASSUME NEW r \in Requests, MarkLost(r) PROVE G
  BY <1>15 DEF MarkLost, MarkOf, slotVars, hist, TypeOK
<1>16. ASSUME NEW r \in Requests, Audit(r) PROVE G
  BY <1>16 DEF Audit, Goto, slotVars, hist, TypeOK
<1>17. ASSUME NEW r \in Requests, Publish(r) PROVE G
  BY <1>17 DEF Publish, Answer, slotVars, hist, TypeOK
<1>18. ASSUME NEW r \in Requests, FailAudit(r) PROVE G
  BY <1>18 DEF FailAudit, Answer, FailureResponse, slotVars, hist, TypeOK
<1>19. ASSUME NEW r \in Requests, EffectLands(r) PROVE G
  BY <1>19 DEF EffectLands, slotVars, hist, TypeOK
<1>20. ASSUME NEW r \in Requests, EffectFails(r) PROVE G
  BY <1>20 DEF EffectFails, slotVars, hist, TypeOK
<1>21. ASSUME NEW r \in Requests, LateCall(r) PROVE G
  BY <1>21 DEF LateCall, TryAcquire, Claimable, MarkSlot, slotVars, hist,
     TypeOK
<1>22. ASSUME NEW r \in Requests, Crash(r) PROVE G
  BY <1>22 DEF Crash, slotVars, hist, TypeOK
<1>23. ASSUME NEW s \in Slots, ResetRunning(s) PROVE G
  BY <1>23 DEF ResetRunning, slotVars, hist, TypeOK
<1>24. CASE UNCHANGED vars
  BY <1>24 DEF vars, TypeOK
<1> QED
  BY <1>1, <1>2, <1>3, <1>4, <1>5, <1>6, <1>7, <1>8, <1>9, <1>10, <1>11,
     <1>12, <1>13, <1>14, <1>15, <1>16, <1>17, <1>18, <1>19, <1>20, <1>21,
     <1>22, <1>23, <1>24 DEF Next, Step

\* A write lands while its request owns the slot, so no other write of the slot
\* that did not time out has landed before it.
LEMMA NoDoubleWriteStep ==
    SafetyInv /\ NoDoubleWrite /\ [Next]_vars => NoDoubleWrite'
<1> SUFFICES ASSUME SafetyInv, NoDoubleWrite, [Next]_vars,
                    NEW r \in Requests, NEW q \in Requests,
                    Keyed(r), SlotOf(r) = SlotOf(q),
                    effect'[r] = "landed", effect'[q] = "landed",
                    {r, q} \cap timedOut' = {}, SlotOf(r) \notin reset'
             PROVE  r = q
  BY DEF NoDoubleWrite, Keyed, SlotOf
<1> USE DEF SafetyInv
<1>1. r \notin timedOut /\ q \notin timedOut /\ SlotOf(r) \notin reset
  BY LandingSteps
<1>2. \A x \in {r, q} : EffectLands(x) => Owned(x)
  BY <1>1 DEF EffectLands, ControlInv, ControlOk, EffectOk, SlotInv, OwnershipOk,
              Holds, Holding, Keyed
<1>3. \A x \in {r, q} : effect[x] = "landed" => Owned(x) \/ state[SlotOf(x)] = "completed"
  BY <1>1 DEF SlotInv, OwnershipOk, Keyed
<1>4. CASE effect[r] = "landed" /\ effect[q] = "landed"
  BY <1>1, <1>4 DEF NoDoubleWrite
<1>5. CASE EffectLands(r) \/ EffectLands(q)
  <2>1. PICK x \in {r, q} : EffectLands(x)
    BY <1>5
  <2>2. ASSUME NEW y \in {r, q}, y # x PROVE FALSE
    <3>1. Owned(x)
      BY <2>1, <1>2
    <3>2. EffectLands(y) \/ effect[y] = "landed"
      BY LandingSteps
    <3>3. Owned(y) \/ state[SlotOf(y)] = "completed"
      BY <3>2, <1>2, <1>3
    <3> QED
      BY <2>2, <3>1, <3>3 DEF Owned
  <2> QED
    BY <2>2
<1> QED
  BY <1>4, <1>5, LandingSteps

\* execute_action: without a timeout or a reset, at most one write of a slot
\* reaches storage, whatever crashes, lost marks and late calls occur.
THEOREM WriteOnce == Spec => []NoDoubleWrite
<1>1. Init => NoDoubleWrite
  BY DEF Init, NoDoubleWrite
<1> QED
  BY <1>1, NoDoubleWriteStep, Safety, PTL DEF Spec

\* IdempotencyStore: a completed slot is backed by an effect.
THEOREM CompletedBacked == Spec => []CompletedIsInEffect
<1>1. SafetyInv => CompletedIsInEffect
  BY DEF SafetyInv
<1> QED
  BY <1>1, Safety, PTL

\* execute_action: a client that is told no has written nothing and never will.
THEOREM NegativeAnswers == Spec => []NegativeAnswerMeansNoWrite
<1>1. SafetyInv => NegativeAnswerMeansNoWrite
  BY DEF SafetyInv, ControlInv, ControlOk, AnswerOk, NegativeAnswerMeansNoWrite
<1> QED
  BY <1>1, Safety, PTL

\* execute_action: only a dead worker or a failed database call leaves a slot
\* running behind a request that is over.
THEOREM NoWedge == Spec => []NoSilentWedge
<1>1. SafetyInv => NoSilentWedge
  BY DEF SafetyInv
<1> QED
  BY <1>1, Safety, PTL

\* A mark leaves a completed slot completed: its request owns a running slot.
LEMMA CompletedStays ==
    ASSUME SafetyInv, [Next]_vars, NEW t \in Slots, t \notin reset', state[t] = "completed"
    PROVE  state'[t] = "completed"
<1> USE DEF SafetyInv, ControlInv, SlotInv
<1>1. ASSUME NEW r \in Requests, Refuse(r) PROVE state'[t] = "completed"
  BY <1>1, SlotOfType DEF Refuse, Answer, slotVars, hist, TypeOK
<1>2. ASSUME NEW r \in Requests, Resolve(r) PROVE state'[t] = "completed"
  BY <1>2, SlotOfType DEF Resolve, Goto, slotVars, hist, TypeOK
<1>3. ASSUME NEW r \in Requests, Acquire(r) PROVE state'[t] = "completed"
  BY <1>3, SlotOfType DEF Acquire, Goto, TryAcquire, Claimable, slotVars,
     hist, TypeOK
<1>4. ASSUME NEW r \in Requests, AcquireError(r) PROVE state'[t] = "completed"
  BY <1>4, SlotOfType DEF AcquireError, Answer, slotVars, hist, TypeOK
<1>5. ASSUME NEW r \in Requests, ReadBack(r) PROVE state'[t] = "completed"
  BY <1>5, SlotOfType DEF ReadBack, Goto, Answer, slotVars, hist, TypeOK
<1>6. ASSUME NEW r \in Requests, ReadBackError(r) PROVE state'[t] = "completed"
  BY <1>6, SlotOfType DEF ReadBackError, Answer, slotVars, hist, TypeOK
<1>7. ASSUME NEW r \in Requests, Precheck(r) PROVE state'[t] = "completed"
  BY <1>7, SlotOfType DEF Precheck, Goto, slotVars, hist, TypeOK
<1>8. ASSUME NEW r \in Requests, SkipEffect(r) PROVE state'[t] = "completed"
  BY <1>8, SlotOfType DEF SkipEffect, Goto, slotVars, hist, TypeOK
<1>9. ASSUME NEW r \in Requests, RefuseEffect(r) PROVE state'[t] = "completed"
  BY <1>9, SlotOfType DEF RefuseEffect, Goto, slotVars, hist, TypeOK
<1>10. ASSUME NEW r \in Requests, CountTimeout(r) PROVE state'[t] = "completed"
  BY <1>10, SlotOfType DEF CountTimeout, Goto, slotVars, hist, TypeOK
<1>11. ASSUME NEW r \in Requests, SubmitEffect(r) PROVE state'[t] = "completed"
  BY <1>11, SlotOfType DEF SubmitEffect, Goto, slotVars, hist, TypeOK
<1>12. ASSUME NEW r \in Requests, AwaitEffect(r) PROVE state'[t] = "completed"
  BY <1>12, SlotOfType DEF AwaitEffect, Goto, slotVars, hist, TypeOK
<1>13. ASSUME NEW r \in Requests, EffectTimeout(r) PROVE state'[t] = "completed"
  BY <1>13, SlotOfType DEF EffectTimeout, Goto, slotVars, hist, TypeOK
<1>14. ASSUME NEW r \in Requests, Mark(r) PROVE state'[t] = "completed"
  <2>1. Keyed(r) /\ SlotOf(r) = t => Owned(r)
    BY <1>14 DEF Mark, OwnershipOk, Holds, Holding, hist
  <2> QED
    BY <1>14, <2>1 DEF Mark, MarkSlot, Owned, TypeOK
<1>15. ASSUME NEW r \in Requests, MarkLost(r) PROVE state'[t] = "completed"
  BY <1>15, SlotOfType DEF MarkLost, MarkOf, slotVars, hist, TypeOK
<1>16. ASSUME NEW r \in Requests, Audit(r) PROVE state'[t] = "completed"
  BY <1>16, SlotOfType DEF Audit, Goto, slotVars, hist, TypeOK
<1>17. ASSUME NEW r \in Requests, Publish(r) PROVE state'[t] = "completed"
  BY <1>17, SlotOfType DEF Publish, Answer, slotVars, hist, TypeOK
<1>18. ASSUME NEW r \in Requests, FailAudit(r) PROVE state'[t] = "completed"
  BY <1>18, SlotOfType DEF FailAudit, Answer, FailureResponse, slotVars, hist,
     TypeOK
<1>19. ASSUME NEW r \in Requests, EffectLands(r) PROVE state'[t] = "completed"
  BY <1>19, SlotOfType DEF EffectLands, slotVars, hist, TypeOK
<1>20. ASSUME NEW r \in Requests, EffectFails(r) PROVE state'[t] = "completed"
  BY <1>20, SlotOfType DEF EffectFails, slotVars, hist, TypeOK
<1>21. ASSUME NEW r \in Requests, LateCall(r) PROVE state'[t] = "completed"
  <2>1. late[r] # "acquire" /\ SlotOf(r) = t => Owned(r)
    BY <1>21 DEF LateCall, OwnershipOk, hist, TypeOK
  <2> QED
    BY <1>21, <2>1 DEF LateCall, TryAcquire, Claimable, MarkSlot, Owned, TypeOK
<1>22. ASSUME NEW r \in Requests, Crash(r) PROVE state'[t] = "completed"
  BY <1>22, SlotOfType DEF Crash, slotVars, hist, TypeOK
<1>23. ASSUME NEW s \in Slots, ResetRunning(s) PROVE state'[t] = "completed"
  BY <1>23, SlotOfType DEF ResetRunning, slotVars, hist, TypeOK
<1>24. CASE UNCHANGED vars
  BY <1>24, SlotOfType DEF vars, TypeOK
<1> QED
  BY <1>1, <1>2, <1>3, <1>4, <1>5, <1>6, <1>7, <1>8, <1>9, <1>10, <1>11,
     <1>12, <1>13, <1>14, <1>15, <1>16, <1>17, <1>18, <1>19, <1>20, <1>21,
     <1>22, <1>23, <1>24 DEF Next, Step

\* IdempotencyStore.mark checks neither owner nor state, and yet a completed
\* slot that was never reset stays completed.
THEOREM CompletedFinal == Spec => CompletedIsFinal
<1>1. SafetyInv /\ [Next]_vars
      => [\A s \in Slots \ reset' : state[s] = "completed" => state'[s] = "completed"]_vars
  BY CompletedStays
<1> QED
  BY <1>1, Safety, PTL DEF Spec, CompletedIsFinal

\* execute_action consults the slot before the preconditions, so the replay of
\* an action that is in effect is never refused by its own effect.
THEOREM ReplayNotRefused == Spec => ReplayIsNotRefused
<1> DEFINE A == \A r, q \in Requests :
                   /\ pc[r] = "precheck" /\ pc'[r] = "refuse_mark"
                   /\ Keyed(r) /\ SlotOf(q) = SlotOf(r) /\ SlotOf(r) \notin reset
                   => effect[q] # "landed" \/ q \in timedOut
<1>1. SafetyInv => A
  BY DEF SafetyInv, ControlInv, ControlOk, EffectOk, SlotInv, OwnershipOk, Owned,
         Holds, Holding, Keyed
<1>2. SafetyInv => [A]_vars
  BY <1>1
<1> QED
  BY <1>2, Safety, PTL DEF Spec, ReplayIsNotRefused

============================================================================
