------------------------ MODULE ExecuteOnce_proofs ------------------------
(***************************************************************************)
(* The middleware implements ExecuteOnce, for any set of requests, slots   *)
(* and objects: initial states map to initial states, and under the        *)
(* invariant of ActionIdempotency_proofs every action maps to a step of    *)
(* ExecuteOnce or to a stutter.                                            *)
(***************************************************************************)
EXTENDS ActionIdempotency_proofs

----------------------------------------------------------------------------
(* What a step leaves of the mapped variables *)

LEMMA SameSlots ==
    ASSUME UNCHANGED <<state, owner>>
    PROVE  UNCHANGED <<OnceSlot, OnceBy>>
  BY DEF OnceSlot, OnceBy, SlotStatus

LEMMA SameApplied ==
    ASSUME \A q \in Requests : effect'[q] \in {"landed", "skipped"}
                               <=> effect[q] \in {"landed", "skipped"}
    PROVE  UNCHANGED OnceApplied
  BY DEF OnceApplied

LEMMA SameAnswer ==
    ASSUME UNCHANGED resp
    PROVE  UNCHANGED OnceAnswer
  BY DEF OnceAnswer, ClientKnows

\* A slot that is written is the only one that changes.
LEMMA SlotWritten ==
    ASSUME TypeOK, NEW s \in Slots,
           NEW st \in {"none", "running", "completed", "failed"}, NEW o,
           state' = [state EXCEPT ![s] = st],
           owner' = [owner EXCEPT ![s] = o] \/ (st # "running" /\ owner' = owner)
    PROVE  /\ OnceSlot' = [OnceSlot EXCEPT ![s] = CASE st = "running" -> "busy"
                                                     [] st = "completed" -> "done"
                                                     [] OTHER -> "open"]
           /\ OnceBy' = [OnceBy EXCEPT ![s] = IF st = "running" THEN o ELSE "none"]
<1>1. state'[s] = st /\ \A t \in Slots \ {s} : state'[t] = state[t] /\ owner'[t] = owner[t]
  BY DEF TypeOK
<1>2. st = "running" => owner'[s] = o
  BY DEF TypeOK
<1>3. SlotStatus(s)' = CASE st = "running" -> "busy"
                         [] st = "completed" -> "done"
                         [] OTHER -> "open"
  BY <1>1 DEF SlotStatus
<1>4. \A t \in Slots \ {s} : SlotStatus(t)' = SlotStatus(t)
  BY <1>1 DEF SlotStatus
<1> QED
  BY <1>1, <1>2, <1>3, <1>4 DEF OnceSlot, OnceBy

\* An answer is given once, and read by its client only.
LEMMA Answered ==
    ASSUME TypeOK, ControlInv, NEW r \in Requests, pc[r] # "done",
           NEW a \in Responses \ {"none"}, resp' = [resp EXCEPT ![r] = a],
           ClientKnows(a) = "no" => r \notin OnceApplied,
           ClientKnows(a) = "yes" => r \in OnceApplied
    PROVE  Once!Tell(r, ClientKnows(a)) /\ ClientKnows(a) \in {"yes", "no", "unsure"}
<1>1. resp[r] = "none"
  BY DEF ControlInv, ControlOk, AnswerOk
<1>2. OnceAnswer[r] = "none"
  BY <1>1 DEF OnceAnswer, ClientKnows
<1>3. OnceAnswer' = [OnceAnswer EXCEPT ![r] = ClientKnows(a)]
  BY DEF OnceAnswer, TypeOK
<1>4. ClientKnows(a) \in {"yes", "no", "unsure"}
  BY DEF ClientKnows, Responses
<1> QED
  BY <1>2, <1>3, <1>4 DEF Once!Tell
----------------------------------------------------------------------------
(* The steps of ExecuteOnce, one lemma for each *)

\* An action that touches neither slot, answer nor effect in place is a stutter.
LEMMA Stutters ==
    ASSUME UNCHANGED <<state, owner, resp, timedOut, reset>>,
           \A q \in Requests : effect'[q] \in {"landed", "skipped"}
                               <=> effect[q] \in {"landed", "skipped"}
    PROVE  UNCHANGED Once!vars
  BY SameSlots, SameApplied, SameAnswer DEF Once!vars

\* An action that only answers is a response.
LEMMA Responds ==
    ASSUME TypeOK, ControlInv, NEW r \in Requests, pc[r] # "done",
           NEW a \in Responses \ {"none"}, resp' = [resp EXCEPT ![r] = a],
           ClientKnows(a) = "no" => r \notin OnceApplied,
           ClientKnows(a) = "yes" => r \in OnceApplied,
           UNCHANGED <<state, owner, effect, timedOut, reset>>
    PROVE  Once!Next
<1>1. Once!Tell(r, ClientKnows(a)) /\ ClientKnows(a) \in {"yes", "no", "unsure"}
  BY Answered
<1>2. UNCHANGED <<OnceSlot, OnceBy, OnceApplied, timedOut, reset>>
  BY SameSlots, SameApplied
<1>3. Once!Respond(r)
  BY <1>1, <1>2 DEF Once!Respond
<1> QED
  BY <1>3 DEF Once!Next

\* try_acquire claims a slot or does nothing.
LEMMA Acquires ==
    ASSUME TypeOK, NEW r \in Requests, Keyed(r), TryAcquire(SlotOf(r), r),
           UNCHANGED <<effect, resp, timedOut, reset>>
    PROVE  [Once!Next]_(Once!vars)
<1>1. SlotOf(r) \in Slots
  BY SlotOfType
<1>2. UNCHANGED <<OnceApplied, OnceAnswer>>
  BY SameApplied, SameAnswer
<1>3. CASE Claimable(SlotOf(r))
  <2>1. /\ state' = [state EXCEPT ![SlotOf(r)] = "running"]
        /\ owner' = [owner EXCEPT ![SlotOf(r)] = r]
    BY <1>3 DEF TryAcquire
  <2>2. /\ OnceSlot' = [OnceSlot EXCEPT ![SlotOf(r)] = "busy"]
        /\ OnceBy' = [OnceBy EXCEPT ![SlotOf(r)] = r]
    BY <1>1, <2>1, SlotWritten, Zenon
  <2>3. OnceSlot[SlotOf(r)] = "open"
    BY <1>1, <1>3 DEF Claimable, OnceSlot, SlotStatus
  <2>4. Once!Claim(r)
    BY <1>1, <1>2, <2>2, <2>3 DEF Once!Claim, Once!Keyed, Once!SetSlot
  <2> QED
    BY <2>4 DEF Once!Next
<1>4. CASE ~Claimable(SlotOf(r))
  <2>1. UNCHANGED <<state, owner>>
    BY <1>4 DEF TryAcquire
  <2> QED
    BY <1>2, <2>1, SameSlots DEF Once!vars
<1> QED
  BY <1>3, <1>4

\* An effect is put in place by the request that owns its slot, by one that
\* timed out, or on a slot that was reset.
LEMMA Applies ==
    ASSUME NEW r \in Requests, r \notin OnceApplied, OnceAnswer[r] # "no",
           Keyed(r) => Owned(r) \/ r \in timedOut \/ SlotOf(r) \in reset,
           OnceApplied' = OnceApplied \cup {r},
           UNCHANGED <<state, owner, resp, timedOut, reset>>
    PROVE  Once!Next
<1>1. UNCHANGED <<OnceSlot, OnceBy, OnceAnswer>>
  BY SameSlots, SameAnswer
<1>2. Keyed(r) /\ Owned(r) => Once!BusyWith(r)
  BY SlotOfType DEF Owned, Once!BusyWith, Once!Keyed, OnceSlot, OnceBy, SlotStatus
<1>3. ~Once!Keyed(r) \/ Once!BusyWith(r) \/ Once!PromiseOff(r)
  BY <1>2, SlotOfType DEF Once!Keyed, Once!PromiseOff
<1>4. Once!Apply(r)
  BY <1>1, <1>3 DEF Once!Apply
<1> QED
  BY <1>4 DEF Once!Next

\* A mark closes or opens the slot its request owns, with an effect in place or
\* without one, or disturbs a slot that was reset.
LEMMA Marks ==
    ASSUME TypeOK, SlotInv, NEW r \in Requests, Keyed(r),
           Owned(r) \/ SlotOf(r) \in reset,
           NEW st \in {"completed", "failed"}, MarkSlot(SlotOf(r), st),
           st = "completed" => r \in OnceApplied /\ UNCHANGED resp,
           st = "failed" => r \notin OnceApplied \/ r \in timedOut,
           UNCHANGED OnceAnswer \/ Once!Tell(r, "no"),
           UNCHANGED <<effect, timedOut, reset>>
    PROVE  Once!Next
<1> DEFINE s == SlotOf(r)
<1>1. s \in Slots
  BY SlotOfType
<1>2. UNCHANGED OnceApplied
  BY SameApplied
<1>3. ASSUME Owned(r) PROVE Once!Next
  <2>1. Once!BusyWith(r)
    BY <1>1, <1>3 DEF Owned, Once!BusyWith, Once!Keyed, OnceSlot, OnceBy, SlotStatus
  <2>2. state' = [state EXCEPT ![s] = st] /\ owner' = owner
    BY <1>3 DEF MarkSlot, Owned
  <2>3. CASE st = "completed"
    <3>1. /\ OnceSlot' = [OnceSlot EXCEPT ![s] = "done"]
          /\ OnceBy' = [OnceBy EXCEPT ![s] = "none"]
      BY <1>1, <2>2, <2>3, SlotWritten, Zenon
    <3>2. Once!Finish(r)
      BY <1>2, <2>1, <2>3, <3>1, SameAnswer DEF Once!Finish, Once!SetSlot, Once!Nobody
    <3> QED
      BY <3>2 DEF Once!Next
  <2>4. CASE st = "failed"
    <3>1. /\ OnceSlot' = [OnceSlot EXCEPT ![s] = "open"]
          /\ OnceBy' = [OnceBy EXCEPT ![s] = "none"]
      BY <1>1, <2>2, <2>4, SlotWritten, Zenon
    <3>2. Once!Release(r)
      BY <1>2, <2>1, <2>4, <3>1 DEF Once!Release, Once!SetSlot, Once!Nobody
    <3> QED
      BY <3>2 DEF Once!Next
  <2> QED
    BY <2>3, <2>4
<1>4. ASSUME s \in reset PROVE Once!Next
  <2>1. PICK st2 \in {"none", "completed", "failed"} : state' = [state EXCEPT ![s] = st2]
    BY DEF MarkSlot
  <2>2. owner' = owner
    BY DEF MarkSlot
  <2>3. PICK o \in {"open", "done"} : OnceSlot' = [OnceSlot EXCEPT ![s] = o]
    BY <1>1, <2>1, <2>2, SlotWritten, Zenon
  <2>4. OnceBy' = [OnceBy EXCEPT ![s] = "none"]
    BY <1>1, <2>1, <2>2, SlotWritten, Zenon
  <2>5. Once!Disturb(r)
    BY <1>1, <1>2, <1>4, <2>3, <2>4 DEF Once!Disturb, Once!Keyed, Once!SetSlot, Once!Nobody
  <2> QED
    BY <2>5 DEF Once!Next
<1> QED
  BY <1>3, <1>4

----------------------------------------------------------------------------
(* The refinement *)

\* At every point of a request, what is known of its effect and its answer.
LEMMA Position ==
    ASSUME SafetyInv, NEW r \in Requests
    PROVE  /\ pc[r] \in {"resolve", "acquire", "readback", "precheck", "effect", "refuse_mark"}
                  => r \notin OnceApplied
           /\ pc[r] \in {"audit", "complete_mark", "publish"} => r \in OnceApplied
           /\ pc[r] \in {"fail_mark", "fail_audit"} => r \notin OnceApplied \/ r \in timedOut
           /\ Holds(r) => Owned(r) \/ SlotOf(r) \in reset
           /\ pc[r] # "done" => OnceAnswer[r] = "none"
           /\ effect[r] = "submitted" => OnceAnswer[r] # "no"
<1>1. ControlOk(r) /\ OwnershipOk(r)
  BY DEF SafetyInv, ControlInv, SlotInv
<1>2. pc[r] # "done" => OnceAnswer[r] = "none"
  BY <1>1 DEF ControlOk, AnswerOk, OnceAnswer, ClientKnows
<1>3. effect[r] = "submitted" => resp[r] \in {"none", "executed", "manual_intervention"}
  BY <1>1 DEF ControlOk, AnswerOk, SafetyInv, TypeOK, Responses
<1>4. effect[r] = "submitted" => OnceAnswer[r] # "no"
  BY <1>3 DEF OnceAnswer, ClientKnows
<1>5. Holds(r) => Owned(r) \/ SlotOf(r) \in reset
  BY <1>1 DEF OwnershipOk
<1> QED
  BY <1>1, <1>2, <1>4, <1>5 DEF ControlOk, EffectOk, OnceApplied

\* Under the invariant every action is a step of ExecuteOnce or a stutter.
LEMMA RefinementStep ==
    ASSUME SafetyInv, [Next]_vars
    PROVE  [Once!Next]_(Once!vars)
<1> USE DEF SafetyInv
<1>1. ASSUME NEW r \in Requests, Refuse(r) PROVE [Once!Next]_(Once!vars)
  <2>1. "rejected" \in Responses \ {"none"} /\ ClientKnows("rejected") = "no"
    BY DEF Responses, ClientKnows
  <2>2. /\ pc[r] = "resolve" /\ resp' = [resp EXCEPT ![r] = "rejected"]
        /\ UNCHANGED <<state, owner, effect, timedOut, reset>>
    BY <1>1 DEF Refuse, Answer, slotVars, hist
  <2> QED
    BY <2>1, <2>2, Position, Responds
<1>2. ASSUME NEW r \in Requests, Resolve(r) PROVE [Once!Next]_(Once!vars)
  BY <1>2, Stutters DEF Resolve, slotVars, hist
<1>3. ASSUME NEW r \in Requests, Acquire(r) PROVE [Once!Next]_(Once!vars)
  <2>1. Keyed(r)
    BY <1>3 DEF Acquire, ControlInv, ControlOk, LateOk
  <2> QED
    BY <1>3, <2>1, Acquires DEF Acquire, hist
<1>4. ASSUME NEW r \in Requests, AcquireError(r) PROVE [Once!Next]_(Once!vars)
  <2>1. "error" \in Responses \ {"none"} /\ ClientKnows("error") = "no"
    BY DEF Responses, ClientKnows
  <2>2. /\ pc[r] = "acquire" /\ resp' = [resp EXCEPT ![r] = "error"]
        /\ UNCHANGED <<state, owner, effect, timedOut, reset>>
    BY <1>4 DEF AcquireError, Answer
  <2> QED
    BY <2>1, <2>2, Position, Responds
<1>5. ASSUME NEW r \in Requests, ReadBack(r) PROVE [Once!Next]_(Once!vars)
  <2>1. CASE Owned(r)
    BY <1>5, <2>1, Stutters DEF ReadBack, Owned, slotVars, hist
  <2>2. CASE ~Owned(r)
    <3>1. "already_in_effect" \in Responses \ {"none"} /\ ClientKnows("already_in_effect") = "no"
      BY DEF Responses, ClientKnows
    <3>2. /\ pc[r] = "readback" /\ resp' = [resp EXCEPT ![r] = "already_in_effect"]
          /\ UNCHANGED <<state, owner, effect, timedOut, reset>>
      BY <1>5, <2>2 DEF ReadBack, Owned, Answer, slotVars, hist
    <3> QED
      BY <3>1, <3>2, Position, Responds
  <2> QED
    BY <2>1, <2>2
<1>6. ASSUME NEW r \in Requests, ReadBackError(r) PROVE [Once!Next]_(Once!vars)
  <2>1. "error" \in Responses \ {"none"} /\ ClientKnows("error") = "no"
    BY DEF Responses, ClientKnows
  <2>2. /\ pc[r] = "readback" /\ resp' = [resp EXCEPT ![r] = "error"]
        /\ UNCHANGED <<state, owner, effect, timedOut, reset>>
    BY <1>6 DEF ReadBackError, Answer, slotVars
  <2> QED
    BY <2>1, <2>2, Position, Responds
<1>7. ASSUME NEW r \in Requests, Precheck(r) PROVE [Once!Next]_(Once!vars)
  BY <1>7, Stutters DEF Precheck, slotVars, hist
<1>8. ASSUME NEW r \in Requests, SkipEffect(r) PROVE [Once!Next]_(Once!vars)
  <2>1. pc[r] = "effect" /\ UNCHANGED <<state, owner, resp, timedOut, reset>>
    BY <1>8 DEF SkipEffect, slotVars, hist
  <2>2. OnceApplied' = OnceApplied \cup {r}
    BY <1>8 DEF SkipEffect, OnceApplied, TypeOK
  <2>3. Keyed(r) => Owned(r) \/ r \in timedOut \/ SlotOf(r) \in reset
    BY <2>1, Position DEF Holds, Holding
  <2> QED
    BY <2>1, <2>2, <2>3, Position, Applies
<1>9. ASSUME NEW r \in Requests, RefuseEffect(r) PROVE [Once!Next]_(Once!vars)
  BY <1>9, Stutters DEF RefuseEffect, slotVars, hist
<1>10. ASSUME NEW r \in Requests, CountTimeout(r) PROVE [Once!Next]_(Once!vars)
  <2>1. UNCHANGED <<OnceSlot, OnceBy, OnceApplied, OnceAnswer>>
    BY <1>10, SameSlots, SameApplied, SameAnswer DEF CountTimeout, slotVars
  <2>2. Once!Doubt(r)
    BY <1>10, <2>1 DEF CountTimeout, Once!Doubt
  <2> QED
    BY <2>2 DEF Once!Next
<1>11. ASSUME NEW r \in Requests, SubmitEffect(r) PROVE [Once!Next]_(Once!vars)
  <2>1. effect[r] = "none"
    BY <1>11 DEF SubmitEffect, ControlInv, ControlOk, EffectOk
  <2> QED
    BY <1>11, <2>1, Stutters DEF SubmitEffect, slotVars, hist, TypeOK
<1>12. ASSUME NEW r \in Requests, AwaitEffect(r) PROVE [Once!Next]_(Once!vars)
  BY <1>12, Stutters DEF AwaitEffect, slotVars, hist
<1>13. ASSUME NEW r \in Requests, EffectTimeout(r) PROVE [Once!Next]_(Once!vars)
  <2>1. UNCHANGED OnceApplied
    BY <1>13, SameApplied DEF EffectTimeout, TypeOK
  <2>2. UNCHANGED <<OnceSlot, OnceBy, OnceAnswer>>
    BY <1>13, SameSlots, SameAnswer DEF EffectTimeout, slotVars
  <2>3. Once!Doubt(r)
    BY <1>13, <2>1, <2>2 DEF EffectTimeout, Once!Doubt
  <2> QED
    BY <2>3 DEF Once!Next
<1>14. ASSUME NEW r \in Requests, Mark(r) PROVE [Once!Next]_(Once!vars)
  <2> USE <1>14 DEF Mark
  <2>1. AfterMark(r) /\ pc[r] \in {"refuse_mark", "fail_mark", "complete_mark"}
    OBVIOUS
  <2>2. UNCHANGED <<effect, timedOut, reset>>
    BY DEF hist
  <2>3. "rejected" \in Responses \ {"none"} /\ ClientKnows("rejected") = "no"
    BY DEF Responses, ClientKnows
  <2>4. pc[r] = "refuse_mark" => Once!Tell(r, "no")
    BY <2>1, <2>3, AfterMarkFacts, Answered, Position
  <2>5. pc[r] # "refuse_mark" => UNCHANGED resp
    BY <2>1, AfterMarkFacts
  <2>6. CASE Keyed(r)
    <3>1. MarkSlot(SlotOf(r), MarkOf(r)) /\ MarkOf(r) \in {"completed", "failed"}
      BY <2>6 DEF MarkOf
    <3>2. Owned(r) \/ SlotOf(r) \in reset
      BY <2>1, <2>6, Position DEF Holds, Holding
    <3>3. MarkOf(r) = "completed" => r \in OnceApplied /\ UNCHANGED resp
      BY <2>5, Position DEF MarkOf
    <3>4. MarkOf(r) = "failed" => r \notin OnceApplied \/ r \in timedOut
      BY <2>1, Position DEF MarkOf
    <3>5. UNCHANGED OnceAnswer \/ Once!Tell(r, "no")
      BY <2>4, <2>5, SameAnswer
    <3> QED
      BY <2>2, <2>6, <3>1, <3>2, <3>3, <3>4, <3>5, Marks
  <2>7. CASE ~Keyed(r)
    <3>1. UNCHANGED <<state, owner>>
      BY <2>7
    <3>2. CASE pc[r] = "refuse_mark"
      BY <2>1, <2>2, <2>3, <3>1, <3>2, AfterMarkFacts, Position, Responds
    <3>3. CASE pc[r] # "refuse_mark"
      BY <2>2, <2>5, <3>1, <3>3, Stutters
    <3> QED
      BY <3>2, <3>3
  <2> QED
    BY <2>6, <2>7
<1>15. ASSUME NEW r \in Requests, MarkLost(r) PROVE [Once!Next]_(Once!vars)
  <2>1. /\ AfterMark(r) /\ pc[r] \in {"refuse_mark", "fail_mark", "complete_mark"}
        /\ UNCHANGED <<state, owner, effect, timedOut, reset>>
    BY <1>15 DEF MarkLost
  <2>2. CASE pc[r] = "refuse_mark"
    <3>1. "rejected" \in Responses \ {"none"} /\ ClientKnows("rejected") = "no"
      BY DEF Responses, ClientKnows
    <3> QED
      BY <2>1, <2>2, <3>1, AfterMarkFacts, Position, Responds
  <2>3. CASE pc[r] # "refuse_mark"
    BY <2>1, <2>3, AfterMarkFacts, Stutters
  <2> QED
    BY <2>2, <2>3
<1>16. ASSUME NEW r \in Requests, Audit(r) PROVE [Once!Next]_(Once!vars)
  BY <1>16, Stutters DEF Audit, slotVars, hist
<1>17. ASSUME NEW r \in Requests, Publish(r) PROVE [Once!Next]_(Once!vars)
  <2>1. "executed" \in Responses \ {"none"} /\ ClientKnows("executed") = "yes"
    BY DEF Responses, ClientKnows
  <2>2. /\ pc[r] = "publish" /\ resp' = [resp EXCEPT ![r] = "executed"]
        /\ UNCHANGED <<state, owner, effect, timedOut, reset>>
    BY <1>17 DEF Publish, Answer, slotVars, hist
  <2> QED
    BY <2>1, <2>2, Position, Responds
<1>18. ASSUME NEW r \in Requests, FailAudit(r) PROVE [Once!Next]_(Once!vars)
  <2> DEFINE a == FailureResponse(r)
  <2>1. /\ pc[r] = "fail_audit" /\ resp' = [resp EXCEPT ![r] = a]
        /\ UNCHANGED <<state, owner, effect, timedOut, reset>>
    BY <1>18 DEF FailAudit, Answer, slotVars, hist
  <2>2. a \in {"rejected", "manual_intervention", "dead_letter"}
    BY CallAssumption DEF FailureResponse, Fallbacks
  <2>3. r \in timedOut => a = "manual_intervention"
    BY DEF FailureResponse
  <2>4. ClientKnows("manual_intervention") = "unsure"
    BY DEF ClientKnows
  <2>5. a \in Responses \ {"none"} /\ ClientKnows(a) # "yes"
    BY <2>2 DEF Responses, ClientKnows
  <2>6. ClientKnows(a) = "no" => r \notin OnceApplied
    BY <2>1, <2>3, <2>4, Position
  <2> HIDE DEF a
  <2> QED
    BY <2>1, <2>5, <2>6, Responds
<1>19. ASSUME NEW r \in Requests, EffectLands(r) PROVE [Once!Next]_(Once!vars)
  <2>1. effect[r] = "submitted" /\ UNCHANGED <<state, owner, resp, timedOut, reset>>
    BY <1>19 DEF EffectLands, slotVars, hist
  <2>2. OnceApplied' = OnceApplied \cup {r} /\ r \notin OnceApplied
    BY <1>19 DEF EffectLands, OnceApplied, TypeOK
  <2>3. pc[r] = "await" \/ r \in timedOut
    BY <2>1 DEF ControlInv, ControlOk, EffectOk
  <2>4. Keyed(r) => Owned(r) \/ r \in timedOut \/ SlotOf(r) \in reset
    BY <2>3, Position DEF Holds, Holding
  <2> QED
    BY <2>1, <2>2, <2>4, Position, Applies
<1>20. ASSUME NEW r \in Requests, EffectFails(r) PROVE [Once!Next]_(Once!vars)
  BY <1>20, Stutters DEF EffectFails, slotVars, hist, TypeOK
<1>21. ASSUME NEW r \in Requests, LateCall(r) PROVE [Once!Next]_(Once!vars)
  <2>1. UNCHANGED <<effect, resp, timedOut, reset>> /\ Keyed(r)
    BY <1>21 DEF LateCall, hist, ControlInv, ControlOk, LateOk
  <2>2. CASE late[r] = "acquire"
    BY <1>21, <2>1, <2>2, Acquires DEF LateCall
  <2>3. CASE late[r] # "acquire"
    <3>1. late[r] \in {"completed", "failed"} /\ MarkSlot(SlotOf(r), late[r])
      BY <1>21, <2>3 DEF LateCall, TypeOK
    <3>2. /\ late[r] = "completed" => r \in OnceApplied
          /\ late[r] = "failed" => r \notin OnceApplied \/ r \in timedOut
      BY DEF ControlInv, ControlOk, LateOk, OnceApplied
    <3>3. Owned(r) \/ SlotOf(r) \in reset
      BY <3>1 DEF SlotInv, OwnershipOk
    <3> QED
      BY <2>1, <3>1, <3>2, <3>3, Marks, SameAnswer
  <2> QED
    BY <2>2, <2>3
<1>22. ASSUME NEW r \in Requests, Crash(r) PROVE [Once!Next]_(Once!vars)
  BY <1>22, Stutters DEF Crash, hist, TypeOK
<1>23. ASSUME NEW s \in Slots, ResetRunning(s) PROVE [Once!Next]_(Once!vars)
  <2>1. state[s] = "running" /\ state' = [state EXCEPT ![s] = "failed"] /\ owner' = owner
    BY <1>23 DEF ResetRunning
  <2>2. /\ OnceSlot' = [OnceSlot EXCEPT ![s] = "open"]
        /\ OnceBy' = [OnceBy EXCEPT ![s] = "none"]
    BY <2>1, SlotWritten, Zenon
  <2>3. OnceSlot[s] = "busy"
    BY <2>1 DEF OnceSlot, SlotStatus
  <2>4. UNCHANGED <<OnceApplied, OnceAnswer>>
    BY <1>23, SameApplied, SameAnswer DEF ResetRunning
  <2>5. Once!Override(s)
    BY <1>23, <2>2, <2>3, <2>4 DEF ResetRunning, Once!Override, Once!SetSlot, Once!Nobody
  <2> QED
    BY <2>5 DEF Once!Next
<1>24. CASE UNCHANGED vars
  BY <1>24, Stutters DEF vars
<1> QED
  BY <1>1, <1>2, <1>3, <1>4, <1>5, <1>6, <1>7, <1>8, <1>9, <1>10, <1>11,
     <1>12, <1>13, <1>14, <1>15, <1>16, <1>17, <1>18, <1>19, <1>20, <1>21,
     <1>22, <1>23, <1>24 DEF Next, Step

\* execute_action, with its abandoned threads, late calls, lost marks and dead
\* workers, implements the slot table of ExecuteOnce.
THEOREM Refines == Spec => ImplementsExecuteOnce
<1>1. Init => Once!Init
  BY DEF Init, Once!Init, Once!Nobody, OnceSlot, OnceBy, OnceApplied, OnceAnswer,
         SlotStatus, ClientKnows
<1>2. SafetyInv /\ [Next]_vars => [Once!Next]_(Once!vars)
  BY RefinementStep
<1> QED
  BY <1>1, <1>2, Safety, PTL DEF Spec, ImplementsExecuteOnce, Once!Spec

============================================================================
