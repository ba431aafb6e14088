------------------------- MODULE ActionIdempotency -------------------------
(***************************************************************************)
(* The action-execution middleware (actions/middleware.py) and the         *)
(* idempotency slots it claims in the control-plane database               *)
(* (system_db/stores/actions.py).                                          *)
(*                                                                         *)
(* A request executes one catalogued action on one object.  Every call it  *)
(* makes runs on an executor thread behind run_sync, whose 60 s timeout    *)
(* abandons the thread without stopping it, so a database call or a        *)
(* storage write may still land after its request has gone on or ended.    *)
(* Requests run in several uvicorn workers, any of which may die.          *)
(***************************************************************************)
EXTENDS Naturals, FiniteSets

CONSTANTS
    Requests,   \* HTTP requests, each executing one action once
    Slots,      \* (action_id, rendered key) pairs of idempotency_keys
    NoSlot,     \* the action declares no idempotency_key
    Objects,    \* the target rows
    Call        \* what each request asks for, with its catalogue entry

Effects   == {"update_lifecycle", "notify", "none"}
Fallbacks == {"REJECT", "MANUAL", "DEAD_LETTER"}

ASSUME NoSlotAssumption == NoSlot \notin Slots
ASSUME CallAssumption ==
    Call \in [Requests -> [slot : Slots \cup {NoSlot}, object : Objects,
                           effect : Effects, fallback : Fallbacks]]

VARIABLES
    pc,        \* where each request is in execute_action
    seen,      \* the lifecycle state fetch_object_rows showed the request
    row,       \* the lifecycle state of each object in storage
    state,     \* idempotency_keys.state of each slot ("none": no row)
    owner,     \* idempotency_keys.owner of each slot
    late,      \* a database call the request abandoned and that still runs
    effect,    \* the effect thread of each request
    resp,      \* what the client was told
    timedOut,  \* history: requests whose effect call timed out
    fault,     \* history: requests one of whose slot calls failed
    reset      \* history: slots an administrator has reset

slotVars == <<state, owner, late>>
hist     == <<timedOut, fault, reset>>
vars     == <<pc, seen, row, state, owner, late, effect, resp, timedOut,
              fault, reset>>

Lifecycle == {"pending", "closed"}
Pcs       == {"resolve", "acquire", "readback", "precheck", "effect", "await",
              "refuse_mark", "fail_mark", "fail_audit", "audit",
              "complete_mark", "publish", "done", "dead"}
Responses == {"none", "rejected", "error", "already_in_effect", "executed",
              "manual_intervention", "dead_letter"}

SlotOf(r) == Call[r].slot
Keyed(r)  == SlotOf(r) # NoSlot
Finished  == {"done", "dead"}

Init ==
    /\ pc       = [r \in Requests |-> "resolve"]
    /\ seen     = [r \in Requests |-> "pending"]
    /\ row      = [o \in Objects |-> "pending"]
    /\ state    = [s \in Slots |-> "none"]
    /\ owner    = [s \in Slots |-> "none"]
    /\ late     = [r \in Requests |-> "none"]
    /\ effect   = [r \in Requests |-> "none"]
    /\ resp     = [r \in Requests |-> "none"]
    /\ timedOut = {}
    /\ fault    = {}
    /\ reset    = {}

(***************************************************************************)
(* The slot table.  try_acquire inserts a running row if there is none and *)
(* takes a failed row over; a running or completed row is left alone.      *)
(* mark writes the row whatever its state and whoever owns it.             *)
(***************************************************************************)
\* Faulty variants, here and below, stand for slips a change to the code could
\* make; no action uses them.
TakesRunningOver(s)   == state[s] # "completed"
TakesCompletedOver(s) == state[s] # "running"

Claimable(s) == state[s] \in {"none", "failed"}

TryAcquire(s, r) ==
    IF Claimable(s)
    THEN /\ state' = [state EXCEPT ![s] = "running"]
         /\ owner' = [owner EXCEPT ![s] = r]
    ELSE UNCHANGED <<state, owner>>

\* Faulty: a successful mark deletes the row, which opens the slot again.
MarkForgetsClaim(s, st) ==
    /\ state' = [state EXCEPT ![s] = IF @ = "none" \/ st = "completed" THEN "none" ELSE st]
    /\ UNCHANGED owner

MarkSlot(s, st) ==
    /\ state' = [state EXCEPT ![s] = IF @ = "none" THEN @ ELSE st]
    /\ UNCHANGED owner

Goto(r, l) == pc' = [pc EXCEPT ![r] = l]

Answer(r, a) ==
    /\ pc' = [pc EXCEPT ![r] = "done"]
    /\ resp' = [resp EXCEPT ![r] = a]

----------------------------------------------------------------------------
\* Refused before anything is claimed: not in the catalogue, no permission,
\* no reason, no unique target, no write access, unknown scenario step.
Refuse(r) ==
    /\ pc[r] = "resolve"
    /\ Answer(r, "rejected")
    /\ UNCHANGED <<seen, row, slotVars, effect, hist>>

\* The row that preconditions will be evaluated on is read before the slot
\* is claimed.
Resolve(r) ==
    /\ pc[r] = "resolve"
    /\ seen' = [seen EXCEPT ![r] = row[Call[r].object]]
    /\ Goto(r, IF Keyed(r) THEN "acquire" ELSE "precheck")
    /\ UNCHANGED <<row, slotVars, effect, resp, hist>>

Acquire(r) ==
    /\ pc[r] = "acquire"
    /\ TryAcquire(SlotOf(r), r)
    /\ Goto(r, "readback")
    /\ UNCHANGED <<seen, row, late, effect, resp, hist>>

\* try_acquire raises or times out; the exception leaves execute_action with
\* nothing to undo the claim, which the abandoned thread may still make.
AcquireError(r) ==
    /\ pc[r] = "acquire"
    /\ Answer(r, "error")
    /\ late' \in {late, [late EXCEPT ![r] = "acquire"]}
    /\ fault' = fault \cup {r}
    /\ UNCHANGED <<seen, row, state, owner, effect, timedOut, reset>>

\* Faulty: the owner read back is not compared.
ReadBackUnchecked(r) ==
    /\ pc[r] = "readback"
    /\ Goto(r, "precheck")
    /\ UNCHANGED <<seen, row, slotVars, effect, resp, hist>>

\* The owner token read back decides who holds the slot.
ReadBack(r) ==
    /\ pc[r] = "readback"
    /\ IF state[SlotOf(r)] = "running" /\ owner[SlotOf(r)] = r
       THEN Goto(r, "precheck") /\ UNCHANGED resp
       ELSE Answer(r, "already_in_effect")
    /\ UNCHANGED <<seen, row, slotVars, effect, hist>>

ReadBackError(r) ==
    /\ pc[r] = "readback"
    /\ Answer(r, "error")
    /\ fault' = fault \cup {r}
    /\ UNCHANGED <<seen, row, slotVars, effect, timedOut, reset>>

\* Faulty: a refused precondition leaves the slot running.
PrecheckKeepsSlot(r) ==
    /\ pc[r] = "precheck"
    /\ IF seen[r] = "pending" THEN Goto(r, "effect") /\ UNCHANGED resp
                              ELSE Answer(r, "rejected")
    /\ UNCHANGED <<seen, row, slotVars, effect, hist>>

\* The action closes a pending object: its precondition is that the object
\* was pending when it was read.
Precheck(r) ==
    /\ pc[r] = "precheck"
    /\ Goto(r, IF seen[r] = "pending" THEN "effect" ELSE "refuse_mark")
    /\ UNCHANGED <<seen, row, slotVars, effect, resp, hist>>

----------------------------------------------------------------------------
(* _run_effect *)

\* "none", or "notify" with nobody to notify: no call is made.
SkipEffect(r) ==
    /\ pc[r] = "effect"
    /\ Call[r].effect \in {"none", "notify"}
    /\ effect' = [effect EXCEPT ![r] = "skipped"]
    /\ Goto(r, "audit")
    /\ UNCHANGED <<seen, row, slotVars, resp, hist>>

\* No lifecycle column, a bad to_state, or a physical row count other than 1.
RefuseEffect(r) ==
    /\ pc[r] = "effect"
    /\ Call[r].effect = "update_lifecycle"
    /\ Goto(r, "refuse_mark")
    /\ UNCHANGED <<seen, row, slotVars, effect, resp, hist>>

\* The row count, which writes nothing, does not answer in time.
CountTimeout(r) ==
    /\ pc[r] = "effect"
    /\ Call[r].effect = "update_lifecycle"
    /\ Goto(r, "fail_mark")
    /\ timedOut' = timedOut \cup {r}
    /\ UNCHANGED <<seen, row, slotVars, effect, resp, fault, reset>>

SubmitEffect(r) ==
    /\ pc[r] = "effect"
    /\ Call[r].effect # "none"
    /\ effect' = [effect EXCEPT ![r] = "submitted"]
    /\ Goto(r, "await")
    /\ UNCHANGED <<seen, row, slotVars, resp, hist>>

\* The executor thread, which runs whether or not anyone still awaits it.
EffectLands(r) ==
    /\ effect[r] = "submitted"
    /\ effect' = [effect EXCEPT ![r] = "landed"]
    /\ row' = IF Call[r].effect = "update_lifecycle"
              THEN [row EXCEPT ![Call[r].object] = "closed"] ELSE row
    /\ UNCHANGED <<pc, seen, slotVars, resp, hist>>

EffectFails(r) ==
    /\ effect[r] = "submitted"
    /\ effect' = [effect EXCEPT ![r] = "failed"]
    /\ UNCHANGED <<pc, seen, row, slotVars, resp, hist>>

AwaitEffect(r) ==
    /\ pc[r] = "await"
    /\ effect[r] \in {"landed", "failed"}
    /\ Goto(r, IF effect[r] = "landed" THEN "audit" ELSE "fail_mark")
    /\ UNCHANGED <<seen, row, slotVars, effect, resp, hist>>

\* Faulty: the write is awaited without a timeout.
NoEffectTimeout(r) == FALSE /\ UNCHANGED vars

\* A queued thread is cancelled by the timeout, a started one goes on.
EffectTimeout(r) ==
    /\ pc[r] = "await"
    /\ effect' \in {effect, [effect EXCEPT ![r] = IF @ = "submitted"
                                                  THEN "cancelled" ELSE @]}
    /\ timedOut' = timedOut \cup {r}
    /\ Goto(r, "fail_mark")
    /\ UNCHANGED <<seen, row, slotVars, resp, fault, reset>>

----------------------------------------------------------------------------
(* Closing the slot and answering *)

\* Faulty: the response status is written where the slot state belongs.
MarkWithStatus(r) == IF pc[r] = "complete_mark" THEN "executed" ELSE "failed"

MarkOf(r) == IF pc[r] = "complete_mark" THEN "completed" ELSE "failed"

AfterMark(r) ==
    CASE pc[r] = "refuse_mark"   -> Answer(r, "rejected")
      [] pc[r] = "fail_mark"     -> Goto(r, "fail_audit") /\ UNCHANGED resp
      [] pc[r] = "complete_mark" -> Goto(r, "publish") /\ UNCHANGED resp

Mark(r) ==
    /\ pc[r] \in {"refuse_mark", "fail_mark", "complete_mark"}
    /\ AfterMark(r)
    /\ IF Keyed(r) THEN MarkSlot(SlotOf(r), MarkOf(r))
                   ELSE UNCHANGED <<state, owner>>
    /\ UNCHANGED <<seen, row, late, effect, hist>>

\* _mark swallows every exception: the call failed, or timed out and may
\* still land.
MarkLost(r) ==
    /\ pc[r] \in {"refuse_mark", "fail_mark", "complete_mark"}
    /\ Keyed(r)
    /\ AfterMark(r)
    /\ late' \in {late, [late EXCEPT ![r] = MarkOf(r)]}
    /\ fault' = fault \cup {r}
    /\ UNCHANGED <<seen, row, state, owner, effect, timedOut, reset>>

\* The audit trail is written and never read here, and a failed record changes
\* nothing that follows, so only its place in the order is kept.
Audit(r) ==
    /\ pc[r] = "audit"
    /\ Goto(r, "complete_mark")
    /\ UNCHANGED <<seen, row, slotVars, effect, resp, hist>>

\* post_event is published in process and the request answers.
Publish(r) ==
    /\ pc[r] = "publish"
    /\ Answer(r, "executed")
    /\ UNCHANGED <<seen, row, slotVars, effect, hist>>

FailureResponse(r) ==
    IF r \in timedOut THEN "manual_intervention"
    ELSE CASE Call[r].fallback = "REJECT"      -> "rejected"
           [] Call[r].fallback = "MANUAL"      -> "manual_intervention"
           [] Call[r].fallback = "DEAD_LETTER" -> "dead_letter"

FailAudit(r) ==
    /\ pc[r] = "fail_audit"
    /\ Answer(r, FailureResponse(r))
    /\ UNCHANGED <<seen, row, slotVars, effect, hist>>

----------------------------------------------------------------------------
(* The environment of a request *)

\* An abandoned database call completes.
LateCall(r) ==
    /\ late[r] # "none"
    /\ late' = [late EXCEPT ![r] = "none"]
    /\ IF late[r] = "acquire" THEN TryAcquire(SlotOf(r), r)
                              ELSE MarkSlot(SlotOf(r), late[r])
    /\ UNCHANGED <<pc, seen, row, effect, resp, hist>>

\* POST /actions/{id}/idempotency/reset, by an administrator.
ResetRunning(s) ==
    /\ state[s] = "running"
    /\ state' = [state EXCEPT ![s] = "failed"]
    /\ reset' = reset \cup {s}
    /\ UNCHANGED <<pc, seen, row, owner, late, effect, resp, timedOut, fault>>

\* The worker process serving the request dies, with all of its threads.
Crash(r) ==
    /\ \/ pc[r] \notin Finished
       \/ late[r] # "none"
       \/ effect[r] = "submitted"
    /\ pc' = [pc EXCEPT ![r] = IF @ = "done" THEN @ ELSE "dead"]
    /\ late' = [late EXCEPT ![r] = "none"]
    /\ effect' = [effect EXCEPT ![r] = IF @ = "submitted" THEN "cancelled" ELSE @]
    /\ UNCHANGED <<seen, row, state, owner, resp, hist>>

Step(r) ==
    \/ Refuse(r) \/ Resolve(r)
    \/ Acquire(r) \/ AcquireError(r) \/ ReadBack(r) \/ ReadBackError(r)
    \/ Precheck(r)
    \/ SkipEffect(r) \/ RefuseEffect(r) \/ CountTimeout(r) \/ SubmitEffect(r)
    \/ AwaitEffect(r) \/ EffectTimeout(r)
    \/ Mark(r) \/ MarkLost(r) \/ Audit(r) \/ Publish(r) \/ FailAudit(r)

Next ==
    \/ \E r \in Requests :
           Step(r) \/ EffectLands(r) \/ EffectFails(r) \/ LateCall(r) \/ Crash(r)
    \/ \E s \in Slots : ResetRunning(s)

Spec == Init /\ [][Next]_vars

\* Every call a request awaits has a timeout, so a request whose worker
\* lives always takes its next step.
FairSpec == Spec /\ \A r \in Requests : WF_vars(Step(r))

----------------------------------------------------------------------------
(* Properties *)

TypeOK ==
    /\ pc \in [Requests -> Pcs]
    /\ seen \in [Requests -> Lifecycle]
    /\ row \in [Objects -> Lifecycle]
    /\ state \in [Slots -> {"none", "running", "completed", "failed"}]
    /\ owner \in [Slots -> Requests \cup {"none"}]
    /\ late \in [Requests -> {"none", "acquire", "completed", "failed"}]
    /\ effect \in [Requests -> {"none", "skipped", "submitted", "landed",
                                "failed", "cancelled"}]
    /\ resp \in [Requests -> Responses]
    /\ timedOut \subseteq Requests
    /\ fault \subseteq Requests
    /\ reset \subseteq Slots

\* A request that won its slot and has not yet closed it.
Holding == {"precheck", "effect", "await", "refuse_mark", "fail_mark", "audit",
            "complete_mark"}
Holds(r) == Keyed(r) /\ pc[r] \in Holding

\* The owner token in try_acquire admits one executor at a time: two requests
\* are never between their claim and their mark on the same slot, unless an
\* administrator has reset that slot under a live owner.
OneExecutorPerSlot ==
    \A r, q \in Requests :
        Holds(r) /\ Holds(q) /\ SlotOf(r) = SlotOf(q) /\ SlotOf(r) \notin reset
        => r = q

\* The promise of the idempotency key in execute_action ("200, in effect, not
\* written twice"): two requests for one slot never both reach storage, unless
\* one of them timed out or the slot was reset by hand.
NoDoubleWrite ==
    \A r, q \in Requests :
        /\ Keyed(r) /\ SlotOf(r) = SlotOf(q)
        /\ effect[r] = "landed" /\ effect[q] = "landed"
        /\ {r, q} \cap timedOut = {} /\ SlotOf(r) \notin reset
        => r = q

\* A slot says completed only when an effect of that slot is in storage, or
\* the action that owned it has none.
CompletedIsInEffect ==
    \A s \in Slots :
        state[s] = "completed" =>
            \E r \in Requests : SlotOf(r) = s /\ effect[r] \in {"landed", "skipped"}

\* A client that is told no (422, 500, dead letter) or "already in effect"
\* knows that its own request has written nothing and never will; only
\* manual_intervention leaves that open.
NegativeAnswerMeansNoWrite ==
    \A r \in Requests :
        resp[r] \in {"rejected", "error", "dead_letter", "already_in_effect"}
        => effect[r] \notin {"submitted", "landed"}

\* Every refusal after the claim releases the slot: a running slot whose owner
\* is no longer executing is left behind only by a dead worker or by a failed
\* call to the slot table.
NoSilentWedge ==
    \A s \in Slots : \A r \in Requests :
        state[s] = "running" /\ owner[s] = r
        => \/ Holds(r) \/ pc[r] = "readback"
           \/ pc[r] = "dead" \/ r \in fault

\* A completed slot stays completed, although mark checks neither owner nor
\* state, unless the slot has been reset by hand.
CompletedIsFinal ==
    [][\A s \in Slots \ reset' : state[s] = "completed" => state'[s] = "completed"]_vars

\* A request is never refused by its precondition because its own action is
\* already in effect: the slot is consulted first, so the replay of a
\* self-invalidating action is answered 200.
ReplayIsNotRefused ==
    [][\A r, q \in Requests :
          /\ pc[r] = "precheck" /\ pc'[r] = "refuse_mark"
          /\ Keyed(r) /\ SlotOf(q) = SlotOf(r) /\ SlotOf(r) \notin reset
          => effect[q] # "landed" \/ q \in timedOut]_vars

\* Every request is answered unless its worker dies: no await is unbounded.
EveryRequestAnswered == \A r \in Requests : <>(pc[r] \in Finished)

----------------------------------------------------------------------------
(***************************************************************************)
(* The middleware implements the promise of ExecuteOnce.  A slot is done   *)
(* when its row says completed; an effect is applied when its thread has   *)
(* written it, whenever that is; a timed-out request is a doubtful one.    *)
(***************************************************************************)
SlotStatus(s) ==
    CASE state[s] = "running" -> "busy"
      [] state[s] = "completed" -> "done"
      [] OTHER -> "open"

ClientKnows(a) ==
    CASE a = "none" -> "none"
      [] a = "executed" -> "yes"
      [] a = "manual_intervention" -> "unsure"
      [] OTHER -> "no"

OnceSlot    == [s \in Slots |-> SlotStatus(s)]
OnceBy      == [s \in Slots |-> IF state[s] = "running" THEN owner[s] ELSE "none"]
OnceApplied == {r \in Requests : effect[r] \in {"landed", "skipped"}}
OnceAnswer  == [r \in Requests |-> ClientKnows(resp[r])]

Once == INSTANCE ExecuteOnce WITH
    slot <- OnceSlot, by <- OnceBy, applied <- OnceApplied, doubtful <- timedOut,
    overridden <- reset, answer <- OnceAnswer

\* execute_action, with its abandoned threads, lost marks and dead workers,
\* behaves like a slot table on which one request at a time may act: an effect
\* is applied by the holder of its slot or by a request in doubt, a slot is
\* done when that effect is in place, and a client that is told no stays
\* without one.
ImplementsExecuteOnce == Once!Spec

----------------------------------------------------------------------------
(***************************************************************************)
(* The inductive invariant behind the safety properties.  A slot that was  *)
(* never reset belongs to its owner from the claim until the owner's own   *)
(* mark, even when that mark is an abandoned call that lands late.         *)
(***************************************************************************)

\* What the effect thread can have done at each point of the request.
EffectOk(r) ==
    /\ pc[r] \in {"resolve", "acquire", "readback", "precheck", "effect", "refuse_mark"}
           => effect[r] = "none" /\ r \notin timedOut
    /\ pc[r] = "await" => effect[r] \in {"submitted", "landed", "failed"} /\ r \notin timedOut
    /\ pc[r] \in {"audit", "complete_mark", "publish"}
           => effect[r] \in {"landed", "skipped"} /\ r \notin timedOut
    /\ pc[r] \in {"fail_mark", "fail_audit"} => r \in timedOut \/ effect[r] = "failed"
    /\ effect[r] = "submitted" => pc[r] = "await" \/ r \in timedOut

\* Which requests have an abandoned call, and what it would write.
LateOk(r) ==
    /\ pc[r] \in {"acquire", "readback"} => Keyed(r)
    /\ late[r] # "none" => Keyed(r) /\ r \in fault
    /\ late[r] = "acquire" => pc[r] = "done" /\ effect[r] = "none" /\ r \notin timedOut
    /\ late[r] \in {"completed", "failed"} => pc[r] \in {"fail_audit", "publish", "done"}
    /\ late[r] = "completed" => effect[r] \in {"landed", "skipped"}
    /\ late[r] = "failed" => r \in timedOut \/ effect[r] \in {"none", "failed"}

\* An answer ends the request; a negative one is final for its effect.
AnswerOk(r) ==
    /\ resp[r] # "none" => pc[r] = "done"
    /\ resp[r] \in {"rejected", "error", "dead_letter", "already_in_effect"}
           => effect[r] \notin {"submitted", "landed"}

\* The slot is the owner's until the owner closes it.
Owned(r) == state[SlotOf(r)] = "running" /\ owner[SlotOf(r)] = r

OwnershipOk(r) ==
    SlotOf(r) \notin reset =>
        /\ Holds(r) \/ late[r] \in {"completed", "failed"} => Owned(r)
        /\ Keyed(r) /\ effect[r] = "landed" /\ r \notin timedOut
              => Owned(r) \/ state[SlotOf(r)] = "completed"

\* The owner recorded in a slot claimed that slot.
OwnerOk(s) ==
    state[s] = "none" \/ (owner[s] \in Requests /\ SlotOf(owner[s]) = s)

ControlOk(r) == EffectOk(r) /\ LateOk(r) /\ AnswerOk(r)

ControlInv == \A r \in Requests : ControlOk(r)
SlotInv    == (\A r \in Requests : OwnershipOk(r)) /\ (\A s \in Slots : OwnerOk(s))

----------------------------------------------------------------------------
(* What the repository says and the code does not do *)

\* _dispatch_failure: a timeout "forbids automatic replay" because its write
\* may still land.  A slot on which a request timed out is not executed again,
\* so that the abandoned write and a second one never both reach storage.
NoReplayAfterTimeout ==
    \A r, q \in Requests :
        /\ Keyed(r) /\ SlotOf(r) = SlotOf(q) /\ r # q
        /\ r \in timedOut /\ SlotOf(r) \notin reset
        => ~(effect[r] = "landed" /\ effect[q] = "landed")

\* The scenario runner records a replayed step as succeeded because the
\* middleware answers "already in effect": some request of that slot has
\* produced the effect, or is still alive to produce it.
AlreadyInEffectIsTrue ==
    \A r \in Requests :
        resp[r] = "already_in_effect" /\ SlotOf(r) \notin reset =>
            \E q \in Requests :
                /\ SlotOf(q) = SlotOf(r)
                /\ \/ effect[q] \in {"landed", "skipped", "submitted"}
                   \/ pc[q] \notin Finished

============================================================================
