---------------------------- MODULE ExecuteOnce ----------------------------
(***************************************************************************)
(* What an idempotency key promises to the clients of the action           *)
(* middleware, without databases, threads, timeouts or processes.          *)
(*                                                                         *)
(* A slot is open, busy with one request, or done.  Only the request a     *)
(* slot is busy with may apply its effect, and the slot is done once that  *)
(* effect is applied.  Two things void the promise, and nothing else does: *)
(* a request whose outcome nobody knows (doubtful), which may still apply  *)
(* its effect after its slot was opened again, and an administrator who    *)
(* opens a busy slot (overridden).                                         *)
(***************************************************************************)
CONSTANTS
    Requests,
    Slots,
    SlotOf(_)    \* the slot of a request, or something that is not a slot

VARIABLES
    slot,        \* "open", "busy" or "done"
    by,          \* the request a busy slot is busy with
    applied,     \* requests whose effect is in place
    doubtful,    \* requests whose outcome is unknown
    overridden,  \* slots opened by hand
    answer       \* what each client knows

vars == <<slot, by, applied, doubtful, overridden, answer>>

Nobody == "none"

Init ==
    /\ slot       = [s \in Slots |-> "open"]
    /\ by         = [s \in Slots |-> Nobody]
    /\ applied    = {}
    /\ doubtful   = {}
    /\ overridden = {}
    /\ answer     = [r \in Requests |-> "none"]

Keyed(r)      == SlotOf(r) \in Slots
BusyWith(r)   == Keyed(r) /\ slot[SlotOf(r)] = "busy" /\ by[SlotOf(r)] = r
PromiseOff(r) == r \in doubtful \/ SlotOf(r) \in overridden

SetSlot(s, st, r) ==
    /\ slot' = [slot EXCEPT ![s] = st]
    /\ by' = [by EXCEPT ![s] = r]

Claim(r) ==
    /\ Keyed(r) /\ slot[SlotOf(r)] = "open"
    /\ SetSlot(SlotOf(r), "busy", r)
    /\ UNCHANGED <<applied, doubtful, overridden, answer>>

\* A client told "no" is never surprised by its own effect.
Apply(r) ==
    /\ r \notin applied /\ answer[r] # "no"
    /\ ~Keyed(r) \/ BusyWith(r) \/ PromiseOff(r)
    /\ applied' = applied \cup {r}
    /\ UNCHANGED <<slot, by, doubtful, overridden, answer>>

Finish(r) ==
    /\ BusyWith(r) /\ r \in applied
    /\ SetSlot(SlotOf(r), "done", Nobody)
    /\ UNCHANGED <<applied, doubtful, overridden, answer>>

Tell(r, a) ==
    /\ answer[r] = "none"
    /\ a = "no" => r \notin applied
    /\ a = "yes" => r \in applied
    /\ answer' = [answer EXCEPT ![r] = a]

\* A slot is opened again only without an effect, or with one in doubt; the
\* client may be told no in the same step.
Release(r) ==
    /\ BusyWith(r)
    /\ r \notin applied \/ r \in doubtful
    /\ SetSlot(SlotOf(r), "open", Nobody)
    /\ UNCHANGED answer \/ Tell(r, "no")
    /\ UNCHANGED <<applied, doubtful, overridden>>

Respond(r) ==
    /\ \E a \in {"yes", "no", "unsure"} : Tell(r, a)
    /\ UNCHANGED <<slot, by, applied, doubtful, overridden>>

Doubt(r) ==
    /\ doubtful' = doubtful \cup {r}
    /\ UNCHANGED <<slot, by, applied, overridden, answer>>

Override(s) ==
    /\ slot[s] = "busy"
    /\ SetSlot(s, "open", Nobody)
    /\ overridden' = overridden \cup {s}
    /\ UNCHANGED <<applied, doubtful, answer>>

\* Whatever happens to an overridden slot, it is closed or opened by a request
\* that claimed it once.
Disturb(r) ==
    /\ Keyed(r) /\ SlotOf(r) \in overridden
    /\ \E st \in {"open", "done"} : SetSlot(SlotOf(r), st, Nobody)
    /\ UNCHANGED answer \/ Tell(r, "no")
    /\ UNCHANGED <<applied, doubtful, overridden>>

Next ==
    \/ \E r \in Requests :
           \/ Claim(r) \/ Apply(r) \/ Finish(r) \/ Release(r)
           \/ Respond(r) \/ Doubt(r) \/ Disturb(r)
    \/ \E s \in Slots : Override(s)

Spec == Init /\ [][Next]_vars

============================================================================
