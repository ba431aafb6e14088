------------------------ MODULE MCActionIdempotency ------------------------
(* Instances of ActionIdempotency for TLC. *)
EXTENDS ActionIdempotency, TLC

CONSTANTS r1, r2, k

\* Two executions of one action on one object, as a client and a replay of it
\* would issue them.
SameSlotCall ==
    [r \in Requests |-> [slot |-> k, object |-> "o", effect |-> "update_lifecycle",
                         fallback |-> "REJECT"]]

\* The same, with the catalogue entry edited between the two: the second
\* execution notifies instead, and a failure of it is dead-lettered.
EditedActionCall ==
    (r1 :> [slot |-> k, object |-> "o", effect |-> "update_lifecycle",
            fallback |-> "REJECT"])
    @@ (r2 :> [slot |-> k, object |-> "o", effect |-> "notify",
               fallback |-> "DEAD_LETTER"])

============================================================================
