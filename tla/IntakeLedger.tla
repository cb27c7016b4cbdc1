---------------------------- MODULE IntakeLedger ----------------------------
(***************************************************************************)
(* What the mail intake promises for each message, without queues,        *)
(* workers, retries or caches.  A message is on record once; while it is   *)
(* open (queued, running, parked as held, or stamped failed) it may be     *)
(* attributed to a candidate, once; then it is settled, once and for all,  *)
(* and settled as "completed" only with a candidate.                       *)
(***************************************************************************)
CONSTANTS
    Messages,   \* message ids
    People,     \* candidate ids
    Nobody      \* an intake row that points at no candidate

VARIABLES
    status,     \* status[m]: "none", "open", or how m was settled
    person      \* person[m]: the candidate m was attributed to

ledger == <<status, person>>

Settled == {"completed", "spam", "not_cv", "needs_review"}

Init ==
    /\ status = [m \in Messages |-> "none"]
    /\ person = [m \in Messages |-> Nobody]

Record(m) ==
    /\ status[m] = "none"
    /\ status' = [status EXCEPT ![m] = "open"]
    /\ UNCHANGED person

Attribute(m, p) ==
    /\ status[m] = "open"
    /\ person[m] = Nobody
    /\ person' = [person EXCEPT ![m] = p]
    /\ UNCHANGED status

Settle(m, s) ==
    /\ status[m] = "open"
    /\ s = "completed" => person[m] # Nobody
    /\ status' = [status EXCEPT ![m] = s]
    /\ UNCHANGED person

Next ==
    \E m \in Messages :
        \/ Record(m)
        \/ \E p \in People : Attribute(m, p)
        \/ \E s \in Settled : Settle(m, s)

Spec == Init /\ [][Next]_ledger
=============================================================================
