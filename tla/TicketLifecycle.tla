--------------------------- MODULE TicketLifecycle ---------------------------
(***************************************************************************)
(* The ticket lifecycle of backend/app/services/ticket_lifecycle.py: the   *)
(* statuses, the table of legal transitions, and the state machine that    *)
(* docs/ticket-lifecycle.md promises a reader of the tickets table.        *)
(*                                                                         *)
(* Only committed statuses are observable, and one transaction may take    *)
(* several arrows of the table: the pipeline takes submitted -> classified *)
(* -> routed -> drafted and commits once.  A step of this specification    *)
(* therefore moves one ticket along a path of the table whose inner nodes  *)
(* are statuses in which nobody is responsible for the ticket.             *)
(***************************************************************************)
CONSTANT Tickets

VARIABLE status        \* the committed status of every ticket

Statuses == {"submitted", "classified", "routed", "drafted", "reviewed",
             "escalated", "closed"}

\* A ticket that has not been created has the status "absent".
TypeOK == status \in [Tickets -> Statuses \cup {"absent"}]

\* Statuses only a pipeline run passes through (UNFINISHED in pipeline.py).
Unfinished == {"submitted", "classified", "routed"}

\* _VALID_TRANSITIONS: the arrows leaving each status.
NextStatuses(s) ==
    CASE s = "submitted"  -> {"classified", "escalated"}
      [] s = "classified" -> {"routed", "escalated"}
      [] s = "routed"     -> {"drafted", "escalated"}
      [] s = "drafted"    -> {"reviewed", "escalated"}
      [] s = "reviewed"   -> {"closed"}
      [] s = "escalated"  -> {"closed", "reviewed"}
      [] OTHER            -> {}

CanTransition(current, target) == target \in NextStatuses(current)

\* The statuses one transaction may leave a ticket of status s in.
OneTransaction(s) ==
    {u \in Statuses \ Unfinished :
        \/ CanTransition(s, u)
        \/ \E v \in Unfinished :
              /\ CanTransition(s, v)
              /\ \/ CanTransition(v, u)
                 \/ \E w \in Unfinished : CanTransition(v, w) /\ CanTransition(w, u)}

----------------------------------------------------------------------------

Init == status = [t \in Tickets |-> "absent"]

Create(t) ==
    /\ status[t] = "absent"
    /\ status' = [status EXCEPT ![t] = "submitted"]

Advance(t) ==
    \E u \in OneTransaction(status[t]) : status' = [status EXCEPT ![t] = u]

Next == \E t \in Tickets : Create(t) \/ Advance(t)

Spec == Init /\ [][Next]_status
=============================================================================
