----------------------------- MODULE MCTicketDesk -----------------------------
(***************************************************************************)
(* Instances of TicketDesk for TLC.                                        *)
(***************************************************************************)
EXTENDS TicketDesk, TLC

CONSTANTS ada, eve, rob, it, hr

\* An admin, and an engineer in each of two departments.
MCUsers == {ada, eve, rob}

MCDepartments == {it, hr}

MCInitialUsers ==
    (ada :> [role |-> "admin", dept |-> None, active |-> TRUE]) @@
    (eve :> [role |-> "department_engineer", dept |-> it, active |-> TRUE]) @@
    (rob :> [role |-> "department_engineer", dept |-> hr, active |-> TRUE])

\* The same, with an engineer whose account has no department: POST /users takes one.
MCUsersOneWithoutDepartment ==
    [MCInitialUsers EXCEPT ![rob].dept = None]

\* The clock never blocks a transaction: a ticket's task begins at most two that
\* insert timestamped rows, a request one.
MCMaxTick == MaxRequests + 2 * Cardinality(Tickets)

Symmetry == Permutations(Handlers)
=============================================================================
