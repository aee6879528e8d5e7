------------------------------ MODULE TicketDesk ------------------------------
(***************************************************************************)
(* The ticket desk of TicketSense: ticket creation, the background         *)
(* pipeline that drafts or escalates every ticket, the reviewer's feedback *)
(* on a draft, the admin's decision on an escalation, and the assigned     *)
(* engineer's resolution (backend/app/routers/tickets.py, escalations.py,  *)
(* users.py; backend/app/services/pipeline.py).                            *)
(*                                                                         *)
(* Every handler is a coroutine with one database session: it reads rows   *)
(* one await at a time, checks the copies it read, and commits its writes  *)
(* in one transaction at the end.  PostgreSQL runs READ COMMITTED and no   *)
(* handler locks a row, so a commit overwrites what other handlers         *)
(* committed to the same columns after its reads.  One action below is the *)
(* reads of one check, or a commit.  Refused requests change nothing and   *)
(* are the Abort action.                                                   *)
(*                                                                         *)
(* Rows of feedback and escalations carry created_at = now(), which in     *)
(* PostgreSQL is when the transaction began, not when it committed.  A     *)
(* transaction that inserts such a row takes a tick of the clock when it   *)
(* begins, inserts at most one row of each table, and its tick is both the *)
(* row's created_at and, here, the row's id.                               *)
(***************************************************************************)
EXTENDS Naturals, FiniteSets

CONSTANTS
    Tickets,          \* tickets that may be created
    Users,            \* accounts
    Departments,
    InitialUsers,     \* the users table at the start
    Handlers,         \* requests the server has in flight at once: one model
                      \* value each, so a single one makes requests serial
    None,             \* NULL in a foreign key
    MaxTick,          \* bound on the clock
    MaxRequests,      \* bound on requests served
    MaxUserUpdates,   \* bound on PATCH /users
    MaxCrashes,       \* bound on restarts of the API process
    FallbackMayFail   \* whether the database may also fail the error path

Ticks == 1 .. MaxTick

Roles == {"end_user", "department_engineer", "admin"}

UserRow == [role : Roles, dept : Departments \cup {None}, active : BOOLEAN]

ASSUME NoneAssumption ==
    None \notin Tickets \cup Users \cup Departments

ASSUME BoundsAssumption ==
    /\ MaxTick \in Nat
    /\ MaxRequests \in Nat
    /\ MaxUserUpdates \in Nat
    /\ MaxCrashes \in Nat
    /\ FallbackMayFail \in BOOLEAN

ASSUME UsersAssumption == InitialUsers \in [Users -> UserRow]

VARIABLES
    tickets,       \* rows of tickets
    feedback,      \* rows of feedback, by created_at
    escalations,   \* rows of escalations, by created_at
    users,         \* rows of users
    run,           \* the pipeline's background task of every ticket
    req,           \* the request each handler is serving
    clock,         \* begin time of the youngest transaction that inserts rows
    served,        \* requests begun (bounded by MaxRequests)
    userUpdates,   \* bounded by MaxUserUpdates
    crashes        \* bounded by MaxCrashes

vars == <<tickets, feedback, escalations, users, run, req, clock, served,
          userUpdates, crashes>>

StatusOf == [t \in Tickets |-> tickets[t].status]

Lifecycle == INSTANCE TicketLifecycle WITH status <- StatusOf

----------------------------------------------------------------------------
(* Rows *)

Lanes == {"fast", "assisted", "escalate"}

\* draft: ai_draft_reply is not NULL.
TicketRow == [status : Lifecycle!Statuses \cup {"absent"},
              dept   : Departments \cup {None},
              lane   : Lanes \cup {"none"},
              draft  : BOOLEAN]

AbsentTicket == [status |-> "absent", dept |-> None, lane |-> "none", draft |-> FALSE]

NewTicket == [AbsentTicket EXCEPT !.status = "submitted"]

ReviewActions == {"accept", "edit", "reject", "escalate", "doubt"}

\* action "none": there is no row with this id.
FeedbackRow == [ticket   : Tickets \cup {None},
                reviewer : Users \cup {None},
                action   : ReviewActions \cup {"resolve", "none"}]

NoFeedback == [ticket |-> None, reviewer |-> None, action |-> "none"]

\* decision "none": there is no row with this id; "pending": admin_decision IS NULL.
EscalationRow == [ticket   : Tickets \cup {None},
                  tier     : {"senior", "admin"},
                  decision : {"none", "pending", "approved", "rejected"},
                  to       : Users \cup {None}]

NoEscalation == [ticket |-> None, tier |-> "admin", decision |-> "none", to |-> None]

\* Mutant: the tier column has no default.
NewEscalation_TierUnset(t, tier) ==
    [ticket |-> t, tier |-> None, decision |-> "pending", to |-> None]

\* A new row of escalations; the tier defaults to admin.
NewEscalation(t, tier) ==
    [ticket |-> t, tier |-> tier, decision |-> "pending", to |-> None]

EscalationsOf(t) ==
    {k \in Ticks : escalations[k].decision # "none" /\ escalations[k].ticket = t}

FeedbackOf(t) ==
    {k \in Ticks : feedback[k].action # "none" /\ feedback[k].ticket = t}

\* ORDER BY created_at DESC, first row.
IsLatestEscalation(k, t) ==
    /\ k \in EscalationsOf(t)
    /\ \A j \in EscalationsOf(t) : j <= k

----------------------------------------------------------------------------
(* Background runs and requests *)

\* created: the ticket is committed, the task not yet registered.
\* lost: no code will look at the ticket again.
RunPCs == {"none", "created", "queued", "running", "failed", "recovering", "done", "lost"}

RunRow == [pc : RunPCs, tick : Ticks \cup {0}]

Live(pc) == pc \in {"created", "queued", "running", "failed", "recovering"}

Kinds == {"feedback", "resolve", "approve", "reject"}

\* auth: the user row is read.     found: the escalation row is read (by id).
\* opened: an escalated ticket is read, the engineer's access to it is not checked yet.
\* loaded: the ticket row is read. ready: every check passed, only the commit is left.
ReqPCs == {"idle", "auth", "found", "opened", "loaded", "ready"}

ReqRow == [pc     : ReqPCs,
           kind   : Kinds,
           user   : Users \cup {None},          \* current_user, as read
           role   : Roles,
           dept   : Departments \cup {None},
           tick   : Ticks \cup {0},
           ticket : Tickets \cup {None},
           esc    : Ticks \cup {0},             \* the escalation being decided
           seen   : Departments \cup {None},    \* the ticket's department, as read
           to     : Users \cup {None},          \* the engineer it is approved to
           route  : Departments \cup {None}]    \* the department the approval writes

Idle == [pc |-> "idle", kind |-> "feedback", user |-> None, role |-> "end_user",
         dept |-> None, tick |-> 0, ticket |-> None, esc |-> 0, seen |-> None,
         to |-> None, route |-> None]

TypeOK ==
    /\ tickets \in [Tickets -> TicketRow]
    /\ feedback \in [Ticks -> FeedbackRow]
    /\ escalations \in [Ticks -> EscalationRow]
    /\ users \in [Users -> UserRow]
    /\ run \in [Tickets -> RunRow]
    /\ req \in [Handlers -> ReqRow]
    /\ clock \in Ticks \cup {0}
    /\ served \in 0 .. MaxRequests
    /\ userUpdates \in 0 .. MaxUserUpdates
    /\ crashes \in 0 .. MaxCrashes

Init ==
    /\ tickets = [t \in Tickets |-> AbsentTicket]
    /\ feedback = [k \in Ticks |-> NoFeedback]
    /\ escalations = [k \in Ticks |-> NoEscalation]
    /\ users = InitialUsers
    /\ run = [t \in Tickets |-> [pc |-> "none", tick |-> 0]]
    /\ req = [h \in Handlers |-> Idle]
    /\ clock = 0
    /\ served = 0
    /\ userUpdates = 0
    /\ crashes = 0

----------------------------------------------------------------------------
(* POST /tickets and the pipeline's background task *)

\* create_ticket commits the row; any user but an annotator or a participant.
Create(t) ==
    /\ tickets[t].status = "absent"
    /\ tickets' = [tickets EXCEPT ![t] = NewTicket]
    /\ run' = [run EXCEPT ![t].pc = "created"]
    /\ UNCHANGED <<feedback, escalations, users, req, clock, served, userUpdates, crashes>>

\* create_ticket refreshes its copy and registers the background task.  When the
\* refresh raises, the task is never registered.
Schedule(t) ==
    /\ run[t].pc = "created"
    /\ \/ run' = [run EXCEPT ![t].pc = "queued"]
       \/ /\ FallbackMayFail
          /\ run' = [run EXCEPT ![t].pc = "lost"]
    /\ UNCHANGED <<tickets, feedback, escalations, users, req, clock, served, userUpdates,
                   crashes>>

\* _run opens its transaction and reads the ticket.
StartRun(t) ==
    /\ run[t].pc = "queued"
    /\ clock < MaxTick
    /\ clock' = clock + 1
    /\ run' = [run EXCEPT ![t] = [pc |-> "running", tick |-> clock + 1]]
    /\ UNCHANGED <<tickets, feedback, escalations, users, req, served, userUpdates, crashes>>

\* The states _run may leave a ticket in, for the department d the classifier
\* named (None: it exists in no row) and the lane the gate chose.
Outcome(t, d, lane) ==
    IF d = None
    THEN [tickets[t] EXCEPT !.status = "escalated", !.lane = "escalate"]
    ELSE [tickets[t] EXCEPT !.status = IF lane = "escalate" THEN "escalated" ELSE "drafted",
                            !.dept = d, !.lane = lane, !.draft = (lane # "escalate")]

\* Mutant: only a draft the gate withheld gets an escalation row.
IsWithheld_ByGateOnly(d, lane) == d # None /\ lane = "escalate"

\* Whether the run escalates the ticket: it has no department, or its draft is withheld.
IsWithheld(d, lane) == d = None \/ lane = "escalate"

\* Mutant: the first stage is committed on its own.
RolledBack_StagePersisted(t) == [tickets[t] EXCEPT !.status = "classified"]

\* What is left of a run that raised: nothing, its transaction is rolled back.
RolledBack(t) == tickets[t]

\* The commit at the end of _run.  With ack FALSE the database applied the commit
\* and the connection broke before the answer, so _run raises all the same.
CommitRun(t, d, lane, ack) ==
    /\ run[t].pc = "running"
    /\ tickets' = [tickets EXCEPT ![t] = Outcome(t, d, lane)]
    /\ escalations' =
          IF IsWithheld(d, lane)
          THEN [escalations EXCEPT
                  ![run[t].tick] = NewEscalation(t, IF d = None THEN "admin" ELSE "senior")]
          ELSE escalations
    /\ run' = [run EXCEPT ![t] = [pc |-> IF ack THEN "done" ELSE "failed", tick |-> 0]]
    /\ UNCHANGED <<feedback, users, req, clock, served, userUpdates, crashes>>

\* Mutant: nothing catches the exception.
AfterFailure_Uncaught == "lost"

\* Where run_ticket_pipeline goes when _run raises: to its except clause.
AfterFailure == "failed"

\* A node, a flush or the commit raises; the session closes and rolls back.
FailRun(t) ==
    /\ run[t].pc = "running"
    /\ tickets' = [tickets EXCEPT ![t] = RolledBack(t)]
    /\ run' = [run EXCEPT ![t] = [pc |-> AfterFailure, tick |-> 0]]
    /\ UNCHANGED <<feedback, escalations, users, req, clock, served, userUpdates, crashes>>

\* The except clause reads the ticket again, in a session of its own, and
\* escalates only a ticket whose run left nothing behind.
MustRecover(t) == tickets[t].status \in Lifecycle!Unfinished

LoadFailedTicket(t) ==
    /\ run[t].pc = "failed"
    /\ clock < MaxTick
    /\ clock' = clock + 1
    /\ run' = [run EXCEPT ![t] = IF MustRecover(t)
                                 THEN [pc |-> "recovering", tick |-> clock + 1]
                                 ELSE [pc |-> "done", tick |-> 0]]
    /\ UNCHANGED <<tickets, feedback, escalations, users, req, served, userUpdates, crashes>>

EscalateFailedTicket(t) ==
    /\ run[t].pc = "recovering"
    /\ tickets' = [tickets EXCEPT ![t] = [@ EXCEPT !.status = "escalated", !.lane = "escalate"]]
    /\ escalations' = [escalations EXCEPT ![run[t].tick] = NewEscalation(t, "admin")]
    /\ run' = [run EXCEPT ![t] = [pc |-> "done", tick |-> 0]]
    /\ UNCHANGED <<feedback, users, req, clock, served, userUpdates, crashes>>

\* The error path raises too; this is only logged.
LoseRun(t) ==
    /\ FallbackMayFail
    /\ run[t].pc \in {"failed", "recovering"}
    /\ run' = [run EXCEPT ![t] = [pc |-> "lost", tick |-> 0]]
    /\ UNCHANGED <<tickets, feedback, escalations, users, req, clock, served, userUpdates,
                   crashes>>

----------------------------------------------------------------------------
(* Requests *)

RoleMay(role, kind) ==
    IF kind \in {"approve", "reject"} THEN role = "admin"
    ELSE role \in {"department_engineer", "admin"}

\* get_current_user reads the account, require_role and _require_reviewer check
\* its role.  The transaction of this session begins here.
Authenticate(h, u, kind) ==
    /\ req[h].pc = "idle"
    /\ served < MaxRequests
    /\ users[u].active
    /\ RoleMay(users[u].role, kind)
    /\ LET inserts == kind \in {"feedback", "resolve"}
       IN  /\ inserts => clock < MaxTick
           /\ clock' = IF inserts THEN clock + 1 ELSE clock
           /\ req' = [req EXCEPT ![h] =
                [Idle EXCEPT !.pc = "auth", !.kind = kind, !.user = u,
                             !.role = users[u].role, !.dept = users[u].dept,
                             !.tick = IF inserts THEN clock + 1 ELSE 0]]
    /\ served' = served + 1
    /\ UNCHANGED <<tickets, feedback, escalations, users, run, userUpdates, crashes>>

\* A check fails, the client goes away or the database raises: the session closes
\* without a commit.
Abort(h) ==
    /\ req[h].pc # "idle"
    /\ req' = [req EXCEPT ![h] = Idle]
    /\ UNCHANGED <<tickets, feedback, escalations, users, run, clock, served, userUpdates,
                   crashes>>

\* _get_ticket_or_403 for a reviewer, on the ticket as read.
MayOpen(r, t) == r.role = "admin" \/ tickets[t].dept = r.dept

\* The rest of it for an escalated ticket: an engineer must be assigned to it, or be
\* the last who sent it back.
MayOpenEscalated(r) ==
    \/ r.role = "admin"
    \/ \E k \in EscalationsOf(r.ticket) : escalations[k].to = r.user
    \/ \E k \in FeedbackOf(r.ticket) :
          /\ feedback[k].action \in {"escalate", "doubt"}
          /\ feedback[k].reviewer = r.user
          /\ \A j \in FeedbackOf(r.ticket) :
                feedback[j].action \in {"escalate", "doubt"} => j <= k

\* Mutant: a reviewed ticket can be reviewed again.
StatusAllows_SecondReview(kind, s) ==
    IF kind = "feedback" THEN s \in {"drafted", "reviewed"} ELSE s = "escalated"

\* Mutant: a resolved escalation can be resolved again.
StatusAllows_SecondResolve(kind, s) ==
    IF kind = "feedback" THEN s = "drafted" ELSE s \in {"escalated", "reviewed"}

\* The status a ticket must have for each kind of request.
StatusAllows(kind, s) ==
    IF kind = "feedback" THEN s = "drafted" ELSE s = "escalated"

\* submit_ticket_feedback and resolve_escalation read the ticket.
LoadTicket(h, t) ==
    /\ req[h].pc = "auth"
    /\ req[h].kind \in {"feedback", "resolve"}
    /\ MayOpen(req[h], t)
    /\ StatusAllows(req[h].kind, tickets[t].status)
    /\ req' = [req EXCEPT ![h] =
                 [@ EXCEPT !.pc = IF req[h].kind = "feedback" THEN "ready" ELSE "opened",
                           !.ticket = t]]
    /\ UNCHANGED <<tickets, feedback, escalations, users, run, clock, served, userUpdates,
                   crashes>>

\* resolve_escalation reads what an engineer's access to an escalated ticket rests on.
LoadAssignment(h) ==
    /\ req[h].pc = "opened"
    /\ MayOpenEscalated(req[h])
    /\ req' = [req EXCEPT ![h].pc = "loaded"]
    /\ UNCHANGED <<tickets, feedback, escalations, users, run, clock, served, userUpdates,
                   crashes>>

SentBack(a) == a \in {"escalate", "doubt"}

\* Mutant: a rejected draft is removed from the ticket.
AfterReview_DraftErased(t, a) ==
    [tickets[t] EXCEPT !.status = IF SentBack(a) THEN "escalated" ELSE "reviewed",
                       !.draft = (a # "reject")]

\* The ticket after review action a.
AfterReview(t, a) ==
    [tickets[t] EXCEPT !.status = IF SentBack(a) THEN "escalated" ELSE "reviewed"]

\* submit_ticket_feedback commits: the feedback row, the ticket's status and, when
\* the reviewer escalates or doubts, an escalation row.
CommitFeedback(h, a) ==
    /\ req[h].pc = "ready"
    /\ req[h].kind = "feedback"
    /\ LET t == req[h].ticket
       IN  /\ feedback' = [feedback EXCEPT ![req[h].tick] =
                             [ticket |-> t, reviewer |-> req[h].user, action |-> a]]
           /\ escalations' = IF SentBack(a)
                             THEN [escalations EXCEPT ![req[h].tick] = NewEscalation(t, "admin")]
                             ELSE escalations
           /\ tickets' = [tickets EXCEPT ![t] = AfterReview(t, a)]
    /\ req' = [req EXCEPT ![h] = Idle]
    /\ UNCHANGED <<users, run, clock, served, userUpdates, crashes>>

\* resolve_escalation's check of the escalation and _require_assigned_engineer_or_admin.
MayResolve(r, k) ==
    /\ escalations[k].decision = "approved"
    /\ r.role = "admin" \/ (r.role = "department_engineer" /\ escalations[k].to = r.user)

\* resolve_escalation reads the ticket's latest escalation.
LoadLatestEscalation(h) ==
    /\ req[h].pc = "loaded"
    /\ req[h].kind = "resolve"
    /\ \E k \in Ticks :
          /\ IsLatestEscalation(k, req[h].ticket)
          /\ MayResolve(req[h], k)
    /\ req' = [req EXCEPT ![h].pc = "ready"]
    /\ UNCHANGED <<tickets, feedback, escalations, users, run, clock, served, userUpdates,
                   crashes>>

CommitResolve(h) ==
    /\ req[h].pc = "ready"
    /\ req[h].kind = "resolve"
    /\ feedback' = [feedback EXCEPT ![req[h].tick] =
                      [ticket |-> req[h].ticket, reviewer |-> req[h].user, action |-> "resolve"]]
    /\ tickets' = [tickets EXCEPT ![req[h].ticket].status = "reviewed"]
    /\ req' = [req EXCEPT ![h] = Idle]
    /\ UNCHANGED <<escalations, users, run, clock, served, userUpdates, crashes>>

\* Mutant: a decided escalation is decided again.
IsPending_Any(k) == escalations[k].decision # "none"

IsPending(k) == escalations[k].decision = "pending"

\* _get_pending_escalation_or_404, first read: the escalation, undecided.
LoadEscalation(h, k) ==
    /\ req[h].pc = "auth"
    /\ req[h].kind \in {"approve", "reject"}
    /\ IsPending(k)
    /\ req' = [req EXCEPT ![h] =
                 [@ EXCEPT !.pc = "found", !.esc = k, !.ticket = escalations[k].ticket]]
    /\ UNCHANGED <<tickets, feedback, escalations, users, run, clock, served, userUpdates,
                   crashes>>

\* _get_pending_escalation_or_404, second read: its ticket, still escalated.
LoadEscalatedTicket(h) ==
    /\ req[h].pc = "found"
    /\ tickets[req[h].ticket].status = "escalated"
    /\ req' = [req EXCEPT ![h] =
                 [@ EXCEPT !.pc = IF req[h].kind = "reject" THEN "ready" ELSE "loaded",
                           !.seen = tickets[req[h].ticket].dept]]
    /\ UNCHANGED <<tickets, feedback, escalations, users, run, clock, served, userUpdates,
                   crashes>>

\* Mutant: any engineer takes any ticket.
MayTake_AnyDepartment(v, dept) == TRUE

\* A ticket the pipeline routed goes to an engineer of its department; one it could
\* not route goes to the department of any engineer.
MayTake(v, dept) == dept \in {None, users[v].dept}

\* approve_escalation reads the engineer.
LoadEngineer(h, v) ==
    /\ req[h].pc = "loaded"
    /\ req[h].kind = "approve"
    /\ users[v].role = "department_engineer"
    /\ users[v].active
    /\ MayTake(v, req[h].seen)
    /\ req' = [req EXCEPT ![h] =
                 [@ EXCEPT !.pc = "ready", !.to = v,
                           !.route = IF req[h].seen = None THEN users[v].dept ELSE None]]
    /\ UNCHANGED <<tickets, feedback, escalations, users, run, clock, served, userUpdates,
                   crashes>>

\* approve_escalation commits.  The ticket's status is left alone; its department
\* is written only when the copy read had none.
CommitApprove(h) ==
    /\ req[h].pc = "ready"
    /\ req[h].kind = "approve"
    /\ escalations' = [escalations EXCEPT ![req[h].esc] =
                         [@ EXCEPT !.decision = "approved", !.to = req[h].to]]
    /\ tickets' = IF req[h].route = None
                  THEN tickets
                  ELSE [tickets EXCEPT ![req[h].ticket].dept = req[h].route]
    /\ req' = [req EXCEPT ![h] = Idle]
    /\ UNCHANGED <<feedback, users, run, clock, served, userUpdates, crashes>>

\* The ticket after its escalation is rejected.
AfterReject(t) == [tickets[t] EXCEPT !.status = "closed"]

\* reject_escalation commits.
CommitReject(h) ==
    /\ req[h].pc = "ready"
    /\ req[h].kind = "reject"
    /\ escalations' = [escalations EXCEPT ![req[h].esc].decision = "rejected"]
    /\ tickets' = [tickets EXCEPT ![req[h].ticket] = AfterReject(req[h].ticket)]
    /\ req' = [req EXCEPT ![h] = Idle]
    /\ UNCHANGED <<feedback, users, run, clock, served, userUpdates, crashes>>

----------------------------------------------------------------------------
(* What the lists show *)

\* Mutant: an approved escalation stays hidden like a pending one.
Visible_Unescalated(u, t) ==
    \/ users[u].role = "admin"
    \/ /\ users[u].role = "department_engineer"
       /\ tickets[t].dept = users[u].dept
       /\ tickets[t].status # "escalated"

\* _visibility_filter for staff.  For an engineer without a department the comparison is IS
\* NULL: such an engineer's list holds the tickets without one.
Visible(u, t) ==
    \/ users[u].role = "admin"
    \/ /\ users[u].role = "department_engineer"
       /\ tickets[t].dept = users[u].dept
       /\ \/ tickets[t].status # "escalated"
          \/ \E k \in EscalationsOf(t) : escalations[k].to = u

\* list_tickets without its optional filters.
ListFor(u) == {t \in Tickets : tickets[t].status # "absent" /\ Visible(u, t)}

\* _final_responses_for: the rows a reviewed ticket's reply is taken from; the last read wins.
FinalResponses(t) ==
    IF tickets[t].status = "reviewed"
    THEN {k \in FeedbackOf(t) : feedback[k].action \in {"accept", "edit", "resolve"}}
    ELSE {}

\* list_pending_escalations
InAdminQueue(t) ==
    \E k \in Ticks : IsLatestEscalation(k, t) /\ escalations[k].decision = "pending"

----------------------------------------------------------------------------
(* The environment *)

\* PATCH /users by an active admin: role, department and active flag.
UpdateUser(u) ==
    /\ userUpdates < MaxUserUpdates
    /\ \E a \in Users : users[a].active /\ users[a].role = "admin"
    /\ \E row \in UserRow \ {users[u]} : users' = [users EXCEPT ![u] = row]
    /\ userUpdates' = userUpdates + 1
    /\ UNCHANGED <<tickets, feedback, escalations, run, req, clock, served, crashes>>

\* The API process restarts: background tasks live in its memory only, and nothing
\* at startup looks for tickets whose task is gone.
Crash ==
    /\ crashes < MaxCrashes
    /\ crashes' = crashes + 1
    /\ run' = [t \in Tickets |-> IF Live(run[t].pc) THEN [pc |-> "lost", tick |-> 0] ELSE run[t]]
    /\ req' = [h \in Handlers |-> Idle]
    /\ UNCHANGED <<tickets, feedback, escalations, users, clock, served, userUpdates>>

\* What the event loop runs for one ticket's task.
RunStep(t) ==
    \/ Schedule(t)
    \/ StartRun(t)
    \/ \E d \in Departments \cup {None}, lane \in Lanes, ack \in BOOLEAN :
          CommitRun(t, d, lane, ack)
    \/ FailRun(t)
    \/ LoadFailedTicket(t)
    \/ EscalateFailedTicket(t)
    \/ LoseRun(t)

RequestStep(h) ==
    \/ \E u \in Users, kind \in Kinds : Authenticate(h, u, kind)
    \/ Abort(h)
    \/ \E t \in Tickets : LoadTicket(h, t)
    \/ LoadAssignment(h)
    \/ \E a \in ReviewActions : CommitFeedback(h, a)
    \/ LoadLatestEscalation(h)
    \/ CommitResolve(h)
    \/ \E k \in Ticks : LoadEscalation(h, k)
    \/ LoadEscalatedTicket(h)
    \/ \E v \in Users : LoadEngineer(h, v)
    \/ CommitApprove(h)
    \/ CommitReject(h)

Next ==
    \/ \E t \in Tickets : Create(t) \/ RunStep(t)
    \/ \E h \in Handlers : RequestStep(h)
    \/ \E u \in Users : UpdateUser(u)
    \/ Crash

Spec == Init /\ [][Next]_vars

\* The event loop keeps running a registered task and every await of it returns:
\* the model calls time out, and the database answers or raises.
FairSpec == Spec /\ \A t \in Tickets : WF_vars(RunStep(t))

----------------------------------------------------------------------------
(* Properties that hold however handlers, tasks and failures interleave *)

Undecided == {"absent"} \cup Lifecycle!Unfinished

\* An escalated ticket always has an escalation nobody rejected: pending in the
\* admin queue or approved to an engineer.
SomeoneResponsible ==
    \A t \in Tickets :
        tickets[t].status = "escalated" =>
            \E k \in EscalationsOf(t) : escalations[k].decision \in {"pending", "approved"}

\* The escalations of t that no reviewer caused.
PipelineEscalations(t) == {k \in EscalationsOf(t) : feedback[k].action = "none"}

\* The pipeline and its error path decide a ticket exactly once between them, all or
\* nothing: a shown draft and no escalation, or one escalation and no shown draft; and
\* until then no stage of a run is visible and no row refers to the ticket.
PipelineDecidesOnce ==
    \A t \in Tickets :
        LET escs == PipelineEscalations(t)
        IN  IF tickets[t].status \in Undecided
            THEN /\ tickets[t] \in {AbsentTicket, NewTicket}
                 /\ EscalationsOf(t) = {}
                 /\ FeedbackOf(t) = {}
            ELSE IF tickets[t].draft
                 THEN tickets[t].lane \in {"fast", "assisted"} /\ escs = {}
                 ELSE tickets[t].lane = "escalate" /\ Cardinality(escs) = 1

\* The pipeline named the ticket's department: it drafted a reply, shown or withheld.
WasRouted(t) ==
    \/ tickets[t].draft
    \/ \E k \in EscalationsOf(t) : escalations[k].tier = "senior"

\* Every decision has its author and its ground: a reviewed or closed ticket records the
\* human who decided it, a review rests on a shown draft and a resolution on an escalation
\* that was assigned; while nobody edits accounts, to an engineer, and one of the ticket's
\* department when the pipeline routed the ticket.  (A ticket it could not route takes the
\* department of the engineer chosen, and three overlapping approvals can leave it with the
\* department of one and assigned to another.)
DecisionsAreJustified ==
    /\ \A t \in Tickets :
          /\ tickets[t].status = "reviewed" =>
                \E k \in FeedbackOf(t) :
                    feedback[k].action \in {"accept", "edit", "reject", "resolve"}
          /\ tickets[t].status = "closed" =>
                \E k \in EscalationsOf(t) : escalations[k].decision # "pending"
    /\ \A k \in Ticks :
          LET t == feedback[k].ticket
          IN  /\ feedback[k].action \in ReviewActions => tickets[t].draft
              /\ feedback[k].action = "resolve" =>
                    \E j \in EscalationsOf(t) : escalations[j].to # None
    /\ \A k \in Ticks :
          (escalations[k].decision = "approved" /\ userUpdates = 0) =>
              LET v == escalations[k].to
                  t == escalations[k].ticket
              IN  /\ v \in Users
                  /\ users[v].role = "department_engineer"
                  /\ WasRouted(t) => users[v].dept = tickets[t].dept

\* The AI's own output is an audit trail: once the pipeline decided, no review,
\* approval or resolution changes the draft or the lane.
DraftIsImmutable ==
    [][\A t \in Tickets :
          tickets[t].status \notin Undecided =>
              /\ tickets'[t].draft = tickets[t].draft
              /\ tickets'[t].lane = tickets[t].lane]_vars

\* A ticket in an early status has a task that will still handle it.
NoTicketStranded ==
    \A t \in Tickets :
        tickets[t].status \in Lifecycle!Unfinished => Live(run[t].pc)

\* Every created ticket reaches a status in which a human is responsible for it.
EveryTicketIsTaken ==
    \A t \in Tickets :
        tickets[t].status = "submitted" ~> tickets[t].status \notin Undecided

----------------------------------------------------------------------------
(* Properties of a desk that serves one request at a time *)

\* A draft is reviewed at most once.
ReviewedOnce ==
    \A t \in Tickets :
        Cardinality({k \in FeedbackOf(t) : feedback[k].action \in ReviewActions}) <= 1

\* Whoever wrote row k of the feedback was responsible for its ticket: an admin or, on a
\* draft, an engineer of its department and, on an escalation, the engineer it was assigned to.
IsResponsible(k) ==
    LET v == feedback[k].reviewer
        t == feedback[k].ticket
    IN  \/ users[v].role = "admin"
        \/ users[v].dept = tickets[t].dept /\ feedback[k].action \in ReviewActions
        \/ /\ feedback[k].action = "resolve"
           /\ \E j \in EscalationsOf(t) : escalations[j].to = v

\* A reviewed ticket has at most one reply on record as sent to its submitter, so the rows
\* that are read in no particular order cannot disagree, and everything on record comes from
\* somebody responsible for the ticket.
OneAnswer ==
    /\ \A t \in Tickets : Cardinality(FinalResponses(t)) <= 1
    /\ \A k \in Ticks : feedback[k].action # "none" => IsResponsible(k)

\* While nobody edits accounts the queues are true: the admin queue lists escalated tickets
\* only, and every escalated ticket waits in it or is assigned, by the escalation that
\* resolve_escalation will read, to an engineer in whose list it is, be it one without a
\* department who was given a ticket that has none.
QueuesAreTrue ==
    \A t \in Tickets :
        /\ InAdminQueue(t) => tickets[t].status = "escalated"
        /\ tickets[t].status = "escalated" =>
              \/ InAdminQueue(t)
              \/ \E k \in Ticks :
                    /\ IsLatestEscalation(k, t)
                    /\ escalations[k].decision = "approved"
                    /\ t \in ListFor(escalations[k].to)

\* An admin's decision is final.
DecisionIsFinal ==
    [][\A k \in Ticks :
          escalations[k].decision \in {"approved", "rejected"} =>
              escalations'[k] = escalations[k]]_vars

\* A closed ticket stays closed.
ClosedIsTerminal ==
    [][\A t \in Tickets :
          tickets[t].status = "closed" => tickets'[t].status = "closed"]_vars

\* The engineer an escalated ticket was approved to can act on it.
OwnerCanAct ==
    \A k \in Ticks :
        LET t == escalations[k].ticket
            v == escalations[k].to
        IN  (escalations[k].decision = "approved" /\ tickets[t].status = "escalated") =>
                /\ users[v].active
                /\ users[v].role = "department_engineer"
                /\ users[v].dept = tickets[t].dept

\* Committed statuses follow the arrows of the lifecycle.
FollowsLifecycle == Lifecycle!Spec
=============================================================================
