--------------------------- MODULE TicketDeskProofs ---------------------------
(***************************************************************************)
(* Proofs about TicketDesk, for any number of tickets, accounts, requests  *)
(* in flight and restarts.                                                 *)
(***************************************************************************)
EXTENDS TicketDesk, FiniteSetTheorems, TLAPS

----------------------------------------------------------------------------
(* Types *)

(***************************************************************************)
(* What a request has read exists: its ticket, and the escalation an admin *)
(* decides.  Without it the copy of a department that approve_escalation   *)
(* keeps has no type.                                                      *)
(***************************************************************************)
HasRead(r) ==
    r.pc \in {"found", "opened", "loaded", "ready"} =>
        /\ r.ticket \in Tickets
        /\ r.kind \in {"approve", "reject"} =>
              r.esc \in Ticks /\ escalations[r.esc].decision # "none"

ReadsExist ==
    /\ \A k \in Ticks :
          escalations[k].decision # "none" => escalations[k].ticket \in Tickets
    /\ \A h \in Handlers : HasRead(req[h])

LEMMA TypeInit == Init => TypeOK
BY BoundsAssumption, UsersAssumption
   DEF Init, TypeOK, AbsentTicket, TicketRow, Lanes, NoFeedback, FeedbackRow, NoEscalation,
       EscalationRow, RunRow, RunPCs, Idle, ReqRow, ReqPCs, Kinds, Roles

\* The row every escalating handler inserts.
LEMMA NewEscalationType ==
    ASSUME NEW t \in Tickets \cup {None}, NEW tier \in {"senior", "admin"}
    PROVE  NewEscalation(t, tier) \in EscalationRow
BY DEF NewEscalation, EscalationRow

LEMMA TypeRunStep ==
    ASSUME TypeOK, NEW t \in Tickets, RunStep(t)
    PROVE  TypeOK'
<1> USE DEF TypeOK
<1>1. CASE Schedule(t)
  BY <1>1 DEF Schedule, RunRow, RunPCs
<1>2. CASE StartRun(t)
  BY <1>2, BoundsAssumption DEF StartRun, RunRow, RunPCs, Ticks
<1>3. ASSUME NEW d \in Departments \cup {None}, NEW lane \in Lanes, NEW ack \in BOOLEAN,
             CommitRun(t, d, lane, ack)
      PROVE  TypeOK'
  <2>1. Outcome(t, d, lane) \in TicketRow
    BY DEF Outcome, TicketRow, Lanes, Lifecycle!Statuses
  <2>2. NewEscalation(t, IF d = None THEN "admin" ELSE "senior") \in EscalationRow
    BY NewEscalationType
  <2>3. [pc |-> IF ack THEN "done" ELSE "failed", tick |-> 0] \in RunRow
    BY DEF RunRow, RunPCs
  <2> QED BY <1>3, <2>1, <2>2, <2>3 DEF CommitRun
<1>4. CASE FailRun(t)
  <2>1. [pc |-> AfterFailure, tick |-> 0] \in RunRow
    BY DEF RunRow, RunPCs, AfterFailure
  <2> QED BY <1>4, <2>1 DEF FailRun, RolledBack
<1>5. CASE LoadFailedTicket(t)
  BY <1>5, BoundsAssumption DEF LoadFailedTicket, RunRow, RunPCs, Ticks
<1>6. CASE EscalateFailedTicket(t)
  <2>1. [tickets[t] EXCEPT !.status = "escalated", !.lane = "escalate"] \in TicketRow
    BY DEF TicketRow, Lanes, Lifecycle!Statuses
  <2>2. [pc |-> "done", tick |-> 0] \in RunRow
    BY DEF RunRow, RunPCs
  <2> QED BY <1>6, <2>1, <2>2, NewEscalationType DEF EscalateFailedTicket
<1>7. CASE LoseRun(t)
  BY <1>7 DEF LoseRun, RunRow, RunPCs
<1> QED BY <1>1, <1>2, <1>3, <1>4, <1>5, <1>6, <1>7 DEF RunStep

LEMMA TypeRequestStep ==
    ASSUME TypeOK, ReadsExist, NEW h \in Handlers, RequestStep(h)
    PROVE  TypeOK'
<1> USE DEF TypeOK
<1>0. Idle \in ReqRow
  BY DEF Idle, ReqRow, ReqPCs, Kinds, Roles
<1>1. ASSUME NEW u \in Users, NEW kind \in Kinds, Authenticate(h, u, kind)
      PROVE  TypeOK'
  <2>1. users[u].role \in Roles /\ users[u].dept \in Departments \cup {None}
    BY DEF UserRow
  <2>2. clock' \in Ticks \cup {0} /\ served' \in 0 .. MaxRequests
    BY <1>1, BoundsAssumption DEF Authenticate, Ticks
  <2>3. req'[h] \in ReqRow
    <3> DEFINE k == IF kind \in {"feedback", "resolve"} THEN clock + 1 ELSE 0
    <3>1. k \in Ticks \cup {0}
      BY <1>1, BoundsAssumption DEF Authenticate, Ticks
    <3>2. req'[h] = [Idle EXCEPT !.pc = "auth", !.kind = kind, !.user = u,
                                 !.role = users[u].role, !.dept = users[u].dept,
                                 !.tick = k]
      BY <1>1 DEF Authenticate
    <3> HIDE DEF k
    <3> QED BY <2>1, <3>1, <3>2, ZenonT(40) DEF Idle, ReqRow, ReqPCs
  <2>4. req' \in [Handlers -> ReqRow]
    BY <1>1, <2>3 DEF Authenticate
  <2> QED BY <1>1, <2>2, <2>4 DEF Authenticate
<1>2. CASE Abort(h)
  BY <1>0, <1>2 DEF Abort
<1>3. ASSUME NEW t \in Tickets, LoadTicket(h, t)
      PROVE  TypeOK'
  <2>1. [req[h] EXCEPT !.pc = IF req[h].kind = "feedback" THEN "ready" ELSE "opened",
                       !.ticket = t] \in ReqRow
    BY ZenonT(40) DEF ReqRow, ReqPCs
  <2> QED BY <1>3, <2>1 DEF LoadTicket
<1>3a. CASE LoadAssignment(h)
  BY <1>3a DEF LoadAssignment, ReqRow, ReqPCs
<1>4. ASSUME NEW a \in ReviewActions, CommitFeedback(h, a)
      PROVE  TypeOK'
  <2> DEFINE t == req[h].ticket
  <2>1. t \in Tickets \cup {None} /\ req[h].user \in Users \cup {None}
    BY DEF ReqRow
  <2>2. [ticket |-> t, reviewer |-> req[h].user, action |-> a] \in FeedbackRow
    BY <2>1 DEF FeedbackRow
  <2>3. NewEscalation(t, "admin") \in EscalationRow
    BY <2>1, NewEscalationType
  <2>4. t \in Tickets => AfterReview(t, a) \in TicketRow
    BY DEF AfterReview, TicketRow, Lifecycle!Statuses
  <2> HIDE DEF t
  <2>5. /\ feedback' = [feedback EXCEPT ![req[h].tick] =
                          [ticket |-> t, reviewer |-> req[h].user, action |-> a]]
        /\ escalations' = IF SentBack(a)
                          THEN [escalations EXCEPT ![req[h].tick] = NewEscalation(t, "admin")]
                          ELSE escalations
        /\ tickets' = [tickets EXCEPT ![t] = AfterReview(t, a)]
    BY <1>4 DEF CommitFeedback, t
  <2>6. feedback' \in [Ticks -> FeedbackRow]
    BY <2>2, <2>5
  <2>7. escalations' \in [Ticks -> EscalationRow]
    BY <2>3, <2>5
  <2>8. tickets' \in [Tickets -> TicketRow]
    BY <2>1, <2>4, <2>5
  <2> QED BY <1>0, <1>4, <2>6, <2>7, <2>8 DEF CommitFeedback
<1>5. CASE LoadLatestEscalation(h)
  BY <1>5 DEF LoadLatestEscalation, ReqRow, ReqPCs
<1>6. CASE CommitResolve(h)
  <2>1. [ticket |-> req[h].ticket, reviewer |-> req[h].user, action |-> "resolve"] \in FeedbackRow
    BY DEF FeedbackRow, ReqRow
  <2>2. tickets' \in [Tickets -> TicketRow]
    BY <1>6, ZenonT(40) DEF CommitResolve, TicketRow, Lifecycle!Statuses
  <2> QED BY <1>0, <1>6, <2>1, <2>2 DEF CommitResolve
<1>7. ASSUME NEW k \in Ticks, LoadEscalation(h, k)
      PROVE  TypeOK'
  <2>1. escalations[k].ticket \in Tickets \cup {None}
    BY DEF EscalationRow
  <2>2. [req[h] EXCEPT !.pc = "found", !.esc = k, !.ticket = escalations[k].ticket] \in ReqRow
    BY <2>1, ZenonT(40) DEF ReqRow, ReqPCs
  <2> QED BY <1>7, <2>2 DEF LoadEscalation
<1>8. CASE LoadEscalatedTicket(h)
  <2>1. tickets[req[h].ticket].dept \in Departments \cup {None}
    BY <1>8 DEF LoadEscalatedTicket, ReadsExist, HasRead, TicketRow
  <2>2. [req[h] EXCEPT !.pc = IF req[h].kind = "reject" THEN "ready" ELSE "loaded",
                       !.seen = tickets[req[h].ticket].dept] \in ReqRow
    BY <2>1, ZenonT(40) DEF ReqRow, ReqPCs
  <2> QED BY <1>8, <2>2 DEF LoadEscalatedTicket
<1>9. ASSUME NEW v \in Users, LoadEngineer(h, v)
      PROVE  TypeOK'
  <2>1. users[v].dept \in Departments \cup {None}
    BY DEF UserRow
  <2> DEFINE route == IF req[h].seen = None THEN users[v].dept ELSE None
  <2>2. route \in Departments \cup {None}
    BY <2>1
  <2> HIDE DEF route
  <2>3. [req[h] EXCEPT !.pc = "ready", !.to = v, !.route = route] \in ReqRow
    BY <2>2, ZenonT(40) DEF ReqRow, ReqPCs
  <2> QED BY <1>9, <2>3 DEF LoadEngineer, route
<1>10. CASE CommitApprove(h)
  <2>1. req[h].to \in Users \cup {None} /\ req[h].route \in Departments \cup {None}
    BY DEF ReqRow
  <2>2. \A k \in Ticks :
           [escalations[k] EXCEPT !.decision = "approved", !.to = req[h].to] \in EscalationRow
    BY <2>1 DEF EscalationRow
  <2>3. escalations' \in [Ticks -> EscalationRow]
    BY <1>10, <2>2 DEF CommitApprove
  <2>4. tickets' \in [Tickets -> TicketRow]
    BY <1>10, <2>1, ZenonT(40) DEF CommitApprove, TicketRow
  <2> QED BY <1>0, <1>10, <2>3, <2>4 DEF CommitApprove
<1>11. CASE CommitReject(h)
  <2>1. escalations' \in [Ticks -> EscalationRow]
    BY <1>11, ZenonT(40) DEF CommitReject, EscalationRow
  <2>2. tickets' \in [Tickets -> TicketRow]
    BY <1>11, ZenonT(40) DEF CommitReject, AfterReject, TicketRow, Lifecycle!Statuses
  <2> QED BY <1>0, <1>11, <2>1, <2>2 DEF CommitReject
<1> QED BY <1>1, <1>2, <1>3, <1>4, <1>5, <1>6, <1>7, <1>8, <1>9, <1>10, <1>11, <1>3a
        DEF RequestStep

\* A step that only moves one request on.
LEMMA ReadsExistFrame ==
    ASSUME ReadsExist, TypeOK, NEW h \in Handlers, NEW r, HasRead(r),
           req' = [req EXCEPT ![h] = r], UNCHANGED escalations
    PROVE  ReadsExist'
BY DEF ReadsExist, HasRead, TypeOK

\* Inserting a row of a ticket that exists.
LEMMA ReadsExistInsert ==
    ASSUME ReadsExist, TypeOK, NEW k, NEW t \in Tickets, NEW tier,
           escalations' = [escalations EXCEPT ![k] = NewEscalation(t, tier)],
           \A h \in Handlers : req'[h] = req[h] \/ req'[h] = Idle
    PROVE  ReadsExist'
<1>1. \A j \in Ticks : escalations'[j] = escalations[j] \/ escalations'[j] = NewEscalation(t, tier)
  BY DEF TypeOK
<1>2. \A j \in Ticks : escalations'[j].decision # "none" => escalations'[j].ticket \in Tickets
  BY <1>1 DEF ReadsExist, NewEscalation
<1>3. \A j \in Ticks : escalations[j].decision # "none" => escalations'[j].decision # "none"
  BY <1>1 DEF NewEscalation
<1>4. \A h \in Handlers : HasRead(req[h])'
  BY <1>3 DEF ReadsExist, HasRead, Idle
<1> QED BY <1>2, <1>4 DEF ReadsExist

\* Deciding an escalation.
LEMMA ReadsExistDecide ==
    ASSUME ReadsExist, TypeOK, NEW h \in Handlers,
           req[h].pc = "ready", req[h].kind \in {"approve", "reject"},
           \A k \in Ticks : /\ escalations'[k].ticket = escalations[k].ticket
                            /\ \/ k # req[h].esc /\ escalations'[k] = escalations[k]
                               \/ k = req[h].esc /\ escalations'[k].decision # "none",
           req' = [req EXCEPT ![h] = Idle]
    PROVE  ReadsExist'
<1>1. req[h].esc \in Ticks /\ escalations[req[h].esc].decision # "none"
  BY DEF ReadsExist, HasRead
<1>2. \A k \in Ticks : escalations'[k].decision # "none" => escalations'[k].ticket \in Tickets
  BY <1>1 DEF ReadsExist
<1>3. \A k \in Ticks : escalations[k].decision # "none" => escalations'[k].decision # "none"
  OBVIOUS
<1>4. \A g \in Handlers : HasRead(req[g])'
  BY <1>3 DEF ReadsExist, HasRead, Idle, TypeOK
<1> QED BY <1>2, <1>4 DEF ReadsExist

LEMMA ReadsExistRunStep ==
    ASSUME ReadsExist, TypeOK, NEW t \in Tickets, RunStep(t)
    PROVE  ReadsExist'
<1>1. UNCHANGED req
  BY DEF RunStep, Schedule, StartRun, CommitRun, FailRun, LoadFailedTicket,
         EscalateFailedTicket, LoseRun
<1>2. CASE UNCHANGED escalations
  BY <1>1, <1>2 DEF ReadsExist, HasRead
<1>3. CASE \E tier : escalations' = [escalations EXCEPT ![run[t].tick] = NewEscalation(t, tier)]
  BY <1>1, <1>3, ReadsExistInsert
<1> QED BY <1>2, <1>3
        DEF RunStep, Schedule, StartRun, CommitRun, FailRun, LoadFailedTicket,
            EscalateFailedTicket, LoseRun

LEMMA ReadsExistRequestStep ==
    ASSUME ReadsExist, TypeOK, NEW h \in Handlers, RequestStep(h)
    PROVE  ReadsExist'
<1>0. HasRead(Idle)
  BY DEF HasRead, Idle
<1>1. ASSUME NEW u \in Users, NEW kind \in Kinds, Authenticate(h, u, kind)
      PROVE  ReadsExist'
  BY <1>1, ReadsExistFrame DEF Authenticate, HasRead, Idle
<1>2. CASE Abort(h)
  BY <1>0, <1>2, ReadsExistFrame DEF Abort
<1>3. ASSUME NEW t \in Tickets, LoadTicket(h, t)
      PROVE  ReadsExist'
  <2> DEFINE r == [req[h] EXCEPT !.pc = IF req[h].kind = "feedback" THEN "ready" ELSE "opened",
                                 !.ticket = t]
  <2>1. HasRead(r)
    BY <1>3 DEF LoadTicket, HasRead, TypeOK, ReqRow
  <2>2. req' = [req EXCEPT ![h] = r] /\ UNCHANGED escalations
    BY <1>3 DEF LoadTicket
  <2> HIDE DEF r
  <2> QED BY <2>1, <2>2, ReadsExistFrame
<1>3a. CASE LoadAssignment(h)
  <2>1. HasRead([req[h] EXCEPT !.pc = "loaded"])
    BY <1>3a DEF LoadAssignment, ReadsExist, HasRead, TypeOK, ReqRow
  <2> QED BY <1>3a, <2>1, ReadsExistFrame DEF LoadAssignment
<1>4. ASSUME NEW a \in ReviewActions, CommitFeedback(h, a)
      PROVE  ReadsExist'
  <2>1. req[h].ticket \in Tickets
    BY <1>4 DEF CommitFeedback, ReadsExist, HasRead
  <2>2. CASE SentBack(a)
    BY <1>4, <2>1, <2>2, ReadsExistInsert DEF CommitFeedback, TypeOK
  <2>3. CASE ~ SentBack(a)
    BY <1>0, <1>4, <2>3, ReadsExistFrame DEF CommitFeedback
  <2> QED BY <2>2, <2>3
<1>5. CASE LoadLatestEscalation(h)
  <2>1. HasRead([req[h] EXCEPT !.pc = "ready"])
    BY <1>5 DEF LoadLatestEscalation, ReadsExist, HasRead, TypeOK, ReqRow
  <2> QED BY <1>5, <2>1, ReadsExistFrame DEF LoadLatestEscalation
<1>6. CASE CommitResolve(h)
  BY <1>0, <1>6, ReadsExistFrame DEF CommitResolve
<1>7. ASSUME NEW k \in Ticks, LoadEscalation(h, k)
      PROVE  ReadsExist'
  <2> DEFINE r == [req[h] EXCEPT !.pc = "found", !.esc = k, !.ticket = escalations[k].ticket]
  <2>1. HasRead(r)
    BY <1>7 DEF LoadEscalation, IsPending, ReadsExist, HasRead, TypeOK, ReqRow
  <2>2. req' = [req EXCEPT ![h] = r] /\ UNCHANGED escalations
    BY <1>7 DEF LoadEscalation
  <2> HIDE DEF r
  <2> QED BY <2>1, <2>2, ReadsExistFrame
<1>8. CASE LoadEscalatedTicket(h)
  <2> DEFINE r == [req[h] EXCEPT !.pc = IF req[h].kind = "reject" THEN "ready" ELSE "loaded",
                                 !.seen = tickets[req[h].ticket].dept]
  <2>1. HasRead(r)
    BY <1>8 DEF LoadEscalatedTicket, ReadsExist, HasRead, TypeOK, ReqRow
  <2>2. req' = [req EXCEPT ![h] = r] /\ UNCHANGED escalations
    BY <1>8 DEF LoadEscalatedTicket
  <2> HIDE DEF r
  <2> QED BY <2>1, <2>2, ReadsExistFrame
<1>9. ASSUME NEW v \in Users, LoadEngineer(h, v)
      PROVE  ReadsExist'
  <2> DEFINE r == [req[h] EXCEPT !.pc = "ready", !.to = v,
                                 !.route = IF req[h].seen = None THEN users[v].dept ELSE None]
  <2>1. HasRead(r)
    BY <1>9 DEF LoadEngineer, ReadsExist, HasRead, TypeOK, ReqRow
  <2>2. req' = [req EXCEPT ![h] = r] /\ UNCHANGED escalations
    BY <1>9 DEF LoadEngineer
  <2> HIDE DEF r
  <2> QED BY <2>1, <2>2, ReadsExistFrame
<1>10. CASE CommitApprove(h)
  BY <1>10, ReadsExistDecide, ZenonT(40) DEF CommitApprove, TypeOK, EscalationRow
<1>11. CASE CommitReject(h)
  BY <1>11, ReadsExistDecide DEF CommitReject, TypeOK, EscalationRow
<1> QED BY <1>1, <1>2, <1>3, <1>4, <1>5, <1>6, <1>7, <1>8, <1>9, <1>10, <1>11, <1>3a
        DEF RequestStep

\* The steps that leave requests and escalations as they are, or drop requests.
LEMMA TypeEnvironment ==
    ASSUME TypeOK, ReadsExist,
           \/ \E t \in Tickets : Create(t)
           \/ \E u \in Users : UpdateUser(u)
           \/ Crash
           \/ UNCHANGED vars
    PROVE  TypeOK' /\ ReadsExist'
<1>1. ASSUME NEW t \in Tickets, Create(t)
      PROVE  TypeOK' /\ ReadsExist'
  <2>1. NewTicket \in TicketRow
    BY DEF NewTicket, AbsentTicket, TicketRow, Lanes, Lifecycle!Statuses
  <2>2. TypeOK'
    BY <1>1, <2>1 DEF Create, TypeOK, RunRow, RunPCs
  <2> QED BY <1>1, <2>2 DEF Create, ReadsExist, HasRead
<1>2. ASSUME NEW u \in Users, UpdateUser(u)
      PROVE  TypeOK' /\ ReadsExist'
  BY <1>2, BoundsAssumption DEF UpdateUser, TypeOK, ReadsExist, HasRead
<1>3. CASE Crash
  <2>1. Idle \in ReqRow
    BY DEF Idle, ReqRow, ReqPCs, Kinds, Roles
  <2>2. run' \in [Tickets -> RunRow]
    BY <1>3 DEF Crash, TypeOK, RunRow, RunPCs
  <2>3. TypeOK'
    BY <1>3, <2>1, <2>2, BoundsAssumption DEF Crash, TypeOK
  <2> QED BY <1>3, <2>3 DEF Crash, ReadsExist, HasRead, Idle
<1>4. CASE UNCHANGED vars
  BY <1>4 DEF vars, TypeOK, ReadsExist, HasRead
<1> QED BY <1>1, <1>2, <1>3, <1>4

TypeInv == TypeOK /\ ReadsExist

LEMMA TypeInvInit == Init => TypeInv
BY TypeInit DEF TypeInv, ReadsExist, HasRead, Init, NoEscalation, Idle

LEMMA TypeInvNext == TypeInv /\ [Next]_vars => TypeInv'
BY TypeRunStep, TypeRequestStep, ReadsExistRunStep, ReadsExistRequestStep, TypeEnvironment
   DEF TypeInv, Next

\* Every table, task and request keeps its type, through every interleaving of
\* handlers, tasks and restarts; the argument needs that a handler which decides a
\* ticket has read that ticket and, for an admin, its escalation.
THEOREM TypeCorrect == Spec => []TypeOK
<1>1. TypeInv => TypeOK
  BY DEF TypeInv
<1> QED BY TypeInvInit, TypeInvNext, <1>1, PTL DEF Spec

----------------------------------------------------------------------------
(* Somebody is responsible *)

(***************************************************************************)
(* SomeoneResponsible is not inductive: a commit could overwrite the row   *)
(* that makes somebody responsible, or reject the escalation of another    *)
(* ticket.  Neither happens because a transaction that may insert a row    *)
(* owns its tick: no row is there yet and no other open transaction has    *)
(* the same tick; and because an admin's request keeps the ticket of the   *)
(* escalation it read, which no commit ever changes.                       *)
(***************************************************************************)
TaskOpen(t) == run[t].pc \in {"running", "recovering"}

RequestOpen(h) == req[h].pc # "idle" /\ req[h].kind \in {"feedback", "resolve"}

IsFree(k) == k \in Ticks /\ k <= clock /\ escalations[k].decision = "none"

TicksAreOwned ==
    /\ \A k \in Ticks : k > clock => escalations[k].decision = "none"
    /\ \A t \in Tickets : TaskOpen(t) => IsFree(run[t].tick)
    /\ \A h \in Handlers : RequestOpen(h) => IsFree(req[h].tick)
    /\ \A t, u \in Tickets :
          TaskOpen(t) /\ TaskOpen(u) /\ t # u => run[t].tick # run[u].tick
    /\ \A h, g \in Handlers :
          RequestOpen(h) /\ RequestOpen(g) /\ h # g => req[h].tick # req[g].tick
    /\ \A t \in Tickets, h \in Handlers :
          TaskOpen(t) /\ RequestOpen(h) => run[t].tick # req[h].tick

DecidesItsOwn ==
    \A h \in Handlers :
        req[h].pc \in {"found", "opened", "loaded", "ready"} /\ req[h].kind \in {"approve", "reject"} =>
            escalations[req[h].esc].ticket = req[h].ticket

ResponsibleInv == TypeInv /\ TicksAreOwned /\ DecidesItsOwn /\ SomeoneResponsible

\* A step in which no transaction begins: open ones may end, and no free tick of one
\* that stays open gets a row.
LEMMA OwnedFrame ==
    ASSUME TicksAreOwned, TypeOK, UNCHANGED clock,
           \A k \in Ticks : k > clock => escalations'[k].decision = "none",
           \A t \in Tickets : TaskOpen(t)' =>
              /\ TaskOpen(t)
              /\ run'[t].tick = run[t].tick
              /\ escalations'[run[t].tick].decision = "none",
           \A h \in Handlers : RequestOpen(h)' =>
              /\ RequestOpen(h)
              /\ req'[h].tick = req[h].tick
              /\ escalations'[req[h].tick].decision = "none"
    PROVE  TicksAreOwned'
BY DEF TicksAreOwned, IsFree

\* A task begins a transaction.
LEMMA OwnedBeginTask ==
    ASSUME TicksAreOwned, TypeOK, NEW t \in Tickets, NEW pc,
           clock < MaxTick, clock' = clock + 1,
           run' = [run EXCEPT ![t] = [pc |-> pc, tick |-> clock + 1]],
           UNCHANGED <<req, escalations>>
    PROVE  TicksAreOwned'
<1>1. /\ clock \in Nat
      /\ clock + 1 \in Ticks
  BY BoundsAssumption DEF TypeOK, Ticks
<1>2. \A k \in Ticks : k \in Nat
  BY DEF Ticks
<1>3. \A u \in Tickets : u # t => run'[u] = run[u]
  BY DEF TypeOK
<1>4. run'[t].tick = clock + 1
  BY DEF TypeOK
<1>5. \A k \in Ticks : IsFree(k) => IsFree(k)' /\ k # clock + 1
  BY <1>1, <1>2 DEF IsFree
<1>6. \A k \in Ticks : k = clock + 1 => IsFree(k)'
  BY <1>1, <1>2 DEF IsFree, TicksAreOwned
<1>7. \A k : IsFree(k) => k \in Ticks
  BY DEF IsFree
<1>8. \A u \in Tickets : u # t => (TaskOpen(u)' <=> TaskOpen(u))
  BY <1>3 DEF TaskOpen
<1>9. \A h \in Handlers : RequestOpen(h)' <=> RequestOpen(h)
  BY DEF RequestOpen
<1>10. \A k \in Ticks : k > clock' => escalations'[k].decision = "none"
  BY <1>1, <1>2 DEF TicksAreOwned
<1> QED BY <1>1, <1>3, <1>4, <1>5, <1>6, <1>7, <1>8, <1>9, <1>10 DEF TicksAreOwned

\* A request begins a transaction.
LEMMA OwnedBeginRequest ==
    ASSUME TicksAreOwned, TypeOK, NEW h \in Handlers, NEW r,
           clock < MaxTick, clock' = clock + 1, r.tick = clock + 1,
           req' = [req EXCEPT ![h] = r],
           UNCHANGED <<run, escalations>>
    PROVE  TicksAreOwned'
<1>1. /\ clock \in Nat
      /\ clock + 1 \in Ticks
  BY BoundsAssumption DEF TypeOK, Ticks
<1>2. \A k \in Ticks : k \in Nat
  BY DEF Ticks
<1>3. \A g \in Handlers : g # h => req'[g] = req[g]
  BY DEF TypeOK
<1>4. req'[h].tick = clock + 1
  BY DEF TypeOK
<1>5. \A k \in Ticks : IsFree(k) => IsFree(k)' /\ k # clock + 1
  BY <1>1, <1>2 DEF IsFree
<1>6. \A k \in Ticks : k = clock + 1 => IsFree(k)'
  BY <1>1, <1>2 DEF IsFree, TicksAreOwned
<1>7. \A k : IsFree(k) => k \in Ticks
  BY DEF IsFree
<1>8. \A g \in Handlers : g # h => (RequestOpen(g)' <=> RequestOpen(g))
  BY <1>3 DEF RequestOpen
<1>9. \A t \in Tickets : TaskOpen(t)' <=> TaskOpen(t)
  BY DEF TaskOpen
<1>10. \A k \in Ticks : k > clock' => escalations'[k].decision = "none"
  BY <1>1, <1>2 DEF TicksAreOwned
<1> QED BY <1>1, <1>3, <1>4, <1>5, <1>6, <1>7, <1>8, <1>9, <1>10 DEF TicksAreOwned

\* Tasks and requests that are open after the step were open before it, with the
\* same tick, and the tick is not in K.
OnlyClose(K) ==
    /\ \A t \in Tickets : TaskOpen(t)' =>
          TaskOpen(t) /\ run'[t].tick = run[t].tick /\ run[t].tick \notin K
    /\ \A h \in Handlers : RequestOpen(h)' =>
          RequestOpen(h) /\ req'[h].tick = req[h].tick /\ req[h].tick \notin K

\* No ticket but those of T becomes escalated.
OnlyEscalates(T) ==
    \A t \in Tickets \ T : tickets'[t].status = "escalated" => tickets[t].status = "escalated"

\* A step that writes no escalation.
LEMMA ResponsibleFrame ==
    ASSUME ResponsibleInv, UNCHANGED <<escalations, clock>>, OnlyClose({}), OnlyEscalates({})
    PROVE  TicksAreOwned' /\ SomeoneResponsible'
<1>1. TicksAreOwned'
  BY OwnedFrame DEF ResponsibleInv, TypeInv, OnlyClose, TicksAreOwned, IsFree
<1>2. SomeoneResponsible'
  BY DEF ResponsibleInv, SomeoneResponsible, OnlyEscalates, EscalationsOf
<1> QED BY <1>1, <1>2

\* A commit that inserts an escalation at the tick it owns.
LEMMA ResponsibleInsert ==
    ASSUME ResponsibleInv, NEW k, IsFree(k), NEW t \in Tickets, NEW tier,
           escalations' = [escalations EXCEPT ![k] = NewEscalation(t, tier)],
           UNCHANGED clock, OnlyClose({k}), OnlyEscalates({t}),
           \A h \in Handlers : req'[h] = req[h] \/ req'[h] = Idle
    PROVE  TicksAreOwned' /\ DecidesItsOwn' /\ SomeoneResponsible'
<1> USE DEF ResponsibleInv, TypeInv
<1>1. k \in Ticks /\ ~ (k > clock) /\ escalations[k].decision = "none"
  BY BoundsAssumption DEF IsFree, Ticks, TypeOK
<1>2. \A j \in Ticks : j # k => escalations'[j] = escalations[j]
  BY DEF TypeOK
<1>3. escalations'[k].ticket = t /\ escalations'[k].decision = "pending"
  BY <1>1 DEF TypeOK, NewEscalation
<1>4. TicksAreOwned'
  <2>1. \A j \in Ticks : j > clock => escalations'[j].decision = "none"
    BY <1>1, <1>2 DEF TicksAreOwned
  <2> QED BY <2>1, <1>2, OwnedFrame DEF OnlyClose, TicksAreOwned, IsFree
<1>5. DecidesItsOwn'
  BY <1>1, <1>2 DEF DecidesItsOwn, ReadsExist, HasRead, Idle
<1>6. SomeoneResponsible'
  <2>1. ASSUME NEW u \in Tickets, tickets'[u].status = "escalated"
        PROVE  \E j \in Ticks : /\ escalations'[j].decision \in {"pending", "approved"}
                                /\ escalations'[j].ticket = u
    <3>1. CASE u = t
      BY <1>1, <1>3, <3>1
    <3>2. CASE u # t
      <4>1. PICK j \in Ticks : /\ escalations[j].decision \in {"pending", "approved"}
                               /\ escalations[j].ticket = u
        BY <2>1, <3>2 DEF OnlyEscalates, SomeoneResponsible, EscalationsOf
      <4> QED BY <1>1, <1>2, <4>1
    <3> QED BY <3>1, <3>2
  <2> QED BY <2>1 DEF SomeoneResponsible, EscalationsOf
<1> QED BY <1>4, <1>5, <1>6

\* A commit that decides an escalation: approved, or rejected with its ticket closed.
LEMMA ResponsibleDecide ==
    ASSUME ResponsibleInv, NEW h \in Handlers,
           req[h].pc = "ready", req[h].kind \in {"approve", "reject"},
           req' = [req EXCEPT ![h] = Idle],
           \A k \in Ticks : /\ escalations'[k].ticket = escalations[k].ticket
                            /\ k # req[h].esc => escalations'[k] = escalations[k],
           \/ escalations'[req[h].esc].decision = "approved"
           \/ /\ escalations'[req[h].esc].decision = "rejected"
              /\ tickets'[req[h].ticket].status = "closed",
           OnlyEscalates({}), UNCHANGED <<run, clock>>
    PROVE  TicksAreOwned' /\ DecidesItsOwn' /\ SomeoneResponsible'
<1> USE DEF ResponsibleInv, TypeInv
<1> DEFINE e == req[h].esc
<1>1. /\ e \in Ticks
      /\ escalations[e].decision # "none"
      /\ escalations[e].ticket = req[h].ticket
  BY DEF ReadsExist, HasRead, DecidesItsOwn
<1>2. \A g \in Handlers : req'[g] = req[g] \/ req'[g] = Idle
  BY DEF TypeOK
<1>3. \A k \in Ticks : escalations[k].decision = "none" => escalations'[k].decision = "none"
  BY <1>1
<1>4. TicksAreOwned'
  BY <1>2, <1>3, OwnedFrame DEF TicksAreOwned, IsFree, TaskOpen, RequestOpen, Idle
<1>5. DecidesItsOwn'
  BY <1>2 DEF DecidesItsOwn, ReadsExist, HasRead, Idle
<1>6. SomeoneResponsible'
  <2>1. ASSUME NEW u \in Tickets, tickets'[u].status = "escalated"
        PROVE  \E j \in Ticks : /\ escalations'[j].decision \in {"pending", "approved"}
                                /\ escalations'[j].ticket = u
    <3>1. PICK j \in Ticks : /\ escalations[j].decision \in {"pending", "approved"}
                             /\ escalations[j].ticket = u
      BY <2>1 DEF OnlyEscalates, SomeoneResponsible, EscalationsOf
    <3>2. j = e => escalations'[j].decision = "approved"
      BY <1>1, <2>1, <3>1
    <3> QED BY <3>1, <3>2
  <2> QED BY <2>1 DEF SomeoneResponsible, EscalationsOf
<1> QED BY <1>4, <1>5, <1>6

LEMMA ResponsibleRunStep ==
    ASSUME ResponsibleInv, NEW t \in Tickets, RunStep(t)
    PROVE  TicksAreOwned' /\ DecidesItsOwn' /\ SomeoneResponsible'
<1> USE DEF ResponsibleInv, TypeInv
<1>1. UNCHANGED req
  BY DEF RunStep, Schedule, StartRun, CommitRun, FailRun, LoadFailedTicket,
         EscalateFailedTicket, LoseRun
<1>2. UNCHANGED escalations => DecidesItsOwn'
  BY <1>1 DEF DecidesItsOwn
<1>3. UNCHANGED <<tickets, escalations>> => SomeoneResponsible'
  BY DEF SomeoneResponsible, EscalationsOf
<1>4. CASE StartRun(t) \/ (LoadFailedTicket(t) /\ MustRecover(t))
  <2>1. TicksAreOwned'
    BY <1>4, OwnedBeginTask DEF StartRun, LoadFailedTicket
  <2> QED BY <1>2, <1>3, <1>4, <2>1 DEF StartRun, LoadFailedTicket
<1>5. CASE LoadFailedTicket(t) /\ ~ MustRecover(t)
  <2>1. clock \in Nat /\ clock' = clock + 1
    BY <1>5, BoundsAssumption DEF LoadFailedTicket, TypeOK, Ticks
  <2>2. \A k \in Ticks : k \in Nat
    BY DEF Ticks
  <2>3. \A u \in Tickets : TaskOpen(u)' => TaskOpen(u) /\ run'[u] = run[u]
    BY <1>5 DEF LoadFailedTicket, TaskOpen, TypeOK
  <2>4. \A k \in Ticks : IsFree(k) => IsFree(k)'
    BY <1>5, <2>1, <2>2 DEF LoadFailedTicket, IsFree
  <2>5. \A k \in Ticks : k > clock' => escalations'[k].decision = "none"
    BY <1>5, <2>1, <2>2 DEF LoadFailedTicket, TicksAreOwned
  <2>6. TicksAreOwned'
    BY <1>1, <2>3, <2>4, <2>5 DEF TicksAreOwned, RequestOpen, IsFree
  <2> QED BY <1>2, <1>3, <1>5, <2>6 DEF LoadFailedTicket
<1>6. CASE Schedule(t) \/ FailRun(t) \/ LoseRun(t)
  <2>0. \A u \in Tickets : run'[u] = run[u] \/ run'[u].pc \notin {"running", "recovering"}
    BY <1>6 DEF Schedule, FailRun, AfterFailure, LoseRun, TypeOK, RunRow
  <2>1. OnlyClose({})
    BY <1>1, <2>0 DEF OnlyClose, TaskOpen, RequestOpen
  <2>2. OnlyEscalates({})
    BY <1>6 DEF OnlyEscalates, Schedule, FailRun, RolledBack, LoseRun, TypeOK
  <2> QED BY <1>2, <1>6, <2>1, <2>2, ResponsibleFrame DEF Schedule, FailRun, LoseRun
<1>7. ASSUME NEW k, k = run[t].tick, TaskOpen(t), run'[t].pc \notin {"running", "recovering"},
             \A u \in Tickets \ {t} : run'[u] = run[u]
      PROVE  OnlyClose({k})
  BY <1>1, <1>7 DEF OnlyClose, TaskOpen, RequestOpen, TicksAreOwned
<1>8. ASSUME NEW d \in Departments \cup {None}, NEW lane \in Lanes, NEW ack \in BOOLEAN,
             CommitRun(t, d, lane, ack)
      PROVE  TicksAreOwned' /\ DecidesItsOwn' /\ SomeoneResponsible'
  <2>1. TaskOpen(t) /\ IsFree(run[t].tick)
    BY <1>8 DEF CommitRun, TaskOpen, TicksAreOwned
  <2>2. OnlyClose({run[t].tick})
    BY <1>7, <1>8, <2>1 DEF CommitRun, TypeOK
  <2>3. CASE IsWithheld(d, lane)
    <3>1. OnlyEscalates({t})
      BY <1>8 DEF CommitRun, OnlyEscalates, TypeOK
    <3> QED BY <1>1, <1>8, <2>1, <2>2, <2>3, <3>1, ResponsibleInsert DEF CommitRun
  <2>4. CASE ~ IsWithheld(d, lane)
    <3>1. OnlyEscalates({})
      BY <1>8, <2>4 DEF CommitRun, IsWithheld, Outcome, OnlyEscalates, TypeOK
    <3>2. OnlyClose({})
      BY <2>2 DEF OnlyClose
    <3> QED BY <1>2, <1>8, <2>4, <3>1, <3>2, ResponsibleFrame DEF CommitRun
  <2> QED BY <2>3, <2>4
<1>9. CASE EscalateFailedTicket(t)
  <2>1. TaskOpen(t) /\ IsFree(run[t].tick)
    BY <1>9 DEF EscalateFailedTicket, TaskOpen, TicksAreOwned
  <2>2. OnlyClose({run[t].tick})
    BY <1>7, <1>9, <2>1 DEF EscalateFailedTicket, TypeOK
  <2>3. OnlyEscalates({t})
    BY <1>9 DEF EscalateFailedTicket, OnlyEscalates, TypeOK
  <2> QED BY <1>1, <1>9, <2>1, <2>2, <2>3, ResponsibleInsert DEF EscalateFailedTicket
<1> QED BY <1>4, <1>5, <1>6, <1>8, <1>9 DEF RunStep

\* A step of request h that writes no row and keeps its tick, unless it ends.
LEMMA ResponsibleRead ==
    ASSUME ResponsibleInv, NEW h \in Handlers, NEW r,
           req' = [req EXCEPT ![h] = r],
           UNCHANGED <<tickets, escalations, run, clock>>,
           \/ r = Idle
           \/ r.kind = req[h].kind /\ r.tick = req[h].tick /\ req[h].pc # "idle",
           \/ r.pc \notin {"found", "opened", "loaded", "ready"}
           \/ r.kind \notin {"approve", "reject"}
           \/ escalations[r.esc].ticket = r.ticket
    PROVE  TicksAreOwned' /\ DecidesItsOwn' /\ SomeoneResponsible'
<1> USE DEF ResponsibleInv, TypeInv
<1>1. req'[h] = r /\ \A g \in Handlers : g # h => req'[g] = req[g]
  BY DEF TypeOK
<1>2. OnlyClose({})
  BY <1>1 DEF OnlyClose, TaskOpen, RequestOpen, Idle
<1>3. OnlyEscalates({})
  BY DEF OnlyEscalates
<1>4. DecidesItsOwn'
  BY <1>1 DEF DecidesItsOwn
<1> QED BY <1>2, <1>3, <1>4, ResponsibleFrame

LEMMA ResponsibleRequestStep ==
    ASSUME ResponsibleInv, NEW h \in Handlers, RequestStep(h)
    PROVE  TicksAreOwned' /\ DecidesItsOwn' /\ SomeoneResponsible'
<1> USE DEF ResponsibleInv, TypeInv
<1>1. ASSUME NEW u \in Users, NEW kind \in Kinds, Authenticate(h, u, kind)
      PROVE  TicksAreOwned' /\ DecidesItsOwn' /\ SomeoneResponsible'
  <2>1. SomeoneResponsible'
    BY <1>1 DEF Authenticate, SomeoneResponsible, EscalationsOf
  <2>2. DecidesItsOwn'
    BY <1>1 DEF Authenticate, DecidesItsOwn, Idle, TypeOK
  <2>3. CASE kind \in {"feedback", "resolve"}
    <3> DEFINE r == [Idle EXCEPT !.pc = "auth", !.kind = kind, !.user = u,
                                 !.role = users[u].role, !.dept = users[u].dept,
                                 !.tick = clock + 1]
    <3>1. req' = [req EXCEPT ![h] = r] /\ clock < MaxTick /\ clock' = clock + 1
          /\ UNCHANGED <<run, escalations>>
      BY <1>1, <2>3 DEF Authenticate
    <3>2. r.tick = clock + 1
      BY DEF Idle
    <3> HIDE DEF r
    <3>3. TicksAreOwned'
      BY <3>1, <3>2, OwnedBeginRequest
    <3> QED BY <2>1, <2>2, <3>3
  <2>4. CASE kind \notin {"feedback", "resolve"}
    <3>1. ~ RequestOpen(h)' /\ \A g \in Handlers \ {h} : req'[g] = req[g]
      BY <1>1, <2>4 DEF Authenticate, RequestOpen, Idle, TypeOK
    <3>2. UNCHANGED <<run, clock, escalations>>
      BY <1>1, <2>4 DEF Authenticate
    <3>3. OnlyClose({})
      BY <3>1, <3>2 DEF OnlyClose, RequestOpen, TaskOpen
    <3>4. OnlyEscalates({})
      BY <1>1 DEF Authenticate, OnlyEscalates
    <3> QED BY <2>2, <3>2, <3>3, <3>4, ResponsibleFrame
  <2> QED BY <2>3, <2>4
<1>2. CASE Abort(h)
  <2>1. Idle.pc = "idle"
    BY DEF Idle
  <2> QED BY <1>2, <2>1, ResponsibleRead DEF Abort
<1>3. ASSUME NEW t \in Tickets, LoadTicket(h, t)
      PROVE  TicksAreOwned' /\ DecidesItsOwn' /\ SomeoneResponsible'
  <2> DEFINE r == [req[h] EXCEPT !.pc = IF req[h].kind = "feedback" THEN "ready" ELSE "opened",
                                 !.ticket = t]
  <2>1. r.kind = req[h].kind /\ r.tick = req[h].tick /\ r.kind \notin {"approve", "reject"}
    BY <1>3 DEF LoadTicket, TypeOK, ReqRow
  <2>2. /\ req' = [req EXCEPT ![h] = r] /\ req[h].pc # "idle"
        /\ UNCHANGED <<tickets, escalations, run, clock>>
    BY <1>3 DEF LoadTicket
  <2> HIDE DEF r
  <2> QED BY <2>1, <2>2, ResponsibleRead
<1>3a. CASE LoadAssignment(h)
  <2> DEFINE r == [req[h] EXCEPT !.pc = "loaded"]
  <2>1. /\ r.kind = req[h].kind /\ r.tick = req[h].tick
        /\ r.kind \notin {"approve", "reject"} \/ escalations[r.esc].ticket = r.ticket
    BY <1>3a DEF LoadAssignment, DecidesItsOwn, TypeOK, ReqRow
  <2>2. /\ req' = [req EXCEPT ![h] = r] /\ req[h].pc # "idle"
        /\ UNCHANGED <<tickets, escalations, run, clock>>
    BY <1>3a DEF LoadAssignment
  <2> HIDE DEF r
  <2> QED BY <2>1, <2>2, ResponsibleRead
<1>4. ASSUME NEW a \in ReviewActions, CommitFeedback(h, a)
      PROVE  TicksAreOwned' /\ DecidesItsOwn' /\ SomeoneResponsible'
  <2> DEFINE t == req[h].ticket
  <2>1. RequestOpen(h) /\ IsFree(req[h].tick) /\ t \in Tickets
    BY <1>4 DEF CommitFeedback, RequestOpen, TicksAreOwned, ReadsExist, HasRead
  <2>2. req' = [req EXCEPT ![h] = Idle] /\ UNCHANGED <<run, clock>>
    BY <1>4 DEF CommitFeedback
  <2>3. \A g \in Handlers : req'[g] = Idle \/ (g # h /\ req'[g] = req[g])
    BY <2>2 DEF TypeOK
  <2>4. OnlyClose({req[h].tick})
    BY <2>1, <2>2, <2>3 DEF OnlyClose, RequestOpen, TaskOpen, TicksAreOwned, Idle
  <2>5. CASE SentBack(a)
    <3>1. OnlyEscalates({t})
      BY <1>4 DEF CommitFeedback, OnlyEscalates, TypeOK
    <3> QED BY <1>4, <2>1, <2>2, <2>3, <2>4, <2>5, <3>1, ResponsibleInsert DEF CommitFeedback
  <2>6. CASE ~ SentBack(a)
    <3>1. OnlyEscalates({})
      BY <1>4, <2>6 DEF CommitFeedback, AfterReview, OnlyEscalates, TypeOK
    <3>2. OnlyClose({})
      BY <2>4 DEF OnlyClose
    <3>3. UNCHANGED escalations
      BY <1>4, <2>6 DEF CommitFeedback
    <3>4. DecidesItsOwn'
      BY <2>3, <3>3 DEF DecidesItsOwn, Idle
    <3> QED BY <2>2, <3>1, <3>2, <3>3, <3>4, ResponsibleFrame
  <2> QED BY <2>5, <2>6
<1>5. CASE LoadLatestEscalation(h)
  <2> DEFINE r == [req[h] EXCEPT !.pc = "ready"]
  <2>1. r.kind = req[h].kind /\ r.tick = req[h].tick /\ r.kind \notin {"approve", "reject"}
    BY <1>5 DEF LoadLatestEscalation, TypeOK, ReqRow
  <2>2. /\ req' = [req EXCEPT ![h] = r] /\ req[h].pc # "idle"
        /\ UNCHANGED <<tickets, escalations, run, clock>>
    BY <1>5 DEF LoadLatestEscalation
  <2> HIDE DEF r
  <2> QED BY <2>1, <2>2, ResponsibleRead
<1>6. CASE CommitResolve(h)
  <2>1. req' = [req EXCEPT ![h] = Idle] /\ UNCHANGED <<run, clock, escalations>>
    BY <1>6 DEF CommitResolve
  <2>2. \A g \in Handlers : req'[g] = Idle \/ req'[g] = req[g]
    BY <2>1 DEF TypeOK
  <2>3. OnlyClose({})
    BY <2>1, <2>2 DEF OnlyClose, RequestOpen, TaskOpen, Idle
  <2>4. OnlyEscalates({})
    BY <1>6 DEF CommitResolve, OnlyEscalates, TypeOK, TicketRow
  <2>5. DecidesItsOwn'
    BY <2>1, <2>2 DEF DecidesItsOwn, Idle
  <2> QED BY <2>1, <2>3, <2>4, <2>5, ResponsibleFrame
<1>7. ASSUME NEW k \in Ticks, LoadEscalation(h, k)
      PROVE  TicksAreOwned' /\ DecidesItsOwn' /\ SomeoneResponsible'
  <2> DEFINE r == [req[h] EXCEPT !.pc = "found", !.esc = k, !.ticket = escalations[k].ticket]
  <2>1. r.kind = req[h].kind /\ r.tick = req[h].tick /\ escalations[r.esc].ticket = r.ticket
    BY DEF TypeOK, ReqRow
  <2>2. /\ req' = [req EXCEPT ![h] = r] /\ req[h].pc # "idle"
        /\ UNCHANGED <<tickets, escalations, run, clock>>
    BY <1>7 DEF LoadEscalation
  <2> HIDE DEF r
  <2> QED BY <2>1, <2>2, ResponsibleRead
<1>8. CASE LoadEscalatedTicket(h)
  <2> DEFINE r == [req[h] EXCEPT !.pc = IF req[h].kind = "reject" THEN "ready" ELSE "loaded",
                                 !.seen = tickets[req[h].ticket].dept]
  <2>1. /\ r.kind = req[h].kind /\ r.tick = req[h].tick
        /\ r.kind \notin {"approve", "reject"} \/ escalations[r.esc].ticket = r.ticket
    BY <1>8 DEF LoadEscalatedTicket, DecidesItsOwn, TypeOK, ReqRow
  <2>2. /\ req' = [req EXCEPT ![h] = r] /\ req[h].pc # "idle"
        /\ UNCHANGED <<tickets, escalations, run, clock>>
    BY <1>8 DEF LoadEscalatedTicket
  <2> HIDE DEF r
  <2> QED BY <2>1, <2>2, ResponsibleRead
<1>9. ASSUME NEW v \in Users, LoadEngineer(h, v)
      PROVE  TicksAreOwned' /\ DecidesItsOwn' /\ SomeoneResponsible'
  <2> DEFINE r == [req[h] EXCEPT !.pc = "ready", !.to = v,
                                 !.route = IF req[h].seen = None THEN users[v].dept ELSE None]
  <2>1. /\ r.kind = req[h].kind /\ r.tick = req[h].tick
        /\ escalations[r.esc].ticket = r.ticket
    BY <1>9 DEF LoadEngineer, DecidesItsOwn, TypeOK, ReqRow
  <2>2. /\ req' = [req EXCEPT ![h] = r] /\ req[h].pc # "idle"
        /\ UNCHANGED <<tickets, escalations, run, clock>>
    BY <1>9 DEF LoadEngineer
  <2> HIDE DEF r
  <2> QED BY <2>1, <2>2, ResponsibleRead
<1>10. CASE CommitApprove(h)
  <2>1. req[h].esc \in Ticks
    BY <1>10 DEF CommitApprove, ReadsExist, HasRead
  <2>2. /\ \A k \in Ticks : /\ escalations'[k].ticket = escalations[k].ticket
                            /\ k # req[h].esc => escalations'[k] = escalations[k]
        /\ escalations'[req[h].esc].decision = "approved"
    BY <1>10, <2>1 DEF CommitApprove, TypeOK, EscalationRow
  <2>3. OnlyEscalates({})
    BY <1>10 DEF CommitApprove, OnlyEscalates, TypeOK, TicketRow
  <2> QED BY <1>10, <2>2, <2>3, ResponsibleDecide DEF CommitApprove
<1>11. CASE CommitReject(h)
  <2>1. req[h].esc \in Ticks /\ req[h].ticket \in Tickets
    BY <1>11 DEF CommitReject, ReadsExist, HasRead
  <2>2. /\ \A k \in Ticks : /\ escalations'[k].ticket = escalations[k].ticket
                            /\ k # req[h].esc => escalations'[k] = escalations[k]
        /\ escalations'[req[h].esc].decision = "rejected"
    BY <1>11, <2>1 DEF CommitReject, TypeOK, EscalationRow
  <2>3. OnlyEscalates({}) /\ tickets'[req[h].ticket].status = "closed"
    BY <1>11, <2>1 DEF CommitReject, AfterReject, OnlyEscalates, TypeOK, TicketRow
  <2> QED BY <1>11, <2>2, <2>3, ResponsibleDecide DEF CommitReject
<1> QED BY <1>1, <1>2, <1>3, <1>4, <1>5, <1>6, <1>7, <1>8, <1>9, <1>10, <1>11, <1>3a
        DEF RequestStep

LEMMA ResponsibleEnvironment ==
    ASSUME ResponsibleInv,
           \/ \E t \in Tickets : Create(t)
           \/ \E u \in Users : UpdateUser(u)
           \/ Crash
           \/ UNCHANGED vars
    PROVE  TicksAreOwned' /\ DecidesItsOwn' /\ SomeoneResponsible'
<1> USE DEF ResponsibleInv, TypeInv
<1>1. UNCHANGED <<escalations, clock>>
  BY DEF Create, UpdateUser, Crash, vars
<1>2. OnlyEscalates({})
  BY DEF OnlyEscalates, Create, NewTicket, AbsentTicket, UpdateUser, Crash, vars, TypeOK
<1>3. \A h \in Handlers : req'[h] = req[h] \/ req'[h] = Idle
  BY DEF Create, UpdateUser, Crash, vars
<1>4. \A t \in Tickets : \/ run'[t] = run[t]
                         \/ run'[t].pc \notin {"running", "recovering"}
  BY DEF Create, UpdateUser, Crash, vars, TypeOK, RunRow
<1>5. OnlyClose({})
  BY <1>3, <1>4 DEF OnlyClose, TaskOpen, RequestOpen, Idle
<1>6. DecidesItsOwn'
  BY <1>1, <1>3 DEF DecidesItsOwn, Idle
<1> QED BY <1>1, <1>2, <1>5, <1>6, ResponsibleFrame

LEMMA ResponsibleInit == Init => ResponsibleInv
BY TypeInvInit
   DEF ResponsibleInv, Init, TicksAreOwned, DecidesItsOwn, SomeoneResponsible, TaskOpen,
       RequestOpen, NoEscalation, Idle, AbsentTicket

LEMMA ResponsibleNext == ResponsibleInv /\ [Next]_vars => ResponsibleInv'
BY TypeInvNext, ResponsibleRunStep, ResponsibleRequestStep, ResponsibleEnvironment
   DEF ResponsibleInv, Next

\* However reviews, approvals, rejections, pipeline runs, their failures and restarts
\* interleave, an escalated ticket has an escalation that is pending or approved.
THEOREM EscalatedIsOwned == Spec => []SomeoneResponsible
<1>1. ResponsibleInv => SomeoneResponsible
  BY DEF ResponsibleInv
<1> QED BY ResponsibleInit, ResponsibleNext, <1>1, PTL DEF Spec

----------------------------------------------------------------------------
(* The pipeline decides once *)

(***************************************************************************)
(* PipelineDecidesOnce says of a decided ticket which of its escalations   *)
(* no reviewer caused, so a feedback row written at the tick of an         *)
(* escalation of the pipeline would break it, and so would a task that     *)
(* commits for a ticket somebody has decided.  Neither happens: the tick   *)
(* of an open task carries no feedback either, a task that may still       *)
(* commit finds its ticket as it was created, and a request holds only     *)
(* tickets that are decided.                                               *)
(***************************************************************************)
FeedbackOwned ==
    /\ \A k \in Ticks : k > clock => feedback[k].action = "none"
    /\ \A t \in Tickets : TaskOpen(t) => feedback[run[t].tick].action = "none"

RunsPending ==
    \A t \in Tickets :
        run[t].pc \in {"created", "queued", "running", "recovering"} =>
            tickets[t].status = "submitted"

Decided(t) == tickets[t].status \notin Undecided

HoldsDecided(r) == r.pc \in {"found", "opened", "loaded", "ready"} => Decided(r.ticket)

ReadsDecided == \A h \in Handlers : HoldsDecided(req[h])

OnceInv ==
    ResponsibleInv /\ FeedbackOwned /\ RunsPending /\ ReadsDecided /\ PipelineDecidesOnce

\* A ticket somebody decided keeps what the pipeline found.
DraftStands(t) == tickets'[t].draft = tickets[t].draft /\ tickets'[t].lane = tickets[t].lane

\* No ticket is decided, and none loses its decision.
DecisionsStand ==
    \A t \in Tickets :
        \/ tickets'[t] = tickets[t]
        \/ Decided(t) /\ Decided(t)' /\ DraftStands(t)

\* Feedback is only added, about decided tickets; an escalation is added only with
\* feedback, about a decided ticket, and stays its ticket's.
RowsStand ==
    /\ \A k \in Ticks :
          \/ feedback'[k] = feedback[k]
          \/ feedback'[k].action # "none" /\ Decided(feedback'[k].ticket)
    /\ \A k \in Ticks :
          \/ escalations[k].decision = "none" /\ escalations'[k].decision = "none"
          \/ /\ escalations[k].decision # "none" /\ escalations'[k].decision # "none"
             /\ escalations'[k].ticket = escalations[k].ticket
             /\ feedback'[k] = feedback[k]
          \/ /\ escalations[k].decision = "none" /\ escalations'[k].decision # "none"
             /\ feedback'[k].action # "none" /\ Decided(escalations'[k].ticket)

LEMMA OnceFrame ==
    ASSUME OnceInv, DecisionsStand, RowsStand
    PROVE  PipelineDecidesOnce'
<1> SUFFICES ASSUME NEW t \in Tickets
             PROVE  (IF tickets[t].status \in Undecided
                     THEN /\ tickets[t] \in {AbsentTicket, NewTicket}
                          /\ EscalationsOf(t) = {}
                          /\ FeedbackOf(t) = {}
                     ELSE IF tickets[t].draft
                          THEN tickets[t].lane \in {"fast", "assisted"}
                               /\ PipelineEscalations(t) = {}
                          ELSE tickets[t].lane = "escalate"
                               /\ Cardinality(PipelineEscalations(t)) = 1)'
  BY DEF PipelineDecidesOnce
<1>1. PipelineEscalations(t)' = PipelineEscalations(t)
  BY DEF RowsStand, PipelineEscalations, EscalationsOf
<1>2. CASE ~ Decided(t)
  <2>1. tickets'[t] = tickets[t] /\ EscalationsOf(t) = {} /\ FeedbackOf(t) = {}
        /\ tickets[t] \in {AbsentTicket, NewTicket}
    BY <1>2 DEF OnceInv, PipelineDecidesOnce, DecisionsStand, Decided
  <2>2. EscalationsOf(t)' = {} /\ FeedbackOf(t)' = {}
    BY <1>2, <2>1 DEF RowsStand, EscalationsOf, FeedbackOf
  <2> QED BY <1>2, <2>1, <2>2 DEF Decided, AbsentTicket, NewTicket
<1>3. CASE Decided(t)
  <2>1. Decided(t)' /\ DraftStands(t)
    BY <1>3 DEF DecisionsStand, DraftStands, Decided
  <2> QED BY <1>1, <1>3, <2>1 DEF OnceInv, PipelineDecidesOnce, Decided, DraftStands
<1> QED BY <1>2, <1>3

\* The task's commit: it decides a ticket nobody has touched.
LEMMA OnceDecide ==
    ASSUME OnceInv, NEW t \in Tickets, TaskOpen(t), UNCHANGED feedback,
           \A u \in Tickets \ {t} : tickets'[u] = tickets[u],
           Decided(t)',
           \/ /\ tickets'[t].draft /\ tickets'[t].lane \in {"fast", "assisted"}
              /\ UNCHANGED escalations
           \/ /\ ~ tickets'[t].draft /\ tickets'[t].lane = "escalate"
              /\ \E tier : escalations' =
                    [escalations EXCEPT ![run[t].tick] = NewEscalation(t, tier)]
    PROVE  PipelineDecidesOnce'
<1> DEFINE k == run[t].tick
<1>1. /\ k \in Ticks /\ escalations[k].decision = "none" /\ feedback[k].action = "none"
      /\ EscalationsOf(t) = {}
  BY DEF OnceInv, ResponsibleInv, TicksAreOwned, IsFree, FeedbackOwned, RunsPending, TaskOpen,
         PipelineDecidesOnce, Undecided, Lifecycle!Unfinished
<1>2. escalations \in [Ticks -> EscalationRow]
  BY DEF OnceInv, ResponsibleInv, TypeInv, TypeOK
<1> HIDE DEF k
<1>3. ASSUME NEW u \in Tickets, u # t
      PROVE  /\ tickets'[u] = tickets[u]
             /\ EscalationsOf(u)' = EscalationsOf(u)
             /\ PipelineEscalations(u)' = PipelineEscalations(u)
             /\ FeedbackOf(u)' = FeedbackOf(u)
  <2>1. CASE UNCHANGED escalations
    BY <1>3, <2>1 DEF EscalationsOf, PipelineEscalations, FeedbackOf
  <2>2. ASSUME NEW tier, escalations' = [escalations EXCEPT ![k] = NewEscalation(t, tier)]
        PROVE  EscalationsOf(u)' = EscalationsOf(u)
    BY <1>1, <1>2, <1>3, <2>2 DEF EscalationsOf, NewEscalation
  <2>3. CASE EscalationsOf(u)' = EscalationsOf(u)
    BY <1>3, <2>3 DEF PipelineEscalations, FeedbackOf
  <2> QED BY <2>1, <2>2, <2>3 DEF k
<1>4. CASE UNCHANGED escalations /\ tickets'[t].draft /\ tickets'[t].lane \in {"fast", "assisted"}
  <2>1. PipelineEscalations(t)' = {}
    BY <1>1, <1>4 DEF PipelineEscalations, EscalationsOf
  <2> QED BY <1>3, <1>4, <2>1 DEF OnceInv, PipelineDecidesOnce, Decided
<1>5. ASSUME NEW tier, escalations' = [escalations EXCEPT ![k] = NewEscalation(t, tier)],
             ~ tickets'[t].draft, tickets'[t].lane = "escalate"
      PROVE  PipelineDecidesOnce'
  <2>1. EscalationsOf(t)' = {k}
    BY <1>1, <1>2, <1>5 DEF EscalationsOf, NewEscalation
  <2>2. PipelineEscalations(t)' = {k}
    BY <1>1, <2>1 DEF PipelineEscalations
  <2>3. Cardinality(PipelineEscalations(t)') = 1
    BY <2>2, FS_Singleton
  <2> QED BY <1>3, <1>5, <2>3 DEF OnceInv, PipelineDecidesOnce, Decided
<1> QED BY <1>4, <1>5 DEF k

\* A step that writes no ticket, feedback or escalation.
LEMMA OnceRead ==
    ASSUME OnceInv, UNCHANGED <<tickets, feedback, escalations>>
    PROVE  PipelineDecidesOnce' /\ (\A t \in Tickets : Decided(t) => DraftStands(t))
<1>1. DecisionsStand /\ RowsStand
  BY DEF DecisionsStand, RowsStand
<1> QED BY <1>1, OnceFrame DEF DraftStands

LEMMA OnceRunStep ==
    ASSUME OnceInv, NEW t \in Tickets, RunStep(t)
    PROVE  /\ FeedbackOwned' /\ RunsPending' /\ ReadsDecided' /\ PipelineDecidesOnce'
           /\ \A u \in Tickets : Decided(u) => DraftStands(u)
<1> USE DEF OnceInv, ResponsibleInv, TypeInv
<1>1. UNCHANGED <<req, feedback>>
  BY DEF RunStep, Schedule, StartRun, CommitRun, FailRun, LoadFailedTicket,
         EscalateFailedTicket, LoseRun
<1>2. \A u \in Tickets : u # t => run'[u] = run[u]
  BY DEF RunStep, Schedule, StartRun, CommitRun, FailRun, LoadFailedTicket,
         EscalateFailedTicket, LoseRun, TypeOK
<1>3. ASSUME UNCHANGED tickets
      PROVE  ReadsDecided'
  BY <1>1, <1>3 DEF ReadsDecided, HoldsDecided, Decided
<1>4. CASE Schedule(t) \/ FailRun(t) \/ LoseRun(t)
  <2>1. UNCHANGED <<tickets, escalations, clock>>
    BY <1>4 DEF Schedule, FailRun, RolledBack, LoseRun, TypeOK
  <2>2. \/ run'[t].pc \notin {"created", "queued", "running", "recovering"}
        \/ run[t].pc = "created" /\ run'[t].pc = "queued"
    BY <1>4 DEF Schedule, FailRun, AfterFailure, LoseRun, TypeOK, RunRow
  <2>3. FeedbackOwned' /\ RunsPending'
    BY <1>1, <1>2, <2>1, <2>2 DEF FeedbackOwned, RunsPending, TaskOpen
  <2> QED BY <1>1, <1>3, <2>1, <2>3, OnceRead
<1>5. CASE StartRun(t) \/ LoadFailedTicket(t)
  <2>1. /\ UNCHANGED <<tickets, escalations>>
        /\ clock' = clock + 1 /\ clock < MaxTick /\ clock \in Nat /\ clock + 1 \in Ticks
    BY <1>5, BoundsAssumption DEF StartRun, LoadFailedTicket, TypeOK, Ticks
  <2>2. \A k \in Ticks : k \in Nat
    BY DEF Ticks
  <2>3. \/ run'[t].pc = "done"
        \/ run'[t].tick = clock + 1 /\ tickets[t].status = "submitted"
    <3>1. CASE StartRun(t)
      BY <3>1 DEF StartRun, RunsPending, TypeOK
    <3>2. CASE LoadFailedTicket(t) /\ MustRecover(t)
      <4>1. tickets[t] \in {AbsentTicket, NewTicket}
        BY <3>2 DEF MustRecover, PipelineDecidesOnce, Undecided
      <4>2. tickets[t].status = "submitted"
        BY <3>2, <4>1 DEF MustRecover, AbsentTicket, NewTicket, Lifecycle!Unfinished
      <4> QED BY <3>2, <4>2 DEF LoadFailedTicket, TypeOK
    <3>3. CASE LoadFailedTicket(t) /\ ~ MustRecover(t)
      BY <3>3 DEF LoadFailedTicket, TypeOK
    <3> QED BY <1>5, <3>1, <3>2, <3>3
  <2>4. FeedbackOwned'
    BY <1>1, <1>2, <2>1, <2>2, <2>3 DEF FeedbackOwned, TaskOpen
  <2>5. RunsPending'
    BY <1>2, <2>1, <2>3 DEF RunsPending
  <2> QED BY <1>1, <1>3, <2>1, <2>4, <2>5, OnceRead
<1>6. ASSUME TaskOpen(t), run'[t].pc \in {"done", "failed"}, UNCHANGED clock,
             \A u \in Tickets \ {t} : tickets'[u] = tickets[u], Decided(t)'
      PROVE  /\ FeedbackOwned' /\ RunsPending' /\ ReadsDecided'
             /\ \A u \in Tickets : Decided(u) => DraftStands(u)
  <2>1. ~ Decided(t)
    BY <1>6 DEF TaskOpen, RunsPending, Decided, Undecided, Lifecycle!Unfinished
  <2>2. FeedbackOwned' /\ RunsPending'
    BY <1>1, <1>2, <1>6 DEF FeedbackOwned, RunsPending, TaskOpen
  <2>3. ReadsDecided'
    BY <1>1, <1>6, <2>1 DEF ReadsDecided, HoldsDecided, ReadsExist, HasRead, Decided
  <2> QED BY <1>6, <2>1, <2>2, <2>3 DEF DraftStands
<1>7. ASSUME NEW d \in Departments \cup {None}, NEW lane \in Lanes, NEW ack \in BOOLEAN,
             CommitRun(t, d, lane, ack)
      PROVE  /\ FeedbackOwned' /\ RunsPending' /\ ReadsDecided' /\ PipelineDecidesOnce'
             /\ \A u \in Tickets : Decided(u) => DraftStands(u)
  <2>1. TaskOpen(t) /\ run'[t].pc \in {"done", "failed"} /\ UNCHANGED clock
    BY <1>7 DEF CommitRun, TaskOpen, TypeOK
  <2>2. (\A u \in Tickets \ {t} : tickets'[u] = tickets[u]) /\ tickets'[t] = Outcome(t, d, lane)
    BY <1>7 DEF CommitRun, TypeOK
  <2>3. tickets[t] = NewTicket
    BY <2>1 DEF TaskOpen, RunsPending, PipelineDecidesOnce, Undecided, Lifecycle!Unfinished,
                AbsentTicket
  <2>4. /\ Outcome(t, d, lane).status \notin Undecided
        /\ IF IsWithheld(d, lane)
           THEN ~ Outcome(t, d, lane).draft /\ Outcome(t, d, lane).lane = "escalate"
           ELSE Outcome(t, d, lane).draft /\ Outcome(t, d, lane).lane \in {"fast", "assisted"}
    BY <2>3 DEF Outcome, IsWithheld, NewTicket, AbsentTicket, Undecided, Lifecycle!Unfinished,
                Lanes
  <2>5. PipelineDecidesOnce'
    BY <1>1, <1>7, <2>1, <2>2, <2>4, OnceDecide DEF CommitRun, Decided
  <2> QED BY <1>6, <2>1, <2>2, <2>4, <2>5 DEF Decided
<1>8. CASE EscalateFailedTicket(t)
  <2>1. TaskOpen(t) /\ run'[t].pc \in {"done", "failed"} /\ UNCHANGED clock
    BY <1>8 DEF EscalateFailedTicket, TaskOpen, TypeOK
  <2>2. tickets[t] = NewTicket
    BY <2>1 DEF TaskOpen, RunsPending, PipelineDecidesOnce, Undecided, Lifecycle!Unfinished,
                AbsentTicket
  <2>3. /\ \A u \in Tickets \ {t} : tickets'[u] = tickets[u]
        /\ tickets'[t] = [tickets[t] EXCEPT !.status = "escalated", !.lane = "escalate"]
        /\ escalations' = [escalations EXCEPT ![run[t].tick] = NewEscalation(t, "admin")]
    BY <1>8 DEF EscalateFailedTicket, TypeOK
  <2>4. Decided(t)' /\ ~ tickets'[t].draft /\ tickets'[t].lane = "escalate"
    BY <2>2, <2>3 DEF NewTicket, AbsentTicket, Decided, Undecided, Lifecycle!Unfinished
  <2>5. PipelineDecidesOnce'
    BY <1>1, <2>1, <2>3, <2>4, OnceDecide
  <2> QED BY <1>6, <2>1, <2>3, <2>4, <2>5
<1> QED BY <1>4, <1>5, <1>7, <1>8 DEF RunStep

\* A step of request h that writes no row.
LEMMA OnceRequestRead ==
    ASSUME OnceInv, NEW h \in Handlers, NEW r, HoldsDecided(r),
           req' = [req EXCEPT ![h] = r],
           UNCHANGED <<tickets, feedback, escalations, run>>,
           clock' \in Nat, clock' >= clock
    PROVE  /\ FeedbackOwned' /\ RunsPending' /\ ReadsDecided' /\ PipelineDecidesOnce'
           /\ \A t \in Tickets : Decided(t) => DraftStands(t)
<1>1. clock \in Nat /\ \A k \in Ticks : k \in Nat
  BY BoundsAssumption DEF OnceInv, ResponsibleInv, TypeInv, TypeOK, Ticks
<1>2. FeedbackOwned'
  BY <1>1 DEF OnceInv, FeedbackOwned, TaskOpen
<1>3. RunsPending' /\ ReadsDecided'
  BY DEF OnceInv, RunsPending, ReadsDecided, HoldsDecided, Decided, ResponsibleInv, TypeInv,
         TypeOK
<1> QED BY <1>2, <1>3, OnceRead

\* The commit of request h: its ticket stays decided, and the rows it writes are at its tick.
LEMMA OnceRequestCommit ==
    ASSUME OnceInv, NEW h \in Handlers, req' = [req EXCEPT ![h] = Idle],
           UNCHANGED <<run, clock>>, DecisionsStand, RowsStand,
           \A k \in Ticks : feedback'[k] = feedback[k] \/ (RequestOpen(h) /\ k = req[h].tick)
    PROVE  /\ FeedbackOwned' /\ RunsPending' /\ ReadsDecided' /\ PipelineDecidesOnce'
           /\ \A t \in Tickets : Decided(t) => DraftStands(t)
<1> USE DEF OnceInv, ResponsibleInv, TypeInv
<1>1. FeedbackOwned'
  <2>1. RequestOpen(h) => ~ (req[h].tick > clock)
    BY BoundsAssumption DEF TicksAreOwned, IsFree, TypeOK, Ticks
  <2>2. \A t \in Tickets : TaskOpen(t) => /\ run[t].tick \in Ticks
                                          /\ RequestOpen(h) => run[t].tick # req[h].tick
    BY DEF TicksAreOwned, IsFree
  <2> QED BY <2>1, <2>2 DEF FeedbackOwned, TaskOpen
<1>2. RunsPending'
  BY DEF RunsPending, DecisionsStand, Decided, Undecided, Lifecycle!Unfinished
<1>3. \A t \in Tickets : Decided(t) => Decided(t)' /\ DraftStands(t)
  BY DEF DecisionsStand, DraftStands, Decided
<1>4. ReadsDecided'
  <2>1. \A g \in Handlers : req'[g] = Idle \/ req'[g] = req[g]
    BY DEF TypeOK
  <2> QED BY <1>3, <2>1 DEF ReadsDecided, HoldsDecided, ReadsExist, HasRead, Idle, Decided
<1> QED BY <1>1, <1>2, <1>3, <1>4, OnceFrame

LEMMA OnceRequestStep ==
    ASSUME OnceInv, NEW h \in Handlers, RequestStep(h)
    PROVE  /\ FeedbackOwned' /\ RunsPending' /\ ReadsDecided' /\ PipelineDecidesOnce'
           /\ \A t \in Tickets : Decided(t) => DraftStands(t)
<1> USE DEF OnceInv, ResponsibleInv, TypeInv
<1> DEFINE Goal == /\ FeedbackOwned' /\ RunsPending' /\ ReadsDecided' /\ PipelineDecidesOnce'
                   /\ \A t \in Tickets : Decided(t) => DraftStands(t)
<1>0. clock \in Nat /\ clock >= clock /\ clock + 1 \in Nat /\ clock + 1 >= clock
  BY BoundsAssumption DEF TypeOK, Ticks
<1>a. ASSUME NEW r, HoldsDecided(r), req' = [req EXCEPT ![h] = r],
             UNCHANGED <<tickets, feedback, escalations, run, clock>>
      PROVE  Goal
  BY <1>0, <1>a, OnceRequestRead
<1> HIDE DEF Goal
<1>1. ASSUME NEW u \in Users, NEW kind \in Kinds, Authenticate(h, u, kind)
      PROVE  Goal
  <2> DEFINE r == [Idle EXCEPT !.pc = "auth", !.kind = kind, !.user = u,
                               !.role = users[u].role, !.dept = users[u].dept,
                               !.tick = IF kind \in {"feedback", "resolve"} THEN clock + 1 ELSE 0]
  <2>1. HoldsDecided(r)
    BY DEF HoldsDecided, Idle
  <2>2. /\ req' = [req EXCEPT ![h] = r]
        /\ UNCHANGED <<tickets, feedback, escalations, run>>
        /\ clock' \in {clock, clock + 1}
    BY <1>1 DEF Authenticate
  <2> HIDE DEF r
  <2> QED BY <1>0, <2>1, <2>2, OnceRequestRead DEF Goal
<1>2. CASE Abort(h)
  <2>1. HoldsDecided(Idle)
    BY DEF HoldsDecided, Idle
  <2> QED BY <1>2, <1>a, <2>1 DEF Abort, Goal
<1>3. ASSUME NEW t \in Tickets, LoadTicket(h, t)
      PROVE  Goal
  <2> DEFINE r == [req[h] EXCEPT !.pc = IF req[h].kind = "feedback" THEN "ready" ELSE "opened",
                                 !.ticket = t]
  <2>1. HoldsDecided(r)
    <3>1. Decided(t)
      BY <1>3 DEF LoadTicket, StatusAllows, Decided, Undecided, Lifecycle!Unfinished
    <3> QED BY <3>1 DEF HoldsDecided, TypeOK, ReqRow
  <2>2. /\ req' = [req EXCEPT ![h] = r]
        /\ UNCHANGED <<tickets, feedback, escalations, run, clock>>
    BY <1>3 DEF LoadTicket
  <2> HIDE DEF r
  <2> QED BY <1>a, <2>1, <2>2
\* A request that goes on with the ticket it holds.
<1>b. ASSUME NEW r, r.ticket = req[h].ticket,
             req[h].pc \in {"found", "opened", "loaded", "ready"}
      PROVE  HoldsDecided(r)
  BY <1>b DEF ReadsDecided, HoldsDecided
<1>4. CASE LoadAssignment(h)
  <2> DEFINE r == [req[h] EXCEPT !.pc = "loaded"]
  <2>1. r.ticket = req[h].ticket
    BY DEF TypeOK, ReqRow
  <2>2. /\ req' = [req EXCEPT ![h] = r] /\ req[h].pc \in {"opened", "loaded"}
        /\ UNCHANGED <<tickets, feedback, escalations, run, clock>>
    BY <1>4 DEF LoadAssignment
  <2> HIDE DEF r
  <2>3. HoldsDecided(r)
    BY <1>b, <2>1, <2>2
  <2> QED BY <1>a, <2>2, <2>3 DEF Goal
<1>5. CASE LoadLatestEscalation(h)
  <2> DEFINE r == [req[h] EXCEPT !.pc = "ready"]
  <2>1. r.ticket = req[h].ticket
    BY DEF TypeOK, ReqRow
  <2>2. /\ req' = [req EXCEPT ![h] = r] /\ req[h].pc \in {"opened", "loaded"}
        /\ UNCHANGED <<tickets, feedback, escalations, run, clock>>
    BY <1>5 DEF LoadLatestEscalation
  <2> HIDE DEF r
  <2>3. HoldsDecided(r)
    BY <1>b, <2>1, <2>2
  <2> QED BY <1>a, <2>2, <2>3 DEF Goal
<1>6. ASSUME NEW k \in Ticks, LoadEscalation(h, k)
      PROVE  Goal
  <2> DEFINE r == [req[h] EXCEPT !.pc = "found", !.esc = k, !.ticket = escalations[k].ticket]
  <2>1. HoldsDecided(r)
    <3>1. escalations[k].ticket \in Tickets /\ k \in EscalationsOf(escalations[k].ticket)
      BY <1>6 DEF LoadEscalation, IsPending, ReadsExist, EscalationsOf
    <3>2. Decided(escalations[k].ticket)
      BY <3>1 DEF PipelineDecidesOnce, Decided
    <3> QED BY <3>2 DEF HoldsDecided, TypeOK, ReqRow
  <2>2. /\ req' = [req EXCEPT ![h] = r]
        /\ UNCHANGED <<tickets, feedback, escalations, run, clock>>
    BY <1>6 DEF LoadEscalation
  <2> HIDE DEF r
  <2> QED BY <1>a, <2>1, <2>2
<1>7. CASE LoadEscalatedTicket(h)
  <2> DEFINE r == [req[h] EXCEPT !.pc = IF req[h].kind = "reject" THEN "ready" ELSE "loaded",
                                 !.seen = tickets[req[h].ticket].dept]
  <2>1. r.ticket = req[h].ticket
    BY DEF TypeOK, ReqRow
  <2>2. /\ req' = [req EXCEPT ![h] = r] /\ req[h].pc = "found"
        /\ UNCHANGED <<tickets, feedback, escalations, run, clock>>
    BY <1>7 DEF LoadEscalatedTicket
  <2> HIDE DEF r
  <2>3. HoldsDecided(r)
    BY <1>b, <2>1, <2>2
  <2> QED BY <1>a, <2>2, <2>3 DEF Goal
<1>8. ASSUME NEW v \in Users, LoadEngineer(h, v)
      PROVE  Goal
  <2> DEFINE r == [req[h] EXCEPT !.pc = "ready", !.to = v,
                                 !.route = IF req[h].seen = None THEN users[v].dept ELSE None]
  <2>1. r.ticket = req[h].ticket
    BY DEF TypeOK, ReqRow
  <2>2. /\ req' = [req EXCEPT ![h] = r] /\ req[h].pc = "loaded"
        /\ UNCHANGED <<tickets, feedback, escalations, run, clock>>
    BY <1>8 DEF LoadEngineer
  <2> HIDE DEF r
  <2>3. HoldsDecided(r)
    BY <1>b, <2>1, <2>2
  <2> QED BY <1>a, <2>2, <2>3
<1>9. req[h].pc = "ready" => req[h].ticket \in Tickets /\ Decided(req[h].ticket)
  BY DEF ReadsExist, HasRead, ReadsDecided, HoldsDecided
<1>10. ASSUME NEW a \in ReviewActions, CommitFeedback(h, a)
       PROVE  Goal
  <2> DEFINE t == req[h].ticket
             k == req[h].tick
  <2>1. /\ RequestOpen(h) /\ k \in Ticks /\ escalations[k].decision = "none"
        /\ t \in Tickets /\ Decided(t)
    BY <1>9, <1>10 DEF CommitFeedback, RequestOpen, TicksAreOwned, IsFree
  <2> HIDE DEF t, k
  <2>2. DecisionsStand
    <3>1. \A u \in Tickets \ {t} : tickets'[u] = tickets[u]
      BY <1>10 DEF CommitFeedback, TypeOK, t
    <3>2. tickets'[t] = AfterReview(t, a)
      BY <1>10, <2>1 DEF CommitFeedback, TypeOK, t
    <3>3. tickets'[t].status \notin Undecided /\ DraftStands(t)
      BY <2>1, <3>2 DEF AfterReview, Decided, DraftStands, Undecided, Lifecycle!Unfinished,
                        TypeOK, TicketRow
    <3> QED BY <2>1, <3>1, <3>3 DEF DecisionsStand, Decided
  <2>3. \A j \in Ticks : \/ j # k /\ feedback'[j] = feedback[j]
                         \/ j = k /\ feedback'[j].ticket = t /\ feedback'[j].action # "none"
    BY <1>10 DEF CommitFeedback, TypeOK, t, k, ReviewActions
  <2>4. \A j \in Ticks : \/ escalations'[j] = escalations[j]
                         \/ j = k /\ escalations'[j].ticket = t /\ escalations'[j].decision = "pending"
    BY <1>10 DEF CommitFeedback, TypeOK, t, k, NewEscalation
  <2>5. RowsStand
    BY <2>1, <2>3, <2>4 DEF RowsStand
  <2> QED BY <1>10, <2>1, <2>2, <2>3, <2>5, OnceRequestCommit DEF CommitFeedback, Goal, k
<1>11. ASSUME NEW t \in Tickets, Decided(t), NEW row,
              tickets' = [tickets EXCEPT ![t] = row],
              row.status \notin Undecided, row.draft = tickets[t].draft, row.lane = tickets[t].lane
       PROVE  DecisionsStand
  <2>1. \A u \in Tickets : u # t => tickets'[u] = tickets[u]
    BY <1>11 DEF TypeOK
  <2>2. tickets'[t] = row
    BY <1>11 DEF TypeOK
  <2> QED BY <1>11, <2>1, <2>2 DEF DecisionsStand, Decided, DraftStands
<1>12. CASE CommitResolve(h)
  <2> DEFINE k == req[h].tick
  <2>1. RequestOpen(h) /\ k \in Ticks /\ escalations[k].decision = "none"
    BY <1>12 DEF CommitResolve, RequestOpen, TicksAreOwned, IsFree
  <2> HIDE DEF k
  <2>2. DecisionsStand
    <3> DEFINE row == [tickets[req[h].ticket] EXCEPT !.status = "reviewed"]
    <3>1. tickets' = [tickets EXCEPT ![req[h].ticket] = row]
      BY <1>12 DEF CommitResolve
    <3>2. /\ row.status = "reviewed"
          /\ row.draft = tickets[req[h].ticket].draft /\ row.lane = tickets[req[h].ticket].lane
      BY <1>9, <1>12 DEF CommitResolve, TypeOK, TicketRow
    <3> HIDE DEF row
    <3> QED BY <1>9, <1>11, <1>12, <3>1, <3>2
            DEF CommitResolve, Undecided, Lifecycle!Unfinished
  <2>3. \A j \in Ticks : \/ j # k /\ feedback'[j] = feedback[j]
                         \/ /\ j = k /\ feedback'[j].ticket = req[h].ticket
                            /\ feedback'[j].action # "none"
    BY <1>12 DEF CommitResolve, TypeOK, k
  <2>4. RowsStand
    BY <1>9, <1>12, <2>1, <2>3 DEF CommitResolve, RowsStand
  <2> QED BY <1>12, <2>1, <2>2, <2>3, <2>4, OnceRequestCommit DEF CommitResolve, Goal, k
<1>13. ASSUME req[h].pc = "ready", req[h].kind \in {"approve", "reject"}, UNCHANGED feedback,
              NEW row, escalations' = [escalations EXCEPT ![req[h].esc] = row],
              row.decision # "none", row.ticket = escalations[req[h].esc].ticket
       PROVE  RowsStand
  <2>1. req[h].esc \in Ticks /\ escalations[req[h].esc].decision # "none"
    BY <1>13 DEF ReadsExist, HasRead
  <2> QED BY <1>13, <2>1 DEF RowsStand, TypeOK
<1>14. CASE CommitApprove(h)
  <2>1. DecisionsStand
    <3>1. CASE req[h].route = None
      BY <1>14, <3>1 DEF CommitApprove, DecisionsStand
    <3>2. CASE req[h].route # None
      <4> DEFINE row == [tickets[req[h].ticket] EXCEPT !.dept = req[h].route]
      <4>1. tickets' = [tickets EXCEPT ![req[h].ticket] = row]
        BY <1>14, <3>2 DEF CommitApprove
      <4>2. /\ row.status = tickets[req[h].ticket].status
            /\ row.draft = tickets[req[h].ticket].draft /\ row.lane = tickets[req[h].ticket].lane
        BY <1>9, <1>14 DEF CommitApprove, TypeOK, TicketRow
      <4> HIDE DEF row
      <4> QED BY <1>9, <1>11, <1>14, <4>1, <4>2 DEF CommitApprove, Decided
    <3> QED BY <3>1, <3>2
  <2>2. RowsStand
    <3> DEFINE row == [escalations[req[h].esc] EXCEPT !.decision = "approved", !.to = req[h].to]
    <3>1. escalations' = [escalations EXCEPT ![req[h].esc] = row]
      BY <1>14 DEF CommitApprove
    <3>2. row.decision = "approved" /\ row.ticket = escalations[req[h].esc].ticket
      BY <1>14 DEF CommitApprove, ReadsExist, HasRead, TypeOK, EscalationRow
    <3> HIDE DEF row
    <3> QED BY <1>13, <1>14, <3>1, <3>2 DEF CommitApprove
  <2> QED BY <1>14, <2>1, <2>2, OnceRequestCommit DEF CommitApprove, Goal
<1>15. CASE CommitReject(h)
  <2>1. DecisionsStand
    <3> DEFINE row == AfterReject(req[h].ticket)
    <3>1. tickets' = [tickets EXCEPT ![req[h].ticket] = row]
      BY <1>15 DEF CommitReject
    <3>2. /\ row.status = "closed"
          /\ row.draft = tickets[req[h].ticket].draft /\ row.lane = tickets[req[h].ticket].lane
      BY <1>9, <1>15 DEF CommitReject, AfterReject, TypeOK, TicketRow
    <3> HIDE DEF row
    <3> QED BY <1>9, <1>11, <1>15, <3>1, <3>2 DEF CommitReject, Undecided, Lifecycle!Unfinished
  <2>2. RowsStand
    <3> DEFINE row == [escalations[req[h].esc] EXCEPT !.decision = "rejected"]
    <3>1. escalations' = [escalations EXCEPT ![req[h].esc] = row]
      BY <1>15 DEF CommitReject
    <3>2. row.decision = "rejected" /\ row.ticket = escalations[req[h].esc].ticket
      BY <1>15 DEF CommitReject, ReadsExist, HasRead, TypeOK, EscalationRow
    <3> HIDE DEF row
    <3> QED BY <1>13, <1>15, <3>1, <3>2 DEF CommitReject
  <2> QED BY <1>15, <2>1, <2>2, OnceRequestCommit DEF CommitReject, Goal
<1> QED BY <1>1, <1>2, <1>3, <1>4, <1>5, <1>6, <1>7, <1>8, <1>10, <1>12, <1>14, <1>15
        DEF RequestStep, Goal

LEMMA OnceEnvironment ==
    ASSUME OnceInv,
           \/ \E t \in Tickets : Create(t)
           \/ \E u \in Users : UpdateUser(u)
           \/ Crash
           \/ UNCHANGED vars
    PROVE  /\ FeedbackOwned' /\ RunsPending' /\ ReadsDecided' /\ PipelineDecidesOnce'
           /\ \A t \in Tickets : Decided(t) => DraftStands(t)
<1> USE DEF OnceInv, ResponsibleInv, TypeInv
<1>1. UNCHANGED <<feedback, escalations, clock>>
  BY DEF Create, UpdateUser, Crash, vars
<1>2. \A h \in Handlers : req'[h] = req[h] \/ req'[h] = Idle
  BY DEF Create, UpdateUser, Crash, vars
<1>3. \A t \in Tickets : \/ run'[t] = run[t]
                         \/ run'[t].pc = "lost"
                         \/ run'[t].pc = "created" /\ tickets'[t] = NewTicket
  BY DEF Create, UpdateUser, Crash, vars, TypeOK, RunRow
<1>4. \A t \in Tickets : \/ tickets'[t] = tickets[t]
                         \/ tickets[t].status = "absent" /\ tickets'[t] = NewTicket
  BY DEF Create, UpdateUser, Crash, vars, TypeOK
<1>5. NewTicket.status = "submitted" /\ "submitted" \in Undecided /\ "absent" \in Undecided
  BY DEF NewTicket, AbsentTicket, Undecided, Lifecycle!Unfinished
<1>6. FeedbackOwned'
  BY <1>1, <1>3 DEF FeedbackOwned, TaskOpen
<1>7. RunsPending'
  BY <1>3, <1>4, <1>5 DEF RunsPending
<1>8. \A t \in Tickets : Decided(t) => Decided(t)' /\ DraftStands(t)
  BY <1>4, <1>5 DEF Decided, DraftStands
<1>9. ReadsDecided'
  BY <1>2, <1>8 DEF ReadsDecided, HoldsDecided, ReadsExist, HasRead, Idle, Decided
<1>10. PipelineDecidesOnce'
  BY <1>1, <1>4, <1>5 DEF PipelineDecidesOnce, PipelineEscalations, EscalationsOf, FeedbackOf
<1> QED BY <1>6, <1>7, <1>8, <1>9, <1>10

LEMMA OnceInit == Init => OnceInv
<1>1. Init => PipelineDecidesOnce
  BY DEF Init, PipelineDecidesOnce, EscalationsOf, FeedbackOf, NoEscalation, NoFeedback,
         AbsentTicket, Undecided
<1>2. Init => FeedbackOwned /\ RunsPending /\ ReadsDecided
  BY DEF Init, FeedbackOwned, RunsPending, ReadsDecided, HoldsDecided, TaskOpen, NoFeedback, Idle
<1> QED BY <1>1, <1>2, ResponsibleInit DEF OnceInv

LEMMA OnceNext ==
    OnceInv /\ [Next]_vars => OnceInv' /\ (\A t \in Tickets : Decided(t) => DraftStands(t))
BY ResponsibleNext, OnceRunStep, OnceRequestStep, OnceEnvironment DEF OnceInv, Next

\* The pipeline and its error path decide a ticket exactly once between them, all or nothing,
\* whatever reviewers, admins, restarts and lost acknowledgements do meanwhile; no other
\* request ever adds to, or takes from, the escalations that are the pipeline's.
THEOREM DecidedOnce == Spec => []PipelineDecidesOnce
<1>1. OnceInv => PipelineDecidesOnce
  BY DEF OnceInv
<1> QED BY OnceInit, OnceNext, <1>1, PTL DEF Spec

\* Once a ticket is decided no step changes its draft or its lane: no task that could still
\* commit is left, and no request writes either column.
THEOREM DraftStaysAsDecided == Spec => DraftIsImmutable
<1>1. OnceInv /\ [Next]_vars =>
         [\A t \in Tickets :
             tickets[t].status \notin Undecided =>
                 /\ tickets'[t].draft = tickets[t].draft
                 /\ tickets'[t].lane = tickets[t].lane]_vars
  BY OnceNext DEF Decided, DraftStands
<1> QED BY OnceInit, OnceNext, <1>1, PTL DEF Spec, DraftIsImmutable

----------------------------------------------------------------------------
(* No ticket is stranded *)

\* Only a ticket's own task moves it through the early statuses.
LEMMA RequestsFinish ==
    ASSUME TypeOK, NEW h \in Handlers, RequestStep(h), NEW t \in Tickets
    PROVE  \/ tickets'[t].status = tickets[t].status
           \/ tickets'[t].status \in {"escalated", "reviewed", "closed"}
<1>1. CASE UNCHANGED tickets
  BY <1>1
<1>2. ASSUME NEW a \in ReviewActions, CommitFeedback(h, a)
      PROVE  tickets'[t] = tickets[t] \/ tickets'[t].status \in {"escalated", "reviewed"}
  BY <1>2 DEF CommitFeedback, AfterReview, TypeOK, TicketRow
<1>3. CASE CommitResolve(h)
  BY <1>3 DEF CommitResolve, TypeOK, TicketRow
<1>4. CASE CommitApprove(h)
  BY <1>4 DEF CommitApprove, TypeOK, TicketRow
<1>5. CASE CommitReject(h)
  BY <1>5 DEF CommitReject, AfterReject, TypeOK, TicketRow
<1>6. \/ UNCHANGED tickets
      \/ \E a \in ReviewActions : CommitFeedback(h, a)
      \/ CommitResolve(h) \/ CommitApprove(h) \/ CommitReject(h)
  BY DEF RequestStep, Authenticate, Abort, LoadTicket, LoadAssignment, LoadLatestEscalation,
         LoadEscalation, LoadEscalatedTicket, LoadEngineer
<1> QED BY <1>1, <1>2, <1>3, <1>4, <1>5, <1>6

LEMMA StrandedRunStep ==
    ASSUME TypeOK, ~ FallbackMayFail, NoTicketStranded, NEW t \in Tickets, RunStep(t)
    PROVE  NoTicketStranded'
<1>1. \A u \in Tickets : u # t => run'[u] = run[u] /\ tickets'[u] = tickets[u]
  BY DEF RunStep, Schedule, StartRun, CommitRun, FailRun, LoadFailedTicket,
         EscalateFailedTicket, LoseRun, TypeOK
<1>2. tickets'[t].status \in Lifecycle!Unfinished => Live(run'[t].pc)
  <2>1. CASE Schedule(t) \/ StartRun(t)
    BY <2>1 DEF Schedule, StartRun, Live, TypeOK, RunRow
  <2>2. ASSUME NEW d \in Departments \cup {None}, NEW lane \in Lanes, NEW ack \in BOOLEAN,
               CommitRun(t, d, lane, ack)
        PROVE  tickets'[t].status \in {"escalated", "drafted"}
    BY <2>2 DEF CommitRun, Outcome, TypeOK, TicketRow
  <2>3. CASE FailRun(t)
    BY <2>3 DEF FailRun, AfterFailure, Live, TypeOK
  <2>4. CASE LoadFailedTicket(t)
    BY <2>4 DEF LoadFailedTicket, MustRecover, Live, TypeOK
  <2>5. CASE EscalateFailedTicket(t)
    BY <2>5 DEF EscalateFailedTicket, TypeOK, TicketRow, Lifecycle!Unfinished
  <2> QED BY <2>1, <2>2, <2>3, <2>4, <2>5 DEF RunStep, LoseRun, Lifecycle!Unfinished
<1> QED BY <1>1, <1>2 DEF NoTicketStranded

LEMMA StrandedNext ==
    ASSUME TypeOK, ~ FallbackMayFail, MaxCrashes = 0, NoTicketStranded, [Next]_vars
    PROVE  NoTicketStranded'
<1>1. ASSUME NEW t \in Tickets, Create(t)
      PROVE  NoTicketStranded'
  <2>1. \A u \in Tickets : u # t => run'[u] = run[u] /\ tickets'[u] = tickets[u]
    BY <1>1 DEF Create, TypeOK
  <2>2. run'[t].pc = "created"
    BY <1>1 DEF Create, TypeOK, RunRow
  <2> QED BY <2>1, <2>2 DEF NoTicketStranded, Live
<1>2. ASSUME NEW h \in Handlers, RequestStep(h)
      PROVE  NoTicketStranded'
  <2>1. UNCHANGED run
    BY <1>2 DEF RequestStep, Authenticate, Abort, LoadTicket, LoadAssignment, CommitFeedback,
                LoadLatestEscalation, CommitResolve, LoadEscalation, LoadEscalatedTicket,
                LoadEngineer, CommitApprove, CommitReject
  <2> QED BY <1>2, <2>1, RequestsFinish DEF NoTicketStranded, Lifecycle!Unfinished
<1>3. ASSUME \/ \E u \in Users : UpdateUser(u)
             \/ UNCHANGED vars
      PROVE  NoTicketStranded'
  BY <1>3 DEF UpdateUser, vars, NoTicketStranded
<1>4. ~ Crash
  BY DEF Crash, TypeOK
<1> QED BY <1>1, <1>2, <1>3, <1>4, StrandedRunStep DEF Next

\* If the process is not restarted and the database answers the error path, every ticket in
\* an early status has a task that will still handle it, for any number of tickets, tasks and
\* requests at once. DeskCrash shows that the first assumption is needed.
THEOREM NobodyIsStranded == ASSUME ~ FallbackMayFail, MaxCrashes = 0
                            PROVE  Spec => []NoTicketStranded
<1>1. Init => NoTicketStranded
  BY DEF Init, NoTicketStranded, AbsentTicket, Lifecycle!Unfinished
<1>2. TypeOK /\ NoTicketStranded /\ [Next]_vars => NoTicketStranded'
  BY StrandedNext
<1> QED BY <1>1, <1>2, TypeCorrect, PTL DEF Spec

----------------------------------------------------------------------------
(* Decisions and their grounds *)

(***************************************************************************)
(* DecisionsAreJustified, for any number of requests in flight.            *)
(*                                                                         *)
(* The property relates rows that several transactions wrote, so it needs  *)
(* three things it does not say.  Rows are not overwritten: the tick of an *)
(* open request carries no feedback.  What a request read before its       *)
(* commit is still a ground for it at the commit: a draft stays, an        *)
(* escalation that was assigned stays assigned, and the department of a    *)
(* ticket the pipeline routed never changes.  And nobody's account changes *)
(* between the check of an engineer and the approval.                      *)
(***************************************************************************)

FeedbackFree ==
    \A h \in Handlers : RequestOpen(h) => feedback[req[h].tick].action = "none"

TicketGrounds ==
    \A t \in Tickets :
        /\ tickets[t].status = "reviewed" =>
              \E k \in FeedbackOf(t) :
                  feedback[k].action \in {"accept", "edit", "reject", "resolve"}
        /\ tickets[t].status = "closed" =>
              \E k \in EscalationsOf(t) : escalations[k].decision # "pending"
        /\ tickets[t].status = "drafted" => tickets[t].draft
        /\ WasRouted(t) => tickets[t].dept # None

WasAssigned(t) == \E j \in EscalationsOf(t) : escalations[j].to # None

FeedbackGrounds ==
    \A k \in Ticks :
        /\ feedback[k].action # "none" => feedback[k].ticket \in Tickets
        /\ feedback[k].action \in ReviewActions => tickets[feedback[k].ticket].draft
        /\ feedback[k].action = "resolve" => WasAssigned(feedback[k].ticket)

\* v may be put in charge of t.
MayOwn(v, t) ==
    /\ v \in Users
    /\ userUpdates = 0 =>
          /\ users[v].role = "department_engineer"
          /\ WasRouted(t) => users[v].dept = tickets[t].dept

EscalationGrounds ==
    \A k \in Ticks :
        escalations[k].decision = "approved" => MayOwn(escalations[k].to, escalations[k].ticket)

\* What a request has read is still a ground for what it will commit.
HoldsGround(r) ==
    /\ r.pc = "opened" => r.kind = "resolve"
    /\ r.pc = "ready" /\ r.kind = "feedback" => tickets[r.ticket].draft
    /\ r.pc = "ready" /\ r.kind = "resolve" => WasAssigned(r.ticket)
    /\ r.pc \in {"loaded", "ready"} /\ r.kind \in {"approve", "reject"} /\ WasRouted(r.ticket) =>
          r.seen = tickets[r.ticket].dept
    /\ r.pc = "ready" /\ r.kind = "approve" =>
          /\ MayOwn(r.to, r.ticket)
          /\ WasRouted(r.ticket) => r.route = None

ReadsGrounded == \A h \in Handlers : HoldsGround(req[h])

GroundInv ==
    OnceInv /\ FeedbackFree /\ TicketGrounds /\ FeedbackGrounds /\ EscalationGrounds /\ ReadsGrounded

\* No step takes a ground away.
Keeps ==
    /\ \A t \in Tickets : Decided(t) =>
          /\ tickets'[t].draft = tickets[t].draft
          /\ WasRouted(t)' => WasRouted(t)
          /\ WasRouted(t) => tickets'[t].dept = tickets[t].dept
    /\ \A k \in Ticks : feedback[k].action # "none" => feedback'[k] = feedback[k]
    /\ \A k \in Ticks : escalations[k].decision # "none" =>
          /\ escalations'[k].decision # "none"
          /\ escalations'[k].ticket = escalations[k].ticket
          /\ escalations[k].decision # "pending" => escalations'[k].decision # "pending"
          /\ escalations[k].to # None => escalations'[k].to # None
    /\ userUpdates' = 0 => userUpdates = 0 /\ users' = users

----------------------------------------------------------------------------
(* What Keeps keeps *)

LEMMA AssignedStays ==
    ASSUME Keeps, NEW t, WasAssigned(t)
    PROVE  WasAssigned(t)'
BY DEF Keeps, WasAssigned, EscalationsOf

LEMMA OwnerStays ==
    ASSUME Keeps, NEW t \in Tickets, Decided(t), NEW v, MayOwn(v, t)
    PROVE  MayOwn(v, t)'
BY DEF Keeps, MayOwn

\* Tickets that rows and requests refer to are decided.
LEMMA RowsDecided ==
    ASSUME GroundInv, NEW k \in Ticks
    PROVE  /\ feedback[k].action # "none" =>
                 feedback[k].ticket \in Tickets /\ Decided(feedback[k].ticket)
           /\ escalations[k].decision # "none" =>
                 escalations[k].ticket \in Tickets /\ Decided(escalations[k].ticket)
BY DEF GroundInv, OnceInv, ResponsibleInv, TypeInv, ReadsExist, FeedbackGrounds,
       PipelineDecidesOnce, EscalationsOf, FeedbackOf, Decided

LEMMA FeedbackGroundsStep ==
    ASSUME GroundInv, Keeps,
           \A k \in Ticks :
              \/ feedback'[k] = feedback[k]
              \/ /\ feedback'[k].ticket \in Tickets /\ Decided(feedback'[k].ticket)
                 /\ feedback'[k].action \in ReviewActions => tickets[feedback'[k].ticket].draft
                 /\ feedback'[k].action = "resolve" => WasAssigned(feedback'[k].ticket)
    PROVE  FeedbackGrounds'
<1> SUFFICES ASSUME NEW k \in Ticks
             PROVE  /\ feedback'[k].action # "none" => feedback'[k].ticket \in Tickets
                    /\ feedback'[k].action \in ReviewActions => tickets'[feedback'[k].ticket].draft
                    /\ feedback'[k].action = "resolve" =>
                          \E j \in Ticks : /\ escalations'[j].decision # "none"
                                           /\ escalations'[j].ticket = feedback'[k].ticket
                                           /\ escalations'[j].to # None
  BY DEF FeedbackGrounds, WasAssigned, EscalationsOf
<1>0. "none" \notin ReviewActions
  BY DEF ReviewActions
<1>1. feedback'[k].action # "none" =>
         /\ feedback'[k].ticket \in Tickets /\ Decided(feedback'[k].ticket)
         /\ feedback'[k].action \in ReviewActions => tickets[feedback'[k].ticket].draft
         /\ feedback'[k].action = "resolve" => WasAssigned(feedback'[k].ticket)
  BY RowsDecided DEF GroundInv, FeedbackGrounds
<1>2. \A t \in Tickets : Decided(t) => tickets'[t].draft = tickets[t].draft
  BY DEF Keeps
<1>3. ASSUME NEW t, WasAssigned(t)
      PROVE  \E j \in Ticks : /\ escalations'[j].decision # "none"
                              /\ escalations'[j].ticket = t
                              /\ escalations'[j].to # None
  BY <1>3 DEF Keeps, WasAssigned, EscalationsOf
<1> QED BY <1>0, <1>1, <1>2, <1>3

LEMMA EscalationGroundsStep ==
    ASSUME GroundInv, Keeps,
           \A k \in Ticks : escalations'[k].decision = "approved" =>
              \/ escalations'[k] = escalations[k]
              \/ /\ escalations[k].decision # "none"
                 /\ MayOwn(escalations'[k].to, escalations[k].ticket)
    PROVE  EscalationGrounds'
<1> SUFFICES ASSUME NEW k \in Ticks, escalations'[k].decision = "approved"
             PROVE  MayOwn(escalations[k].to, escalations[k].ticket)'
  BY DEF EscalationGrounds
<1>1. /\ escalations[k].decision # "none"
      /\ escalations'[k].ticket = escalations[k].ticket
      /\ MayOwn(escalations'[k].to, escalations[k].ticket)
  BY DEF GroundInv, EscalationGrounds, Keeps
<1>2. escalations[k].ticket \in Tickets /\ Decided(escalations[k].ticket)
  BY <1>1, RowsDecided
<1> QED BY <1>1, <1>2 DEF Keeps, MayOwn

LEMMA TicketGroundsStep ==
    ASSUME GroundInv, Keeps,
           \A t \in Tickets :
              /\ tickets'[t].status = "reviewed" =>
                    \/ tickets[t].status = "reviewed"
                    \/ \E k \in Ticks :
                          /\ feedback'[k].ticket = t
                          /\ feedback'[k].action \in {"accept", "edit", "reject", "resolve"}
              /\ tickets'[t].status = "closed" =>
                    \/ tickets[t].status = "closed"
                    \/ \E k \in Ticks : /\ escalations'[k].ticket = t
                                        /\ escalations'[k].decision \notin {"none", "pending"}
              /\ tickets'[t].status = "drafted" =>
                    tickets[t].status = "drafted" \/ tickets'[t].draft
              /\ ~ Decided(t) /\ WasRouted(t)' => tickets'[t].dept # None
    PROVE  TicketGrounds'
<1> SUFFICES ASSUME NEW t \in Tickets
             PROVE  /\ tickets'[t].status = "reviewed" =>
                          \E k \in Ticks :
                              /\ feedback'[k].action # "none" /\ feedback'[k].ticket = t
                              /\ feedback'[k].action \in {"accept", "edit", "reject", "resolve"}
                    /\ tickets'[t].status = "closed" =>
                          \E k \in Ticks :
                              /\ escalations'[k].decision # "none" /\ escalations'[k].ticket = t
                              /\ escalations'[k].decision # "pending"
                    /\ tickets'[t].status = "drafted" => tickets'[t].draft
                    /\ WasRouted(t)' => tickets'[t].dept # None
  BY DEF TicketGrounds, FeedbackOf, EscalationsOf
<1>1. tickets[t].status = "reviewed" =>
         \E k \in Ticks : /\ feedback'[k].ticket = t
                          /\ feedback'[k].action \in {"accept", "edit", "reject", "resolve"}
  BY DEF GroundInv, TicketGrounds, FeedbackOf, Keeps
<1>2. tickets[t].status = "closed" =>
         \E k \in Ticks : /\ escalations'[k].ticket = t
                          /\ escalations'[k].decision \notin {"none", "pending"}
  BY DEF GroundInv, TicketGrounds, EscalationsOf, Keeps
<1>3. tickets[t].status = "drafted" => tickets'[t].draft
  BY DEF GroundInv, TicketGrounds, Keeps, Decided, Undecided, Lifecycle!Unfinished
<1>4. Decided(t) /\ WasRouted(t)' => tickets'[t].dept # None
  BY DEF GroundInv, TicketGrounds, Keeps
<1> QED BY <1>1, <1>2, <1>3, <1>4

\* Requests that a step leaves alone, or ends.
LEMMA ReadsGroundedFrame ==
    ASSUME GroundInv, Keeps, \A h \in Handlers : req'[h] = req[h] \/ req'[h] = Idle
    PROVE  ReadsGrounded'
<1> SUFFICES ASSUME NEW h \in Handlers
             PROVE  HoldsGround(req[h])'
  BY DEF ReadsGrounded
<1>1. CASE req'[h] = Idle
  BY <1>1 DEF HoldsGround, Idle
<1>2. CASE req'[h] = req[h] /\ req[h].pc \notin {"found", "opened", "loaded", "ready"}
  BY <1>2 DEF HoldsGround
<1>3. CASE req'[h] = req[h] /\ req[h].pc \in {"found", "opened", "loaded", "ready"}
  <2>1. req[h].ticket \in Tickets /\ Decided(req[h].ticket)
    BY <1>3 DEF GroundInv, OnceInv, ResponsibleInv, TypeInv, ReadsExist, HasRead, ReadsDecided,
                HoldsDecided
  <2>2. HoldsGround(req[h])
    BY DEF GroundInv, ReadsGrounded
  <2>3. PICK t \in Tickets : t = req[h].ticket /\ t = req'[h].ticket
    BY <1>3, <2>1
  <2>4. PICK v : v = req[h].to /\ v = req'[h].to
    BY <1>3
  <2>5. /\ tickets'[t].draft = tickets[t].draft
        /\ WasRouted(t)' => WasRouted(t)
        /\ WasRouted(t) => tickets'[t].dept = tickets[t].dept
        /\ WasAssigned(t) => WasAssigned(t)'
        /\ MayOwn(v, t) => MayOwn(v, t)'
    BY <2>1, <2>3, AssignedStays, OwnerStays DEF Keeps
  <2> QED BY <1>3, <2>2, <2>3, <2>4, <2>5
          DEF HoldsGround, WasRouted, WasAssigned, MayOwn, EscalationsOf
<1> QED BY <1>1, <1>2, <1>3

----------------------------------------------------------------------------
(* What the steps write *)

\* A task's commit decides a ticket nobody has touched; its other steps write no row.
LEMMA TaskWrites ==
    ASSUME OnceInv, NEW t \in Tickets, RunStep(t)
    PROVE  /\ UNCHANGED <<feedback, users, userUpdates, req>>
           /\ \A u \in Tickets \ {t} : tickets'[u] = tickets[u]
           /\ \/ UNCHANGED <<tickets, escalations>>
              \/ /\ TaskOpen(t) /\ tickets[t] = NewTicket
                 /\ tickets'[t].status = "drafted" /\ tickets'[t].draft
                 /\ tickets'[t].dept # None
                 /\ UNCHANGED escalations
              \/ /\ TaskOpen(t) /\ tickets[t] = NewTicket
                 /\ tickets'[t].status = "escalated" /\ ~ tickets'[t].draft
                 /\ \E tier \in {"admin", "senior"} :
                       /\ escalations' = [escalations EXCEPT ![run[t].tick] = NewEscalation(t, tier)]
                       /\ tier = "senior" => tickets'[t].dept # None
<1> USE DEF OnceInv, ResponsibleInv, TypeInv
<1>1. UNCHANGED <<feedback, users, userUpdates, req>>
  BY DEF RunStep, Schedule, StartRun, CommitRun, FailRun, LoadFailedTicket,
         EscalateFailedTicket, LoseRun
<1>2. CASE Schedule(t) \/ StartRun(t) \/ FailRun(t) \/ LoadFailedTicket(t) \/ LoseRun(t)
  BY <1>1, <1>2 DEF Schedule, StartRun, FailRun, RolledBack, LoadFailedTicket, LoseRun, TypeOK
<1>3. TaskOpen(t) => tickets[t] = NewTicket
  BY DEF TaskOpen, RunsPending, PipelineDecidesOnce, Undecided, Lifecycle!Unfinished,
         AbsentTicket
<1>4. ASSUME NEW d \in Departments \cup {None}, NEW lane \in Lanes, NEW ack \in BOOLEAN,
             CommitRun(t, d, lane, ack)
      PROVE  /\ TaskOpen(t)
             /\ \A u \in Tickets \ {t} : tickets'[u] = tickets[u]
             /\ tickets'[t] = Outcome(t, d, lane)
             /\ IsWithheld(d, lane) =>
                   escalations' = [escalations EXCEPT
                      ![run[t].tick] = NewEscalation(t, IF d = None THEN "admin" ELSE "senior")]
             /\ ~ IsWithheld(d, lane) => UNCHANGED escalations
  BY <1>4 DEF CommitRun, TaskOpen, TypeOK
<1>5. ASSUME NEW d \in Departments \cup {None}, NEW lane \in Lanes, tickets[t] = NewTicket
      PROVE  LET o == Outcome(t, d, lane)
             IN  /\ IsWithheld(d, lane) => o.status = "escalated" /\ ~ o.draft
                 /\ ~ IsWithheld(d, lane) => o.status = "drafted" /\ o.draft
                 /\ d # None => o.dept # None
                 /\ ~ IsWithheld(d, lane) => d # None
  BY <1>5, NoneAssumption DEF Outcome, IsWithheld, NewTicket, AbsentTicket
<1>6. ASSUME NEW d \in Departments \cup {None}, NEW lane \in Lanes, NEW ack \in BOOLEAN,
             CommitRun(t, d, lane, ack), IsWithheld(d, lane)
      PROVE  /\ TaskOpen(t) /\ tickets[t] = NewTicket
             /\ \A u \in Tickets \ {t} : tickets'[u] = tickets[u]
             /\ tickets'[t].status = "escalated" /\ ~ tickets'[t].draft
             /\ \E tier \in {"admin", "senior"} :
                   /\ escalations' = [escalations EXCEPT ![run[t].tick] = NewEscalation(t, tier)]
                   /\ tier = "senior" => tickets'[t].dept # None
  <2> DEFINE tier == IF d = None THEN "admin" ELSE "senior"
  <2>1. tier \in {"admin", "senior"} /\ (tier = "senior" => d # None)
    OBVIOUS
  <2>2. escalations' = [escalations EXCEPT ![run[t].tick] = NewEscalation(t, tier)]
    BY <1>4, <1>6
  <2>3. TaskOpen(t) /\ tickets[t] = NewTicket
    BY <1>3, <1>4, <1>6
  <2>4. /\ \A u \in Tickets \ {t} : tickets'[u] = tickets[u]
        /\ tickets'[t] = Outcome(t, d, lane)
    BY <1>4, <1>6
  <2>5. /\ tickets'[t].status = "escalated" /\ ~ tickets'[t].draft
        /\ tier = "senior" => tickets'[t].dept # None
    BY <1>5, <1>6, <2>1, <2>3, <2>4
  <2> HIDE DEF tier
  <2> QED BY <2>1, <2>2, <2>3, <2>4, <2>5
<1>7. ASSUME NEW d \in Departments \cup {None}, NEW lane \in Lanes, NEW ack \in BOOLEAN,
             CommitRun(t, d, lane, ack), ~ IsWithheld(d, lane)
      PROVE  /\ TaskOpen(t) /\ tickets[t] = NewTicket
             /\ \A u \in Tickets \ {t} : tickets'[u] = tickets[u]
             /\ tickets'[t].status = "drafted" /\ tickets'[t].draft
             /\ tickets'[t].dept # None
             /\ UNCHANGED escalations
  BY <1>3, <1>4, <1>5, <1>7
<1>8. CASE EscalateFailedTicket(t)
  <2>1. /\ TaskOpen(t)
        /\ \A u \in Tickets \ {t} : tickets'[u] = tickets[u]
        /\ tickets'[t] = [tickets[t] EXCEPT !.status = "escalated", !.lane = "escalate"]
        /\ escalations' = [escalations EXCEPT ![run[t].tick] = NewEscalation(t, "admin")]
    BY <1>8 DEF EscalateFailedTicket, TaskOpen, TypeOK
  <2>2. tickets'[t].status = "escalated" /\ ~ tickets'[t].draft
    BY <1>3, <2>1 DEF NewTicket, AbsentTicket
  <2> QED BY <1>1, <1>3, <2>1, <2>2
<1> QED BY <1>1, <1>2, <1>6, <1>7, <1>8 DEF RunStep

LEMMA GroundRunStep ==
    ASSUME GroundInv, NEW t \in Tickets, RunStep(t)
    PROVE  Keeps /\ FeedbackFree' /\ TicketGrounds' /\ FeedbackGrounds' /\ EscalationGrounds'
           /\ ReadsGrounded'
<1> USE DEF GroundInv, OnceInv, ResponsibleInv, TypeInv
<1>1. UNCHANGED <<feedback, users, userUpdates, req>>
  BY TaskWrites
<1>2. /\ FeedbackFree'
      /\ \A h \in Handlers : req'[h] = req[h] \/ req'[h] = Idle
  BY <1>1 DEF FeedbackFree, RequestOpen
<1>3. /\ \A k \in Ticks : \/ escalations'[k] = escalations[k]
                          \/ /\ escalations[k].decision = "none" /\ ~ Decided(t)
                             /\ escalations'[k].ticket = t
                             /\ escalations'[k].decision = "pending"
                             /\ escalations'[k].tier = "senior" => tickets'[t].dept # None
      /\ \A u \in Tickets : \/ tickets'[u] = tickets[u]
                            \/ /\ u = t /\ ~ Decided(t)
                               /\ tickets'[t].status \in {"drafted", "escalated"}
                               /\ tickets'[t].status = "drafted" => tickets'[t].draft
                               /\ tickets'[t].draft => tickets'[t].dept # None
  <2>1. CASE UNCHANGED <<tickets, escalations>>
    BY <2>1
  <2>2. TaskOpen(t) => /\ run[t].tick \in Ticks
                       /\ escalations[run[t].tick].decision = "none"
                       /\ ~ Decided(t)
    BY DEF TicksAreOwned, IsFree, RunsPending, TaskOpen, Decided, Undecided, Lifecycle!Unfinished
  <2>3. ASSUME TaskOpen(t), NEW tier,
               escalations' = [escalations EXCEPT ![run[t].tick] = NewEscalation(t, tier)],
               tier = "senior" => tickets'[t].dept # None
        PROVE  \A k \in Ticks : \/ escalations'[k] = escalations[k]
                                \/ /\ escalations[k].decision = "none" /\ ~ Decided(t)
                                   /\ escalations'[k].ticket = t
                                   /\ escalations'[k].decision = "pending"
                                   /\ escalations'[k].tier = "senior" => tickets'[t].dept # None
    BY <2>2, <2>3 DEF NewEscalation, TypeOK
  <2> QED BY <2>1, <2>2, <2>3, TaskWrites
<1>4. \A u \in Tickets : Decided(u) => tickets'[u] = tickets[u]
  BY <1>3
<1>5. ASSUME NEW u \in Tickets, Decided(u), WasRouted(u)'
      PROVE  WasRouted(u)
  BY <1>3, <1>4, <1>5 DEF WasRouted, EscalationsOf
<1>6. Keeps
  BY <1>1, <1>3, <1>4, <1>5 DEF Keeps
<1>7. FeedbackGrounds'
  BY <1>1, <1>6, FeedbackGroundsStep
<1>8. EscalationGrounds'
  BY <1>3, <1>6, EscalationGroundsStep
<1>9. TicketGrounds'
  <2>1. ASSUME NEW u \in Tickets, ~ Decided(u), WasRouted(u)'
        PROVE  tickets'[u].dept # None
    <3>1. ~ WasRouted(u)
      BY <2>1 DEF PipelineDecidesOnce, WasRouted, Decided, AbsentTicket, NewTicket
    <3> QED BY <1>3, <2>1, <3>1 DEF WasRouted, EscalationsOf
  <2> QED BY <1>3, <1>6, <2>1, TicketGroundsStep
<1> QED BY <1>2, <1>6, <1>7, <1>8, <1>9, ReadsGroundedFrame
\* What is left to show of a step besides OnceInv.
GroundsKept ==
    Keeps /\ FeedbackFree' /\ TicketGrounds' /\ FeedbackGrounds' /\ EscalationGrounds'
    /\ ReadsGrounded'

\* A step of request h that writes no row.
LEMMA GroundRead ==
    ASSUME GroundInv, NEW h \in Handlers, NEW r, HoldsGround(r),
           req' = [req EXCEPT ![h] = r],
           UNCHANGED <<tickets, feedback, escalations, users, userUpdates>>,
           r.pc # "idle" /\ r.kind \in {"feedback", "resolve"} => feedback[r.tick].action = "none"
    PROVE  GroundsKept
<1> USE DEF GroundInv, OnceInv, ResponsibleInv, TypeInv
<1>1. req'[h] = r /\ \A g \in Handlers : g # h => req'[g] = req[g]
  BY DEF TypeOK
<1>2. Keeps
  BY DEF Keeps, WasRouted, EscalationsOf
<1>3. FeedbackFree'
  BY <1>1 DEF FeedbackFree, RequestOpen
<1>4. TicketGrounds' /\ FeedbackGrounds' /\ EscalationGrounds'
  BY DEF TicketGrounds, FeedbackGrounds, EscalationGrounds, MayOwn, WasRouted, WasAssigned,
         EscalationsOf, FeedbackOf
<1>5. ReadsGrounded'
  BY <1>1 DEF ReadsGrounded, HoldsGround, MayOwn, WasRouted, WasAssigned, EscalationsOf
<1> QED BY <1>2, <1>3, <1>4, <1>5 DEF GroundsKept

\* A commit of request h leaves the other requests their ticks and their grounds.
LEMMA GroundCommit ==
    ASSUME GroundInv, Keeps, NEW h \in Handlers, req' = [req EXCEPT ![h] = Idle],
           \A k \in Ticks : feedback'[k] = feedback[k] \/ (RequestOpen(h) /\ k = req[h].tick)
    PROVE  FeedbackFree' /\ ReadsGrounded'
<1> USE DEF GroundInv, OnceInv, ResponsibleInv, TypeInv
<1>1. req'[h] = Idle /\ \A g \in Handlers : g # h => req'[g] = req[g]
  BY DEF TypeOK
<1>2. \A g \in Handlers : RequestOpen(g) =>
         req[g].tick \in Ticks /\ (g # h /\ RequestOpen(h) => req[g].tick # req[h].tick)
  BY DEF TicksAreOwned, IsFree
<1>3. FeedbackFree'
  BY <1>1, <1>2 DEF FeedbackFree, RequestOpen, Idle
<1> QED BY <1>1, <1>3, ReadsGroundedFrame

\* Ticket t is written, and rows only at the free tick k: feedback, or an admin's escalation.
Reviews(t, k) ==
    /\ feedback[k].action = "none" /\ escalations[k].decision = "none"
    /\ \A u \in Tickets :
          /\ u # t => tickets'[u] = tickets[u]
          /\ tickets'[u].draft = tickets[u].draft /\ tickets'[u].dept = tickets[u].dept
    /\ \A j \in Ticks :
          /\ j # k => feedback'[j] = feedback[j]
          /\ escalations'[j] = escalations[j] \/ escalations'[j] = NewEscalation(t, "admin")
          /\ j # k => escalations'[j] = escalations[j]
    /\ UNCHANGED <<users, userUpdates>>

LEMMA KeepsReview ==
    ASSUME GroundInv, NEW t, NEW k, Reviews(t, k)
    PROVE  Keeps /\ (\A u \in Tickets : WasRouted(u)' => WasRouted(u))
<1>1. \A j \in Ticks : escalations'[j].tier = "senior" => escalations'[j] = escalations[j]
  BY DEF Reviews, NewEscalation
<1>2. \A u \in Tickets : WasRouted(u)' => WasRouted(u)
  BY <1>1 DEF Reviews, WasRouted, EscalationsOf
<1> QED BY <1>2 DEF Reviews, Keeps

\* Escalation e is decided; its ticket may change its status, or take a department if the
\* pipeline gave it none.
Decides(e, row) ==
    /\ e \in Ticks /\ escalations[e].decision # "none"
    /\ row.decision \in {"approved", "rejected"}
    /\ row.ticket = escalations[e].ticket /\ row.tier = escalations[e].tier
    /\ escalations[e].to # None => row.to # None
    /\ escalations' = [escalations EXCEPT ![e] = row]
    /\ \A u \in Tickets : /\ tickets'[u].draft = tickets[u].draft
                          /\ WasRouted(u) => tickets'[u].dept = tickets[u].dept
    /\ UNCHANGED <<feedback, users, userUpdates>>

LEMMA KeepsDecide ==
    ASSUME GroundInv, NEW e, NEW row, Decides(e, row)
    PROVE  Keeps /\ (\A u \in Tickets : WasRouted(u)' => WasRouted(u))
<1>1. escalations'[e] = row /\ \A j \in Ticks \ {e} : escalations'[j] = escalations[j]
  BY DEF GroundInv, OnceInv, ResponsibleInv, TypeInv, TypeOK, Decides
<1>2. \A j \in Ticks :
         /\ escalations'[j].ticket = escalations[j].ticket
         /\ escalations'[j].tier = escalations[j].tier
         /\ escalations'[j].decision = "none" <=> escalations[j].decision = "none"
         /\ escalations[j].decision # "pending" => escalations'[j].decision # "pending"
         /\ escalations[j].to # None => escalations'[j].to # None
  BY <1>1 DEF Decides
<1>3. \A u \in Tickets : WasRouted(u)' => WasRouted(u)
  BY <1>2 DEF Decides, WasRouted, EscalationsOf
<1> QED BY <1>2, <1>3 DEF Decides, Keeps

LEMMA GroundRequestStep ==
    ASSUME GroundInv, NEW h \in Handlers, RequestStep(h)
    PROVE  GroundsKept
<1> USE DEF GroundInv, OnceInv, ResponsibleInv, TypeInv
<1>0. /\ req[h].pc # "idle" /\ req[h].kind \in {"feedback", "resolve"} =>
            /\ RequestOpen(h) /\ req[h].tick \in Ticks
            /\ feedback[req[h].tick].action = "none"
            /\ escalations[req[h].tick].decision = "none"
      /\ req[h].pc \in {"found", "opened", "loaded", "ready"} =>
            req[h].ticket \in Tickets /\ Decided(req[h].ticket)
      /\ HoldsGround(req[h])
  BY DEF RequestOpen, FeedbackFree, TicksAreOwned, IsFree, ReadsExist, HasRead, ReadsDecided,
         HoldsDecided, ReadsGrounded
<1>1. ASSUME NEW u \in Users, NEW kind \in Kinds, Authenticate(h, u, kind)
      PROVE  GroundsKept
  <2> DEFINE r == [Idle EXCEPT !.pc = "auth", !.kind = kind, !.user = u,
                               !.role = users[u].role, !.dept = users[u].dept,
                               !.tick = IF kind \in {"feedback", "resolve"} THEN clock + 1 ELSE 0]
  <2>1. HoldsGround(r)
    BY DEF HoldsGround, Idle
  <2>2. r.kind = kind /\ (kind \in {"feedback", "resolve"} => r.tick = clock + 1)
    BY DEF Idle
  <2>3. /\ req' = [req EXCEPT ![h] = r]
        /\ UNCHANGED <<tickets, feedback, escalations, users, userUpdates>>
        /\ kind \in {"feedback", "resolve"} => clock < MaxTick
    BY <1>1 DEF Authenticate
  <2>4. clock < MaxTick => clock + 1 \in Ticks /\ clock + 1 > clock
    BY BoundsAssumption DEF TypeOK, Ticks
  <2> HIDE DEF r
  <2> QED BY <2>1, <2>2, <2>3, <2>4, GroundRead DEF FeedbackOwned
<1>2. CASE Abort(h)
  <2>1. HoldsGround(Idle) /\ Idle.pc = "idle"
    BY DEF HoldsGround, Idle
  <2> QED BY <1>2, <2>1, GroundRead DEF Abort
\* A request that goes on keeps its kind and its tick.
<1>a. ASSUME NEW r, HoldsGround(r), req' = [req EXCEPT ![h] = r], req[h].pc # "idle",
             r.kind = req[h].kind, r.tick = req[h].tick,
             UNCHANGED <<tickets, feedback, escalations, users, userUpdates>>
      PROVE  GroundsKept
  BY <1>0, <1>a, GroundRead
<1>3. ASSUME NEW t \in Tickets, LoadTicket(h, t)
      PROVE  GroundsKept
  <2> DEFINE r == [req[h] EXCEPT !.pc = IF req[h].kind = "feedback" THEN "ready" ELSE "opened",
                                 !.ticket = t]
  <2>1. /\ r.kind = req[h].kind /\ r.tick = req[h].tick /\ r.ticket = t
        /\ r.pc = IF req[h].kind = "feedback" THEN "ready" ELSE "opened"
    BY DEF TypeOK, ReqRow
  <2>2. /\ req' = [req EXCEPT ![h] = r] /\ req[h].pc # "idle"
        /\ req[h].kind \in {"feedback", "resolve"}
        /\ StatusAllows(req[h].kind, tickets[t].status)
        /\ UNCHANGED <<tickets, feedback, escalations, users, userUpdates>>
    BY <1>3 DEF LoadTicket
  <2> HIDE DEF r
  <2>3. HoldsGround(r)
    BY <2>1, <2>2 DEF HoldsGround, StatusAllows, TicketGrounds
  <2> QED BY <1>a, <2>1, <2>2, <2>3
<1>4. CASE LoadAssignment(h)
  <2> DEFINE r == [req[h] EXCEPT !.pc = "loaded"]
  <2>1. r.kind = req[h].kind /\ r.tick = req[h].tick /\ r.pc = "loaded"
    BY DEF TypeOK, ReqRow
  <2>2. /\ req' = [req EXCEPT ![h] = r] /\ req[h].pc = "opened"
        /\ UNCHANGED <<tickets, feedback, escalations, users, userUpdates>>
    BY <1>4 DEF LoadAssignment
  <2> HIDE DEF r
  <2>3. HoldsGround(r)
    BY <1>0, <2>1, <2>2 DEF HoldsGround
  <2> QED BY <1>a, <2>1, <2>2, <2>3
<1>5. CASE LoadLatestEscalation(h)
  <2> DEFINE r == [req[h] EXCEPT !.pc = "ready"]
  <2>1. r.kind = req[h].kind /\ r.tick = req[h].tick /\ r.pc = "ready" /\ r.ticket = req[h].ticket
    BY DEF TypeOK, ReqRow
  <2>2. /\ req' = [req EXCEPT ![h] = r] /\ req[h].pc = "loaded" /\ req[h].kind = "resolve"
        /\ UNCHANGED <<tickets, feedback, escalations, users, userUpdates>>
    BY <1>5 DEF LoadLatestEscalation
  <2>3. WasAssigned(req[h].ticket)
    <3>1. PICK k \in Ticks : k \in EscalationsOf(req[h].ticket) /\ escalations[k].decision = "approved"
      BY <1>5 DEF LoadLatestEscalation, IsLatestEscalation, MayResolve
    <3>2. escalations[k].to # None
      BY <3>1, NoneAssumption DEF EscalationGrounds, MayOwn
    <3> QED BY <3>1, <3>2 DEF WasAssigned
  <2> HIDE DEF r
  <2>4. HoldsGround(r)
    BY <2>1, <2>2, <2>3 DEF HoldsGround
  <2> QED BY <1>a, <2>1, <2>2, <2>4
<1>6. ASSUME NEW k \in Ticks, LoadEscalation(h, k)
      PROVE  GroundsKept
  <2> DEFINE r == [req[h] EXCEPT !.pc = "found", !.esc = k, !.ticket = escalations[k].ticket]
  <2>1. r.kind = req[h].kind /\ r.tick = req[h].tick /\ r.pc = "found"
    BY DEF TypeOK, ReqRow
  <2>2. /\ req' = [req EXCEPT ![h] = r] /\ req[h].pc # "idle"
        /\ UNCHANGED <<tickets, feedback, escalations, users, userUpdates>>
    BY <1>6 DEF LoadEscalation
  <2> HIDE DEF r
  <2>3. HoldsGround(r)
    BY <2>1 DEF HoldsGround
  <2> QED BY <1>a, <2>1, <2>2, <2>3
<1>7. CASE LoadEscalatedTicket(h)
  <2> DEFINE r == [req[h] EXCEPT !.pc = IF req[h].kind = "reject" THEN "ready" ELSE "loaded",
                                 !.seen = tickets[req[h].ticket].dept]
  <2>1. /\ r.kind = req[h].kind /\ r.tick = req[h].tick /\ r.ticket = req[h].ticket
        /\ r.pc = IF req[h].kind = "reject" THEN "ready" ELSE "loaded"
        /\ r.seen = tickets[req[h].ticket].dept
    BY DEF TypeOK, ReqRow
  <2>2. /\ req' = [req EXCEPT ![h] = r] /\ req[h].pc = "found"
        /\ UNCHANGED <<tickets, feedback, escalations, users, userUpdates>>
    BY <1>7 DEF LoadEscalatedTicket
  <2> HIDE DEF r
  <2>3. HoldsGround(r)
    BY <2>1 DEF HoldsGround
  <2> QED BY <1>a, <2>1, <2>2, <2>3
<1>8. ASSUME NEW v \in Users, LoadEngineer(h, v)
      PROVE  GroundsKept
  <2> DEFINE r == [req[h] EXCEPT !.pc = "ready", !.to = v,
                                 !.route = IF req[h].seen = None THEN users[v].dept ELSE None]
  <2>1. /\ r.kind = req[h].kind /\ r.tick = req[h].tick /\ r.ticket = req[h].ticket
        /\ r.pc = "ready" /\ r.seen = req[h].seen /\ r.to = v
        /\ r.route = IF req[h].seen = None THEN users[v].dept ELSE None
    BY DEF TypeOK, ReqRow
  <2>2. /\ req' = [req EXCEPT ![h] = r] /\ req[h].pc = "loaded" /\ req[h].kind = "approve"
        /\ UNCHANGED <<tickets, feedback, escalations, users, userUpdates>>
    BY <1>8 DEF LoadEngineer
  <2> HIDE DEF r
  <2>3. WasRouted(req[h].ticket) =>
           req[h].seen = tickets[req[h].ticket].dept /\ req[h].seen # None
    BY <1>0, <2>2 DEF HoldsGround, TicketGrounds
  <2>4. MayOwn(v, req[h].ticket)
    BY <1>8, <2>3 DEF LoadEngineer, MayTake, MayOwn
  <2>5. HoldsGround(r)
    BY <2>1, <2>2, <2>3, <2>4 DEF HoldsGround
  <2> QED BY <1>a, <2>1, <2>2, <2>5
<1>9. ASSUME NEW a \in ReviewActions, CommitFeedback(h, a)
      PROVE  GroundsKept
  <2> DEFINE t == req[h].ticket
             k == req[h].tick
  <2>1. /\ RequestOpen(h) /\ k \in Ticks /\ t \in Tickets /\ Decided(t) /\ tickets[t].draft
        /\ feedback[k].action = "none" /\ escalations[k].decision = "none"
    BY <1>0, <1>9 DEF CommitFeedback, HoldsGround
  <2>2. /\ req' = [req EXCEPT ![h] = Idle] /\ UNCHANGED <<users, userUpdates>>
        /\ feedback'[k].ticket = t /\ feedback'[k].action = a
        /\ \A j \in Ticks \ {k} : feedback'[j] = feedback[j]
    BY <1>9, <2>1 DEF CommitFeedback, TypeOK
  <2>3. \A j \in Ticks : \/ escalations'[j] = escalations[j]
                         \/ j = k /\ escalations'[j] = NewEscalation(t, "admin")
    BY <1>9, <2>1 DEF CommitFeedback, TypeOK
  <2>4. /\ \A u \in Tickets \ {t} : tickets'[u] = tickets[u]
        /\ tickets'[t].draft = tickets[t].draft /\ tickets'[t].dept = tickets[t].dept
        /\ tickets'[t].status = IF SentBack(a) THEN "escalated" ELSE "reviewed"
    BY <1>9, <2>1 DEF CommitFeedback, AfterReview, TypeOK, TicketRow
  <2> HIDE DEF t, k
  <2>5. Keeps /\ (\A u \in Tickets : WasRouted(u)' => WasRouted(u))
    <3>1. Reviews(t, k)
      BY <2>1, <2>2, <2>3, <2>4 DEF Reviews
    <3> QED BY <3>1, KeepsReview
  <2>6. FeedbackFree' /\ ReadsGrounded'
    BY <2>1, <2>2, <2>5, GroundCommit DEF k
  <2>7. FeedbackGrounds'
    <3>1. feedback'[k].action # "resolve"
      BY <2>2 DEF ReviewActions
    <3> QED BY <2>1, <2>2, <2>5, <3>1, FeedbackGroundsStep
  <2>8. EscalationGrounds'
    BY <2>3, <2>5, EscalationGroundsStep DEF NewEscalation
  <2>9. TicketGrounds'
    <3>1. \A u \in Tickets : WasRouted(u)' => tickets'[u].dept # None
      BY <2>4, <2>5 DEF TicketGrounds
    <3>2. ~ SentBack(a) => feedback'[k].action \in {"accept", "edit", "reject", "resolve"}
      BY <2>2 DEF ReviewActions, SentBack
    <3> QED BY <2>1, <2>2, <2>4, <2>5, <3>1, <3>2, TicketGroundsStep
  <2> QED BY <2>5, <2>6, <2>7, <2>8, <2>9 DEF GroundsKept
<1>10. CASE CommitResolve(h)
  <2> DEFINE t == req[h].ticket
             k == req[h].tick
  <2>1. /\ RequestOpen(h) /\ k \in Ticks /\ t \in Tickets /\ Decided(t) /\ WasAssigned(t)
        /\ feedback[k].action = "none" /\ escalations[k].decision = "none"
    BY <1>0, <1>10 DEF CommitResolve, HoldsGround
  <2>2. /\ req' = [req EXCEPT ![h] = Idle] /\ UNCHANGED <<users, userUpdates, escalations>>
        /\ feedback'[k].ticket = t /\ feedback'[k].action = "resolve"
        /\ \A j \in Ticks \ {k} : feedback'[j] = feedback[j]
    BY <1>10, <2>1 DEF CommitResolve, TypeOK
  <2>3. /\ \A u \in Tickets \ {t} : tickets'[u] = tickets[u]
        /\ tickets'[t].draft = tickets[t].draft /\ tickets'[t].dept = tickets[t].dept
        /\ tickets'[t].status = "reviewed"
    BY <1>10, <2>1 DEF CommitResolve, TypeOK, TicketRow
  <2> HIDE DEF t, k
  <2>4. Keeps /\ (\A u \in Tickets : WasRouted(u)' => WasRouted(u))
    <3>1. Reviews(t, k)
      BY <2>1, <2>2, <2>3 DEF Reviews
    <3> QED BY <3>1, KeepsReview
  <2>5. FeedbackFree' /\ ReadsGrounded'
    BY <2>1, <2>2, <2>4, GroundCommit DEF k
  <2>6. FeedbackGrounds'
    <3>1. "resolve" \notin ReviewActions
      BY DEF ReviewActions
    <3> QED BY <2>1, <2>2, <2>4, <3>1, FeedbackGroundsStep
  <2>7. EscalationGrounds'
    BY <2>2, <2>4, EscalationGroundsStep
  <2>8. TicketGrounds'
    <3>1. \A u \in Tickets : WasRouted(u)' => tickets'[u].dept # None
      BY <2>3, <2>4 DEF TicketGrounds
    <3> QED BY <2>1, <2>2, <2>3, <2>4, <3>1, TicketGroundsStep
  <2> QED BY <2>4, <2>5, <2>6, <2>7, <2>8 DEF GroundsKept
\* An admin's decision of escalation e.
<1>b. req[h].pc = "ready" /\ req[h].kind \in {"approve", "reject"} =>
         /\ req[h].esc \in Ticks /\ escalations[req[h].esc].decision # "none"
         /\ escalations[req[h].esc].ticket = req[h].ticket
         /\ escalations[req[h].esc].tier \in {"senior", "admin"}
  BY DEF ReadsExist, HasRead, DecidesItsOwn, TypeOK, EscalationRow
<1>11. CASE CommitApprove(h)
  <2> DEFINE t == req[h].ticket
             e == req[h].esc
             row == [escalations[e] EXCEPT !.decision = "approved", !.to = req[h].to]
  <2>1. /\ t \in Tickets /\ Decided(t) /\ MayOwn(req[h].to, t)
        /\ WasRouted(t) => req[h].route = None
        /\ e \in Ticks /\ escalations[e].decision # "none" /\ escalations[e].ticket = t
    BY <1>0, <1>b, <1>11 DEF CommitApprove, HoldsGround
  <2>2. /\ row.decision = "approved" /\ row.to = req[h].to
        /\ row.ticket = escalations[e].ticket /\ row.tier = escalations[e].tier
    BY <2>1 DEF TypeOK, EscalationRow
  <2>3. /\ escalations' = [escalations EXCEPT ![e] = row]
        /\ req' = [req EXCEPT ![h] = Idle] /\ UNCHANGED <<feedback, users, userUpdates>>
    BY <1>11 DEF CommitApprove
  <2>4. row.to # None
    BY <2>1, <2>2, NoneAssumption DEF MayOwn
  <2>5. \A u \in Tickets : /\ tickets'[u].draft = tickets[u].draft
                           /\ tickets'[u].status = tickets[u].status
                           /\ tickets'[u].dept = IF u = t /\ req[h].route # None
                                                 THEN req[h].route ELSE tickets[u].dept
    BY <1>11, <2>1 DEF CommitApprove, TypeOK, TicketRow
  <2> HIDE DEF t, e, row
  <2>6. Keeps /\ (\A u \in Tickets : WasRouted(u)' => WasRouted(u))
    <3>1. Decides(e, row)
      BY <2>1, <2>2, <2>3, <2>4, <2>5 DEF Decides
    <3> QED BY <3>1, KeepsDecide
  <2>7. FeedbackFree' /\ ReadsGrounded'
    BY <2>3, <2>6, GroundCommit
  <2>8. FeedbackGrounds'
    BY <2>3, <2>6, FeedbackGroundsStep
  <2>9. EscalationGrounds'
    <3>1. escalations'[e] = row /\ \A j \in Ticks \ {e} : escalations'[j] = escalations[j]
      BY <2>1, <2>3 DEF TypeOK
    <3> QED BY <2>1, <2>2, <2>6, <3>1, EscalationGroundsStep
  <2>10. TicketGrounds'
    <3>1. \A u \in Tickets : WasRouted(u)' => tickets'[u].dept # None
      BY <2>5, <2>6 DEF TicketGrounds
    <3>2. \A u \in Tickets : tickets'[u].status = "drafted" => tickets[u].status = "drafted"
      BY <2>5
    <3> QED BY <2>5, <2>6, <3>1, <3>2, TicketGroundsStep
  <2> QED BY <2>6, <2>7, <2>8, <2>9, <2>10 DEF GroundsKept
<1>12. CASE CommitReject(h)
  <2> DEFINE t == req[h].ticket
             e == req[h].esc
             row == [escalations[e] EXCEPT !.decision = "rejected"]
  <2>1. /\ t \in Tickets /\ Decided(t)
        /\ e \in Ticks /\ escalations[e].decision # "none" /\ escalations[e].ticket = t
    BY <1>0, <1>b, <1>12 DEF CommitReject
  <2>2. /\ row.decision = "rejected" /\ row.to = escalations[e].to
        /\ row.ticket = escalations[e].ticket /\ row.tier = escalations[e].tier
    BY <2>1 DEF TypeOK, EscalationRow
  <2>3. /\ escalations' = [escalations EXCEPT ![e] = row]
        /\ req' = [req EXCEPT ![h] = Idle] /\ UNCHANGED <<feedback, users, userUpdates>>
    BY <1>12 DEF CommitReject
  <2>4. \A u \in Tickets : /\ tickets'[u].draft = tickets[u].draft
                           /\ tickets'[u].dept = tickets[u].dept
                           /\ tickets'[u].status = IF u = t THEN "closed" ELSE tickets[u].status
    BY <1>12, <2>1 DEF CommitReject, AfterReject, TypeOK, TicketRow
  <2> HIDE DEF t, e, row
  <2>5. Keeps /\ (\A u \in Tickets : WasRouted(u)' => WasRouted(u))
    <3>1. Decides(e, row)
      BY <2>1, <2>2, <2>3, <2>4 DEF Decides
    <3> QED BY <3>1, KeepsDecide
  <2>6. FeedbackFree' /\ ReadsGrounded'
    BY <2>3, <2>5, GroundCommit
  <2>7. FeedbackGrounds'
    BY <2>3, <2>5, FeedbackGroundsStep
  <2>8. escalations'[e] = row /\ \A j \in Ticks \ {e} : escalations'[j] = escalations[j]
    BY <2>1, <2>3 DEF TypeOK
  <2>9. EscalationGrounds'
    BY <2>2, <2>5, <2>8, EscalationGroundsStep
  <2>10. TicketGrounds'
    <3>1. \A u \in Tickets : WasRouted(u)' => tickets'[u].dept # None
      BY <2>4, <2>5 DEF TicketGrounds
    <3>2. e \in Ticks /\ escalations'[e].ticket = t /\ escalations'[e].decision = "rejected"
      BY <2>1, <2>2, <2>8
    <3> QED BY <2>4, <2>5, <3>1, <3>2, TicketGroundsStep
  <2> QED BY <2>5, <2>6, <2>7, <2>9, <2>10 DEF GroundsKept
<1> QED BY <1>1, <1>2, <1>3, <1>4, <1>5, <1>6, <1>7, <1>8, <1>9, <1>10, <1>11, <1>12
        DEF RequestStep
LEMMA GroundEnvironment ==
    ASSUME GroundInv,
           \/ \E t \in Tickets : Create(t)
           \/ \E u \in Users : UpdateUser(u)
           \/ Crash
           \/ UNCHANGED vars
    PROVE  GroundsKept
<1> USE DEF GroundInv, OnceInv, ResponsibleInv, TypeInv
<1>1. /\ UNCHANGED <<feedback, escalations>>
      /\ \A h \in Handlers : req'[h] = req[h] \/ req'[h] = Idle
  BY DEF Create, UpdateUser, Crash, vars
<1>2. userUpdates' = 0 => userUpdates = 0 /\ users' = users
  BY DEF Create, UpdateUser, Crash, vars, TypeOK
<1>3. \A t \in Tickets : \/ tickets'[t] = tickets[t]
                         \/ /\ tickets[t].status = "absent" /\ tickets'[t] = NewTicket
  BY DEF Create, UpdateUser, Crash, vars, TypeOK
<1>4. /\ NewTicket.status = "submitted" /\ NewTicket.draft = FALSE
      /\ "absent" \in Undecided
  BY DEF NewTicket, AbsentTicket, Undecided
<1>5. ASSUME NEW t \in Tickets
      PROVE  /\ Decided(t) => tickets'[t] = tickets[t]
             /\ WasRouted(t)' => WasRouted(t) /\ tickets'[t] = tickets[t]
  <2>1. CASE tickets'[t] = tickets[t]
    BY <1>1, <2>1 DEF WasRouted, EscalationsOf
  <2>2. CASE tickets[t].status = "absent" /\ tickets'[t] = NewTicket
    <3>1. ~ Decided(t) /\ EscalationsOf(t) = {}
      BY <1>4, <2>2 DEF Decided, PipelineDecidesOnce
    <3>2. ~ tickets'[t].draft /\ EscalationsOf(t)' = {}
      BY <1>1, <1>4, <2>2, <3>1 DEF EscalationsOf
    <3> QED BY <3>1, <3>2 DEF WasRouted
  <2> QED BY <1>3, <2>1, <2>2
<1>6. Keeps
  BY <1>1, <1>2, <1>5 DEF Keeps
<1>7. FeedbackFree'
  BY <1>1 DEF FeedbackFree, RequestOpen, Idle
<1>8. FeedbackGrounds' /\ EscalationGrounds' /\ ReadsGrounded'
  BY <1>1, <1>6, FeedbackGroundsStep, EscalationGroundsStep, ReadsGroundedFrame
<1>9. TicketGrounds'
  <2>1. \A t \in Tickets : WasRouted(t)' => tickets'[t].dept # None
    BY <1>5 DEF TicketGrounds
  <2>2. \A t \in Tickets : tickets'[t].status \in {"drafted", "reviewed", "closed"} =>
                              tickets'[t].status = tickets[t].status
    BY <1>3, <1>4
  <2> QED BY <1>6, <2>1, <2>2, TicketGroundsStep
<1> QED BY <1>6, <1>7, <1>8, <1>9 DEF GroundsKept

LEMMA GroundInit == Init => GroundInv
<1> SUFFICES ASSUME Init
             PROVE  GroundInv
  OBVIOUS
<1>1. OnceInv
  BY OnceInit
<1>2. \A k \in Ticks : escalations[k].decision = "none" /\ feedback[k].action = "none"
  BY DEF Init, NoEscalation, NoFeedback
<1>3. \A t \in Tickets : tickets[t].status = "absent" /\ tickets[t].draft = FALSE
  BY DEF Init, AbsentTicket
<1>4. \A h \in Handlers : req[h].pc = "idle"
  BY DEF Init, Idle
<1>5. TicketGrounds
  BY <1>2, <1>3 DEF TicketGrounds, WasRouted, EscalationsOf
<1>6. FeedbackFree /\ FeedbackGrounds /\ EscalationGrounds /\ ReadsGrounded
  BY <1>2, <1>4 DEF FeedbackFree, RequestOpen, FeedbackGrounds, EscalationGrounds,
                    ReadsGrounded, HoldsGround, ReviewActions
<1> QED BY <1>1, <1>5, <1>6 DEF GroundInv

LEMMA GroundNext == GroundInv /\ [Next]_vars => GroundInv' /\ Keeps
<1> SUFFICES ASSUME GroundInv, [Next]_vars
             PROVE  GroundInv' /\ Keeps
  OBVIOUS
<1>1. OnceInv'
  BY OnceNext DEF GroundInv
<1>2. GroundsKept
  BY GroundRunStep, GroundRequestStep, GroundEnvironment DEF Next, GroundsKept
<1> QED BY <1>1, <1>2 DEF GroundInv, GroundsKept

----------------------------------------------------------------------------

\* However requests, tasks, failures and restarts interleave: who reviewed or closed a ticket
\* is on record, nobody reviewed a draft that was withheld or resolved an escalation that was
\* assigned to nobody, and an approved escalation names an engineer - of the ticket's
\* department, if the pipeline routed the ticket and no account was edited.
THEOREM EveryDecisionHasItsGround == Spec => []DecisionsAreJustified
<1>1. GroundInv => DecisionsAreJustified
  BY DEF GroundInv, TicketGrounds, FeedbackGrounds, EscalationGrounds, MayOwn, WasAssigned,
         DecisionsAreJustified
<1> QED BY GroundInit, GroundNext, <1>1, PTL DEF Spec

\* The record of reviews is append-only: no request, task, failure or restart changes or
\* removes a row of feedback, although handlers overwrite each other's tickets.
THEOREM FeedbackIsAppendOnly ==
    Spec => [][\A k \in Ticks : feedback[k].action # "none" => feedback'[k] = feedback[k]]_vars
<1>1. GroundInv /\ [Next]_vars =>
         [\A k \in Ticks : feedback[k].action # "none" => feedback'[k] = feedback[k]]_vars
  BY GroundNext DEF Keeps
<1> QED BY GroundInit, GroundNext, <1>1, PTL DEF Spec

----------------------------------------------------------------------------
(* One request at a time *)

(***************************************************************************)
(* The properties TicketDesk has when the server serves one request at a   *)
(* time, for any number of tickets, accounts, requests and restarts.  The  *)
(* pipeline's tasks, account updates and restarts still happen between any *)
(* two steps of the request.                                               *)
(*                                                                         *)
(* With one request in flight every check still holds at its commit: only  *)
(* the request's own steps change a decided ticket, an escalation that is  *)
(* on record, or feedback.  The rows then say of every ticket where it is: *)
(* it has at most one escalation, one review and one answer, an escalation *)
(* waits for the admin only while the ticket is escalated, and a ticket    *)
(* that is drafted has none of them yet.                                   *)
(***************************************************************************)
Serial == \A h, g \in Handlers : h = g

EscRow(k, t) == escalations[k].decision # "none" /\ escalations[k].ticket = t

FbRow(k, t) == feedback[k].action # "none" /\ feedback[k].ticket = t

Answers == {"accept", "edit", "resolve"}

Early == Undecided \cup {"drafted"}

RowsMatchOf(t) ==
    /\ tickets[t].status \in Early => \A k \in Ticks : ~ EscRow(k, t) /\ ~ FbRow(k, t)
    /\ tickets[t].status = "escalated" =>
          \A k \in Ticks : FbRow(k, t) => SentBack(feedback[k].action)
    /\ \A k \in Ticks :
          EscRow(k, t) /\ escalations[k].decision = "pending" => tickets[t].status = "escalated"
    /\ \A j, k \in Ticks : EscRow(j, t) /\ EscRow(k, t) => j = k
    /\ \A j, k \in Ticks :
          /\ FbRow(j, t) /\ feedback[j].action \in ReviewActions
          /\ FbRow(k, t) /\ feedback[k].action \in ReviewActions
          => j = k
    /\ \A j, k \in Ticks :
          /\ FbRow(j, t) /\ feedback[j].action \in Answers
          /\ FbRow(k, t) /\ feedback[k].action \in Answers
          => j = k

RowsMatch == \A t \in Tickets : RowsMatchOf(t)

\* The escalation that lets a request resolve its ticket.
Entitled(r) ==
    \E k \in Ticks :
        /\ EscRow(k, r.ticket) /\ escalations[k].decision = "approved"
        /\ r.role = "admin" \/ escalations[k].to = r.user

\* What a request has checked is still so.
IsCurrent(r) ==
    /\ r.pc = "found" => r.kind \in {"approve", "reject"}
    /\ r.pc = "ready" /\ r.kind = "feedback" => tickets[r.ticket].status = "drafted"
    /\ r.pc \in {"opened", "loaded", "ready"} /\ r.kind = "resolve" =>
          tickets[r.ticket].status = "escalated"
    /\ r.pc = "ready" /\ r.kind = "resolve" => Entitled(r)
    /\ r.pc \in {"found", "loaded", "ready"} /\ r.kind \in {"approve", "reject"} =>
          escalations[r.esc].decision = "pending"
    /\ r.pc \in {"loaded", "ready"} /\ r.kind \in {"approve", "reject"} =>
          /\ tickets[r.ticket].status = "escalated"
          /\ r.seen = tickets[r.ticket].dept

SerialInv == GroundInv /\ RowsMatch /\ \A h \in Handlers : IsCurrent(req[h])

----------------------------------------------------------------------------
(* Steps of tasks and of the environment *)

\* A step that is no commit of a request.
Outside ==
    /\ UNCHANGED feedback
    /\ \A k \in Ticks : escalations[k].decision # "none" => escalations'[k] = escalations[k]
    /\ \A t \in Tickets : Decided(t) => tickets'[t] = tickets[t]
    /\ \A h \in Handlers : req'[h] = req[h] \/ req'[h] = Idle

LEMMA CurrentOutside ==
    ASSUME SerialInv, Outside, NEW h \in Handlers
    PROVE  IsCurrent(req[h])'
<1>1. CASE req'[h] = Idle
  BY <1>1 DEF IsCurrent, Idle
<1>2. CASE req'[h] = req[h] /\ req[h].pc \notin {"found", "opened", "loaded", "ready"}
  BY <1>2 DEF IsCurrent
<1>3. CASE req'[h] = req[h] /\ req[h].pc \in {"found", "opened", "loaded", "ready"}
  <2>1. /\ req[h].ticket \in Tickets /\ Decided(req[h].ticket)
        /\ req[h].kind \in {"approve", "reject"} =>
              req[h].esc \in Ticks /\ escalations[req[h].esc].decision # "none"
    BY <1>3 DEF SerialInv, GroundInv, OnceInv, ResponsibleInv, TypeInv, ReadsExist, HasRead,
                ReadsDecided, HoldsDecided
  <2>2. /\ tickets'[req[h].ticket] = tickets[req[h].ticket]
        /\ req[h].kind \in {"approve", "reject"} =>
              escalations'[req[h].esc] = escalations[req[h].esc]
    BY <2>1 DEF Outside
  <2>3. \A k \in Ticks : EscRow(k, req[h].ticket) => escalations'[k] = escalations[k]
    BY DEF Outside, EscRow
  <2>4. IsCurrent(req[h])
    BY DEF SerialInv
  <2> QED BY <1>3, <2>2, <2>3, <2>4 DEF IsCurrent, Entitled, EscRow
<1>4. req'[h] = req[h] \/ req'[h] = Idle
  BY DEF Outside
<1> QED BY <1>1, <1>2, <1>3, <1>4

\* Rows of ticket u and its status stay.
SameFor(u) ==
    /\ tickets'[u].status = tickets[u].status \/ {tickets[u].status, tickets'[u].status} \subseteq Early
    /\ \A k \in Ticks :
          /\ (EscRow(k, u))' => EscRow(k, u) /\ escalations'[k].decision = escalations[k].decision
          /\ (FbRow(k, u))' => FbRow(k, u) /\ feedback'[k].action = feedback[k].action

LEMMA MatchStays ==
    ASSUME SerialInv, NEW u \in Tickets, SameFor(u)
    PROVE  RowsMatchOf(u)'
<1>1. RowsMatchOf(u)
  BY DEF SerialInv, RowsMatch
<1>2. /\ tickets'[u].status \in Early => tickets[u].status \in Early
      /\ tickets'[u].status = "escalated" => tickets[u].status = "escalated"
      /\ tickets[u].status = "escalated" => tickets'[u].status = "escalated"
  BY DEF SameFor, Early, Undecided, Lifecycle!Unfinished
<1> QED BY <1>1, <1>2 DEF SameFor, RowsMatchOf, EscRow, FbRow

LEMMA SerialRunStep ==
    ASSUME SerialInv, NEW t \in Tickets, RunStep(t)
    PROVE  Outside /\ RowsMatch'
<1> USE DEF SerialInv, GroundInv, OnceInv, ResponsibleInv, TypeInv
<1>1. /\ UNCHANGED <<feedback, req>>
      /\ \A u \in Tickets \ {t} : tickets'[u] = tickets[u]
  BY TaskWrites
<1>2. CASE UNCHANGED <<tickets, escalations>>
  <2>1. Outside
    BY <1>1, <1>2 DEF Outside
  <2>2. \A u \in Tickets : SameFor(u)
    BY <1>1, <1>2 DEF SameFor, EscRow, FbRow
  <2> QED BY <2>1, <2>2, MatchStays DEF RowsMatch
<1>3. TaskOpen(t) => /\ tickets[t].status = "submitted" /\ ~ Decided(t)
                     /\ run[t].tick \in Ticks /\ escalations[run[t].tick].decision = "none"
  BY DEF TaskOpen, RunsPending, Decided, Undecided, Lifecycle!Unfinished, TicksAreOwned, IsFree
<1>4. CASE TaskOpen(t) /\ tickets'[t].status = "drafted" /\ UNCHANGED escalations
  <2>1. Outside
    BY <1>1, <1>3, <1>4 DEF Outside
  <2>2. \A u \in Tickets : SameFor(u)
    BY <1>1, <1>3, <1>4 DEF SameFor, EscRow, FbRow, Early, Undecided, Lifecycle!Unfinished
  <2> QED BY <2>1, <2>2, MatchStays DEF RowsMatch
<1>5. ASSUME TaskOpen(t), tickets'[t].status = "escalated", NEW tier,
             escalations' = [escalations EXCEPT ![run[t].tick] = NewEscalation(t, tier)]
      PROVE  Outside /\ RowsMatch'
  <2> DEFINE k == run[t].tick
  <2>1. /\ \A j \in Ticks \ {k} : escalations'[j] = escalations[j]
        /\ k \in Ticks /\ escalations[k].decision = "none"
        /\ escalations'[k].ticket = t /\ escalations'[k].decision = "pending"
    BY <1>3, <1>5 DEF NewEscalation, TypeOK
  <2> HIDE DEF k
  <2>2. Outside
    BY <1>1, <1>3, <1>5, <2>1 DEF Outside
  <2>3. \A u \in Tickets \ {t} : SameFor(u)
    BY <1>1, <2>1 DEF SameFor, EscRow, FbRow
  <2>4. \A j \in Ticks : ~ EscRow(j, t) /\ ~ FbRow(j, t)
    BY <1>3, <1>5 DEF RowsMatch, RowsMatchOf, Early, Undecided, Lifecycle!Unfinished
  <2>5. \A j \in Ticks : /\ (EscRow(j, t))' => j = k
                         /\ ~ (FbRow(j, t))'
    BY <1>1, <2>1, <2>4 DEF EscRow, FbRow
  <2>6. "escalated" \notin Early
    BY DEF Early, Undecided, Lifecycle!Unfinished
  <2>7. RowsMatchOf(t)'
    BY <1>5, <2>5, <2>6 DEF RowsMatchOf
  <2> QED BY <2>2, <2>3, <2>7, MatchStays DEF RowsMatch
<1> QED BY <1>2, <1>4, <1>5, TaskWrites

LEMMA SerialEnvironment ==
    ASSUME SerialInv,
           \/ \E t \in Tickets : Create(t)
           \/ \E u \in Users : UpdateUser(u)
           \/ Crash
           \/ UNCHANGED vars
    PROVE  Outside /\ RowsMatch'
<1> USE DEF SerialInv, GroundInv, OnceInv, ResponsibleInv, TypeInv
<1>1. /\ UNCHANGED <<feedback, escalations>>
      /\ \A h \in Handlers : req'[h] = req[h] \/ req'[h] = Idle
  BY DEF Create, UpdateUser, Crash, vars
<1>2. \A t \in Tickets : \/ tickets'[t] = tickets[t]
                         \/ tickets[t].status = "absent" /\ tickets'[t].status = "submitted"
  BY DEF Create, NewTicket, AbsentTicket, UpdateUser, Crash, vars, TypeOK
<1>3. {"absent", "submitted"} \subseteq Early /\ "absent" \in Undecided
  BY DEF Early, Undecided, Lifecycle!Unfinished
<1>4. Outside
  BY <1>1, <1>2, <1>3 DEF Outside, Decided
<1>5. \A u \in Tickets : SameFor(u)
  BY <1>1, <1>2, <1>3 DEF SameFor, EscRow, FbRow
<1> QED BY <1>4, <1>5, MatchStays DEF RowsMatch

----------------------------------------------------------------------------
(* Steps of a request *)

\* Besides the invariant: a decided escalation stays as decided.
Final ==
    \A k \in Ticks :
        escalations[k].decision \in {"approved", "rejected"} => escalations'[k] = escalations[k]

\* One ticket at most changes its status, along an arrow of the lifecycle.
Arrow(t) ==
    \/ tickets[t].status = "absent" /\ tickets'[t].status = "submitted"
    \/ tickets'[t].status \in Lifecycle!OneTransaction(tickets[t].status)

OneMove ==
    \/ \A t \in Tickets : tickets'[t].status = tickets[t].status
    \/ \E t \in Tickets :
          /\ Arrow(t)
          /\ \A u \in Tickets \ {t} : tickets'[u].status = tickets[u].status

\* Once its escalation is decided, a ticket keeps its department.
DeptStays ==
    \A t \in Tickets, k \in Ticks :
        EscRow(k, t) /\ escalations[k].decision # "pending" => tickets'[t].dept = tickets[t].dept

SerialKept ==
    RowsMatch' /\ (\A h \in Handlers : IsCurrent(req[h])') /\ Final /\ OneMove /\ DeptStays

LEMMA OutsideKept ==
    ASSUME SerialInv, Outside
    PROVE  Final /\ DeptStays
<1>1. Final
  BY DEF Outside, Final
<1>2. \A t \in Tickets, k \in Ticks : EscRow(k, t) => Decided(t)
  BY RowsDecided DEF SerialInv, EscRow
<1> QED BY <1>1, <1>2 DEF Outside, DeptStays

LEMMA Arrows ==
    /\ {"drafted", "escalated"} \subseteq Lifecycle!OneTransaction("submitted")
    /\ {"reviewed", "escalated"} \subseteq Lifecycle!OneTransaction("drafted")
    /\ {"reviewed", "closed"} \subseteq Lifecycle!OneTransaction("escalated")
    /\ Lifecycle!OneTransaction("closed") = {}
BY DEF Lifecycle!OneTransaction, Lifecycle!CanTransition, Lifecycle!NextStatuses,
       Lifecycle!Statuses, Lifecycle!Unfinished

LEMMA SerialTask ==
    ASSUME SerialInv, NEW t \in Tickets, RunStep(t)
    PROVE  SerialKept
<1> USE DEF SerialInv, GroundInv
<1>1. Outside /\ RowsMatch'
  BY SerialRunStep
<1>2. Final /\ DeptStays
  BY <1>1, OutsideKept
<1>3. OneMove
  <2>1. NewTicket.status = "submitted"
    BY DEF NewTicket, AbsentTicket
  <2> QED BY <2>1, TaskWrites, Arrows DEF OneMove, Arrow
<1> QED BY <1>1, <1>2, <1>3, CurrentOutside DEF SerialKept

LEMMA SerialFromOutside ==
    ASSUME SerialInv,
           \/ \E t \in Tickets : Create(t)
           \/ \E u \in Users : UpdateUser(u)
           \/ Crash
           \/ UNCHANGED vars
    PROVE  SerialKept
<1> USE DEF SerialInv, GroundInv, OnceInv, ResponsibleInv, TypeInv
<1>1. Outside /\ RowsMatch'
  BY SerialEnvironment
<1>2. Final /\ DeptStays
  BY <1>1, OutsideKept
<1>3. ASSUME NEW t \in Tickets, Create(t)
      PROVE  OneMove
  <2>1. /\ tickets[t].status = "absent" /\ tickets'[t].status = "submitted"
        /\ \A u \in Tickets \ {t} : tickets'[u] = tickets[u]
    BY <1>3 DEF Create, NewTicket, AbsentTicket, TypeOK
  <2> QED BY <2>1 DEF OneMove, Arrow
<1>4. UNCHANGED tickets => OneMove
  BY DEF OneMove
<1>5. (\E u \in Users : UpdateUser(u)) \/ Crash \/ UNCHANGED vars => UNCHANGED tickets
  BY DEF UpdateUser, Crash, vars
<1> QED BY <1>1, <1>2, <1>3, <1>4, <1>5, CurrentOutside DEF SerialKept

\* A step of request h that writes no row.
LEMMA SerialRead ==
    ASSUME Serial, SerialInv, NEW h \in Handlers, NEW r, IsCurrent(r),
           req' = [req EXCEPT ![h] = r], UNCHANGED <<tickets, feedback, escalations>>
    PROVE  SerialKept
<1> USE DEF SerialInv, GroundInv, OnceInv, ResponsibleInv, TypeInv
<1>1. \A g \in Handlers : req'[g] = r
  BY DEF Serial, TypeOK
<1>2. \A g \in Handlers : IsCurrent(req[g])'
  BY <1>1 DEF IsCurrent, Entitled, EscRow
<1>3. RowsMatch'
  BY DEF RowsMatch, RowsMatchOf, EscRow, FbRow
<1>4. Final /\ OneMove /\ DeptStays
  BY DEF Final, OneMove, DeptStays
<1> QED BY <1>2, <1>3, <1>4 DEF SerialKept

\* A commit of request h writes ticket t and no row of another ticket.
LEMMA SerialCommit ==
    ASSUME Serial, SerialInv, NEW h \in Handlers, NEW t \in Tickets,
           req' = [req EXCEPT ![h] = Idle],
           \A u \in Tickets \ {t} : SameFor(u) /\ tickets'[u].status = tickets[u].status,
           RowsMatchOf(t)', Final, DeptStays, Arrow(t) \/ tickets'[t].status = tickets[t].status
    PROVE  SerialKept
<1>1. \A g \in Handlers : req'[g] = Idle
  BY DEF Serial, SerialInv, GroundInv, OnceInv, ResponsibleInv, TypeInv, TypeOK
<1>2. \A g \in Handlers : IsCurrent(req[g])'
  BY <1>1 DEF IsCurrent, Idle
<1>3. RowsMatch'
  BY MatchStays DEF RowsMatch
<1>4. OneMove
  BY DEF OneMove
<1> QED BY <1>2, <1>3, <1>4 DEF SerialKept

\* What the steps of request h start from.
LEMMA SerialReads ==
    ASSUME SerialInv, NEW h \in Handlers
    PROVE  /\ req[h].pc # "idle" /\ req[h].kind \in {"feedback", "resolve"} =>
                 /\ req[h].tick \in Ticks
                 /\ feedback[req[h].tick].action = "none"
                 /\ escalations[req[h].tick].decision = "none"
           /\ req[h].pc \in {"found", "opened", "loaded", "ready"} => req[h].ticket \in Tickets
           /\ req[h].pc = "ready" /\ req[h].kind \in {"approve", "reject"} =>
                 /\ req[h].esc \in Ticks
                 /\ EscRow(req[h].esc, req[h].ticket)
           /\ IsCurrent(req[h])
BY DEF SerialInv, GroundInv, OnceInv, ResponsibleInv, TypeInv, RequestOpen, FeedbackFree,
       TicksAreOwned, IsFree, ReadsExist, HasRead, DecidesItsOwn, EscRow

LEMMA SerialFeedback ==
    ASSUME Serial, SerialInv, NEW h \in Handlers, NEW a \in ReviewActions, CommitFeedback(h, a)
    PROVE  SerialKept
<1> USE DEF SerialInv, GroundInv, OnceInv, ResponsibleInv, TypeInv
<1>0. PICK t \in Tickets, k \in Ticks : t = req[h].ticket /\ k = req[h].tick
  BY SerialReads DEF CommitFeedback
<1>1. /\ tickets[t].status = "drafted"
      /\ feedback[k].action = "none" /\ escalations[k].decision = "none"
  BY <1>0, SerialReads DEF CommitFeedback, IsCurrent
<1>2. /\ req' = [req EXCEPT ![h] = Idle]
      /\ feedback'[k].ticket = t /\ feedback'[k].action = a
      /\ \A j \in Ticks \ {k} : feedback'[j] = feedback[j] /\ escalations'[j] = escalations[j]
      /\ SentBack(a) => escalations'[k].ticket = t /\ escalations'[k].decision = "pending"
      /\ ~ SentBack(a) => escalations'[k] = escalations[k]
  BY <1>0, <1>1 DEF CommitFeedback, TypeOK, NewEscalation
<1>3. /\ \A u \in Tickets \ {t} : tickets'[u] = tickets[u]
      /\ tickets'[t].status = IF SentBack(a) THEN "escalated" ELSE "reviewed"
      /\ tickets'[t].dept = tickets[t].dept
  BY <1>0, <1>1 DEF CommitFeedback, AfterReview, TypeOK, TicketRow
<1>4. \A u \in Tickets \ {t} : SameFor(u)
  BY <1>1, <1>2, <1>3 DEF SameFor, EscRow, FbRow
<1>5. \A j \in Ticks : ~ EscRow(j, t) /\ ~ FbRow(j, t)
  BY <1>1 DEF RowsMatch, RowsMatchOf, Early
<1>6. \A j \in Ticks : /\ EscRow(j, t)' => j = k /\ SentBack(a)
                       /\ FbRow(j, t)' => j = k
  BY <1>1, <1>2, <1>5 DEF EscRow, FbRow
<1>7. RowsMatchOf(t)'
  BY <1>2, <1>3, <1>6 DEF RowsMatchOf, Early, Undecided, Lifecycle!Unfinished
<1>8. Final /\ DeptStays
  BY <1>1, <1>2, <1>3 DEF Final, DeptStays
<1>9. Arrow(t)
  BY <1>1, <1>3, Arrows DEF Arrow
<1> QED BY <1>1, <1>2, <1>3, <1>4, <1>7, <1>8, <1>9, SerialCommit

LEMMA SerialResolve ==
    ASSUME Serial, SerialInv, NEW h \in Handlers, CommitResolve(h)
    PROVE  SerialKept
<1> USE DEF SerialInv, GroundInv, OnceInv, ResponsibleInv, TypeInv
<1>0. PICK t \in Tickets, k \in Ticks : t = req[h].ticket /\ k = req[h].tick
  BY SerialReads DEF CommitResolve
<1>1. /\ tickets[t].status = "escalated"
      /\ feedback[k].action = "none"
      /\ \E j \in Ticks : EscRow(j, t) /\ escalations[j].decision = "approved"
  BY <1>0, SerialReads DEF CommitResolve, IsCurrent, Entitled
<1>2. /\ req' = [req EXCEPT ![h] = Idle] /\ UNCHANGED escalations
      /\ feedback'[k].ticket = t /\ feedback'[k].action = "resolve"
      /\ \A j \in Ticks \ {k} : feedback'[j] = feedback[j]
  BY <1>0, <1>1 DEF CommitResolve, TypeOK
<1>3. /\ \A u \in Tickets \ {t} : tickets'[u] = tickets[u]
      /\ tickets'[t].status = "reviewed"
      /\ tickets'[t].dept = tickets[t].dept
  BY <1>0, <1>1 DEF CommitResolve, TypeOK, TicketRow
<1>4. \A u \in Tickets \ {t} : SameFor(u)
  BY <1>1, <1>2, <1>3 DEF SameFor, EscRow, FbRow
<1>5. /\ \A j \in Ticks : EscRow(j, t) => escalations[j].decision = "approved"
      /\ \A j \in Ticks : FbRow(j, t) => feedback[j].action \notin Answers
  BY <1>1 DEF RowsMatch, RowsMatchOf, SentBack, Answers
<1>6. "resolve" \notin ReviewActions /\ {"reviewed"} \cap (Early \cup {"escalated"}) = {}
  BY DEF ReviewActions, Early, Undecided, Lifecycle!Unfinished
<1>7. RowsMatchOf(t)'
  <2>1. RowsMatchOf(t)
    BY <1>1 DEF RowsMatch
  <2>2. \A j \in Ticks : /\ EscRow(j, t)' <=> EscRow(j, t)
                         /\ j # k => (FbRow(j, t)' <=> FbRow(j, t))
                         /\ j # k => feedback'[j] = feedback[j]
    BY <1>2 DEF EscRow, FbRow
  <2> QED BY <1>2, <1>3, <1>5, <1>6, <2>1, <2>2 DEF RowsMatchOf
<1>8. Final /\ DeptStays
  BY <1>2, <1>3 DEF Final, DeptStays
<1>9. Arrow(t)
  BY <1>1, <1>3, Arrows DEF Arrow
<1> QED BY <1>1, <1>2, <1>3, <1>4, <1>7, <1>8, <1>9, SerialCommit

\* Escalation e of ticket t is decided.
LEMMA SerialDecide ==
    ASSUME Serial, SerialInv, NEW h \in Handlers, CommitApprove(h) \/ CommitReject(h)
    PROVE  SerialKept
<1> USE DEF SerialInv, GroundInv, OnceInv, ResponsibleInv, TypeInv
<1>0. PICK t \in Tickets, e \in Ticks : t = req[h].ticket /\ e = req[h].esc
  BY SerialReads DEF CommitApprove, CommitReject
<1>1. /\ tickets[t].status = "escalated"
      /\ EscRow(e, t) /\ escalations[e].decision = "pending"
  BY <1>0, SerialReads DEF CommitApprove, CommitReject, IsCurrent
<1>2. /\ req' = [req EXCEPT ![h] = Idle] /\ UNCHANGED feedback
      /\ escalations'[e].ticket = escalations[e].ticket
      /\ escalations'[e].decision \in {"approved", "rejected"}
      /\ \A j \in Ticks \ {e} : escalations'[j] = escalations[j]
  <2> DEFINE approved == [escalations[e] EXCEPT !.decision = "approved", !.to = req[h].to]
             rejected == [escalations[e] EXCEPT !.decision = "rejected"]
  <2>1. /\ approved.ticket = escalations[e].ticket /\ approved.decision = "approved"
        /\ rejected.ticket = escalations[e].ticket /\ rejected.decision = "rejected"
    BY DEF TypeOK, EscalationRow
  <2>2. /\ req' = [req EXCEPT ![h] = Idle] /\ UNCHANGED feedback
        /\ \/ escalations' = [escalations EXCEPT ![e] = approved]
           \/ escalations' = [escalations EXCEPT ![e] = rejected]
    BY <1>0 DEF CommitApprove, CommitReject
  <2> HIDE DEF approved, rejected
  <2> QED BY <2>1, <2>2 DEF TypeOK
<1>3. /\ \A u \in Tickets \ {t} : tickets'[u] = tickets[u]
      /\ tickets'[t].status \in {"escalated", "closed"}
  BY <1>0, <1>1 DEF CommitApprove, CommitReject, AfterReject, TypeOK, TicketRow
<1>4. \A u \in Tickets \ {t} : SameFor(u)
  BY <1>1, <1>2, <1>3 DEF SameFor, EscRow, FbRow
<1>5. RowsMatchOf(t)'
  <2>1. RowsMatchOf(t)
    BY <1>1 DEF RowsMatch
  <2>2. \A j \in Ticks : /\ EscRow(j, t)' <=> EscRow(j, t)
                         /\ FbRow(j, t)' <=> FbRow(j, t)
    BY <1>1, <1>2 DEF EscRow, FbRow
  <2>3. \A j \in Ticks : EscRow(j, t) => j = e
    BY <1>1, <2>1 DEF RowsMatchOf
  <2>4. tickets'[t].status \notin Early
    BY <1>3 DEF Early, Undecided, Lifecycle!Unfinished
  <2> QED BY <1>1, <1>2, <1>3, <2>1, <2>2, <2>3, <2>4 DEF RowsMatchOf
<1>6. Final /\ DeptStays
  <2>1. \A k \in Ticks : EscRow(k, t) => k = e
    BY <1>1 DEF RowsMatch, RowsMatchOf
  <2> QED BY <1>1, <1>2, <1>3, <2>1 DEF Final, DeptStays
<1>7. Arrow(t) \/ tickets'[t].status = tickets[t].status
  BY <1>1, <1>3, Arrows DEF Arrow
<1> QED BY <1>1, <1>2, <1>3, <1>4, <1>5, <1>6, <1>7, SerialCommit

\* What a request checks, at the read that checks it.
LEMMA SerialRequestStep ==
    ASSUME Serial, SerialInv, NEW h \in Handlers, RequestStep(h)
    PROVE  SerialKept
<1> USE DEF SerialInv, GroundInv, OnceInv, ResponsibleInv, TypeInv
<1>1. ASSUME NEW u \in Users, NEW kind \in Kinds, Authenticate(h, u, kind)
      PROVE  SerialKept
  <2> DEFINE r == [Idle EXCEPT !.pc = "auth", !.kind = kind, !.user = u,
                               !.role = users[u].role, !.dept = users[u].dept,
                               !.tick = IF kind \in {"feedback", "resolve"} THEN clock + 1 ELSE 0]
  <2>1. IsCurrent(r)
    BY DEF IsCurrent, Idle
  <2>2. req' = [req EXCEPT ![h] = r] /\ UNCHANGED <<tickets, feedback, escalations>>
    BY <1>1 DEF Authenticate
  <2> HIDE DEF r
  <2> QED BY <2>1, <2>2, SerialRead
<1>2. CASE Abort(h)
  <2>1. IsCurrent(Idle)
    BY DEF IsCurrent, Idle
  <2> QED BY <1>2, <2>1, SerialRead DEF Abort
<1>3. ASSUME NEW t \in Tickets, LoadTicket(h, t)
      PROVE  SerialKept
  <2> DEFINE r == [req[h] EXCEPT !.pc = IF req[h].kind = "feedback" THEN "ready" ELSE "opened",
                                 !.ticket = t]
  <2>1. /\ r.kind = req[h].kind /\ r.ticket = t
        /\ r.pc = IF req[h].kind = "feedback" THEN "ready" ELSE "opened"
    BY DEF TypeOK, ReqRow
  <2>2. /\ req' = [req EXCEPT ![h] = r] /\ UNCHANGED <<tickets, feedback, escalations>>
        /\ req[h].kind \in {"feedback", "resolve"}
        /\ StatusAllows(req[h].kind, tickets[t].status)
    BY <1>3 DEF LoadTicket
  <2> HIDE DEF r
  <2>3. IsCurrent(r)
    BY <2>1, <2>2 DEF IsCurrent, StatusAllows
  <2> QED BY <2>2, <2>3, SerialRead
<1>4. CASE LoadAssignment(h)
  <2> DEFINE r == [req[h] EXCEPT !.pc = "loaded"]
  <2>1. r.kind = req[h].kind /\ r.pc = "loaded" /\ r.ticket = req[h].ticket
    BY DEF TypeOK, ReqRow
  <2>2. /\ req' = [req EXCEPT ![h] = r] /\ UNCHANGED <<tickets, feedback, escalations>>
        /\ req[h].pc = "opened" /\ req[h].kind = "resolve"
    BY <1>4 DEF LoadAssignment, ReadsGrounded, HoldsGround
  <2> HIDE DEF r
  <2>3. IsCurrent(r)
    BY <2>1, <2>2, SerialReads DEF IsCurrent
  <2> QED BY <2>2, <2>3, SerialRead
<1>5. ASSUME NEW a \in ReviewActions, CommitFeedback(h, a)
      PROVE  SerialKept
  BY <1>5, SerialFeedback
<1>6. CASE LoadLatestEscalation(h)
  <2> DEFINE r == [req[h] EXCEPT !.pc = "ready"]
  <2>1. /\ r.kind = req[h].kind /\ r.pc = "ready" /\ r.ticket = req[h].ticket
        /\ r.role = req[h].role /\ r.user = req[h].user
    BY DEF TypeOK, ReqRow
  <2>2. /\ req' = [req EXCEPT ![h] = r] /\ UNCHANGED <<tickets, feedback, escalations>>
        /\ req[h].pc = "loaded" /\ req[h].kind = "resolve"
    BY <1>6 DEF LoadLatestEscalation
  <2> HIDE DEF r
  <2>3. Entitled(r)
    BY <1>6, <2>1 DEF LoadLatestEscalation, IsLatestEscalation, EscalationsOf, MayResolve,
                      Entitled, EscRow
  <2>4. IsCurrent(r)
    BY <2>1, <2>2, <2>3, SerialReads DEF IsCurrent
  <2> QED BY <2>2, <2>4, SerialRead
<1>7. CASE CommitResolve(h)
  BY <1>7, SerialResolve
<1>8. ASSUME NEW k \in Ticks, LoadEscalation(h, k)
      PROVE  SerialKept
  <2> DEFINE r == [req[h] EXCEPT !.pc = "found", !.esc = k, !.ticket = escalations[k].ticket]
  <2>1. r.kind = req[h].kind /\ r.pc = "found" /\ r.esc = k
    BY DEF TypeOK, ReqRow
  <2>2. /\ req' = [req EXCEPT ![h] = r] /\ UNCHANGED <<tickets, feedback, escalations>>
        /\ escalations[k].decision = "pending" /\ req[h].kind \in {"approve", "reject"}
    BY <1>8 DEF LoadEscalation, IsPending
  <2> HIDE DEF r
  <2>3. IsCurrent(r)
    BY <2>1, <2>2 DEF IsCurrent
  <2> QED BY <2>2, <2>3, SerialRead
<1>9. CASE LoadEscalatedTicket(h)
  <2> DEFINE r == [req[h] EXCEPT !.pc = IF req[h].kind = "reject" THEN "ready" ELSE "loaded",
                                 !.seen = tickets[req[h].ticket].dept]
  <2>1. /\ r.kind = req[h].kind /\ r.ticket = req[h].ticket /\ r.esc = req[h].esc
        /\ r.pc \in {"loaded", "ready"} /\ r.seen = tickets[req[h].ticket].dept
    BY DEF TypeOK, ReqRow
  <2>2. /\ req' = [req EXCEPT ![h] = r] /\ UNCHANGED <<tickets, feedback, escalations>>
        /\ req[h].pc = "found" /\ tickets[req[h].ticket].status = "escalated"
    BY <1>9 DEF LoadEscalatedTicket
  <2> HIDE DEF r
  <2>3. req[h].kind \in {"approve", "reject"}
    BY <2>2, SerialReads DEF IsCurrent
  <2>4. IsCurrent(r)
    BY <2>1, <2>2, <2>3, SerialReads DEF IsCurrent
  <2> QED BY <2>2, <2>4, SerialRead
<1>10. ASSUME NEW v \in Users, LoadEngineer(h, v)
       PROVE  SerialKept
  <2> DEFINE r == [req[h] EXCEPT !.pc = "ready", !.to = v,
                                 !.route = IF req[h].seen = None THEN users[v].dept ELSE None]
  <2>1. /\ r.kind = req[h].kind /\ r.ticket = req[h].ticket /\ r.esc = req[h].esc
        /\ r.pc = "ready" /\ r.seen = req[h].seen
    BY DEF TypeOK, ReqRow
  <2>2. /\ req' = [req EXCEPT ![h] = r] /\ UNCHANGED <<tickets, feedback, escalations>>
        /\ req[h].pc = "loaded" /\ req[h].kind = "approve"
    BY <1>10 DEF LoadEngineer
  <2> HIDE DEF r
  <2>3. IsCurrent(r)
    BY <2>1, <2>2, SerialReads DEF IsCurrent
  <2> QED BY <2>2, <2>3, SerialRead
<1>11. CASE CommitApprove(h) \/ CommitReject(h)
  BY <1>11, SerialDecide
<1> QED BY <1>1, <1>2, <1>3, <1>4, <1>5, <1>6, <1>7, <1>8, <1>9, <1>10, <1>11 DEF RequestStep

LEMMA SerialInit == Init => SerialInv
<1> SUFFICES ASSUME Init
             PROVE  SerialInv
  OBVIOUS
<1>1. \A h \in Handlers : req[h].pc = "idle"
  BY DEF Init, Idle
<1>2. \A t \in Tickets : tickets[t].status = "absent"
  BY DEF Init, AbsentTicket
<1>3. \A k \in Ticks, t \in Tickets : ~ EscRow(k, t) /\ ~ FbRow(k, t)
  BY DEF Init, NoEscalation, NoFeedback, EscRow, FbRow
<1>4. RowsMatch
  BY <1>2, <1>3 DEF RowsMatch, RowsMatchOf
<1> QED BY <1>1, <1>4, GroundInit DEF SerialInv, IsCurrent

LEMMA SerialNext == ASSUME Serial
                    PROVE  SerialInv /\ [Next]_vars => SerialInv' /\ SerialKept
<1> SUFFICES ASSUME SerialInv, [Next]_vars
             PROVE  SerialInv' /\ SerialKept
  OBVIOUS
<1>1. GroundInv'
  BY GroundNext DEF SerialInv
<1>2. SerialKept
  BY SerialTask, SerialFromOutside, SerialRequestStep DEF Next
<1> QED BY <1>1, <1>2 DEF SerialInv, SerialKept

----------------------------------------------------------------------------

\* A set whose members are all equal has at most one.
LEMMA AtMostOne ==
    ASSUME NEW S, \A x, y \in S : x = y
    PROVE  Cardinality(S) <= 1
<1>1. CASE S = {}
  BY <1>1, FS_EmptySet
<1>2. ASSUME NEW x \in S
      PROVE  Cardinality(S) <= 1
  <2>1. S = {x}
    OBVIOUS
  <2> QED BY <2>1, FS_Singleton
<1> QED BY <1>1, <1>2

\* One request at a time: however the pipeline's tasks, restarts and account updates interleave
\* with its steps, a draft is never reviewed twice.
THEOREM NoSecondReview == ASSUME Serial
                          PROVE  Spec => []ReviewedOnce
<1>1. SerialInv => ReviewedOnce
  <2> SUFFICES ASSUME SerialInv, NEW t \in Tickets
               PROVE  Cardinality({k \in FeedbackOf(t) : feedback[k].action \in ReviewActions}) <= 1
    BY DEF ReviewedOnce
  <2> DEFINE S == {k \in FeedbackOf(t) : feedback[k].action \in ReviewActions}
  <2>1. \A j, k \in S : j = k
    BY DEF SerialInv, RowsMatch, RowsMatchOf, FbRow, FeedbackOf
  <2> HIDE DEF S
  <2>2. Cardinality(S) <= 1
    BY <2>1, AtMostOne
  <2> QED BY <2>2 DEF S
<1> QED BY SerialInit, SerialNext, <1>1, PTL DEF Spec

\* One request at a time: an escalation an admin approved or rejected is never written again.
THEOREM DecisionsStay == ASSUME Serial
                         PROVE  Spec => DecisionIsFinal
<1>1. SerialInv /\ [Next]_vars =>
         [\A k \in Ticks : escalations[k].decision \in {"approved", "rejected"} =>
                              escalations'[k] = escalations[k]]_vars
  BY SerialNext DEF SerialKept, Final
<1> QED BY SerialInit, SerialNext, <1>1, PTL DEF Spec, DecisionIsFinal

\* One request at a time: the committed statuses of every ticket follow the arrows of the
\* lifecycle, so the desk implements TicketLifecycle.
THEOREM ImplementsLifecycle == ASSUME Serial
                               PROVE  Spec => FollowsLifecycle
<1>1. Init => Lifecycle!Init
  BY DEF Init, Lifecycle!Init, StatusOf, AbsentTicket
<1>2. ASSUME SerialInv, [Next]_vars
      PROVE  [Lifecycle!Next]_StatusOf
  <2>1. OneMove
    BY <1>2, SerialNext DEF SerialKept
  <2>2. CASE \A t \in Tickets : tickets'[t].status = tickets[t].status
    BY <2>2 DEF StatusOf
  <2>3. ASSUME NEW t \in Tickets, Arrow(t),
               \A u \in Tickets \ {t} : tickets'[u].status = tickets[u].status
        PROVE  Lifecycle!Next
    <3>1. StatusOf[t] = tickets[t].status
      BY DEF StatusOf
    <3>2. StatusOf' = [StatusOf EXCEPT ![t] = tickets'[t].status]
      BY <2>3 DEF StatusOf
    <3>3. Lifecycle!Create(t) \/ Lifecycle!Advance(t)
      BY <2>3, <3>1, <3>2 DEF Arrow, Lifecycle!Create, Lifecycle!Advance
    <3> QED BY <3>3 DEF Lifecycle!Next
  <2> QED BY <2>1, <2>2, <2>3 DEF OneMove
<1> QED BY SerialInit, SerialNext, <1>1, <1>2, PTL
        DEF Spec, FollowsLifecycle, Lifecycle!Spec

\* One request at a time: a closed ticket stays closed.  (With requests that overlap it does
\* not: DeskCloseRace.)
THEOREM ClosedStays == ASSUME Serial
                       PROVE  Spec => ClosedIsTerminal
<1>1. ASSUME SerialInv, [Next]_vars, NEW t \in Tickets, tickets[t].status = "closed"
      PROVE  tickets'[t].status = "closed"
  BY <1>1, SerialNext, Arrows DEF SerialKept, OneMove, Arrow
<1>2. SerialInv /\ [Next]_vars =>
         [\A t \in Tickets : tickets[t].status = "closed" => tickets'[t].status = "closed"]_vars
  BY <1>1
<1> QED BY SerialInit, SerialNext, <1>2, PTL DEF Spec, ClosedIsTerminal

----------------------------------------------------------------------------
(* While nobody edits accounts *)

\* Whoever wrote row k of the feedback is still responsible for its ticket.
RowOwned(k) ==
    LET v == feedback[k].reviewer
        t == feedback[k].ticket
    IN  \/ users[v].role = "admin"
        \/ users[v].dept = tickets[t].dept /\ feedback[k].action \in ReviewActions
        \/ /\ feedback[k].action = "resolve"
           /\ \E j \in Ticks : /\ EscRow(j, t) /\ escalations[j].decision = "approved"
                               /\ escalations[j].to = v

\* What a request copied of an account, or chose by it, is so.
HoldsAccounts(r) ==
    /\ r.pc # "idle" => r.role = users[r.user].role /\ r.dept = users[r.user].dept
    /\ r.pc = "ready" /\ r.kind = "feedback" =>
          r.role = "admin" \/ tickets[r.ticket].dept = r.dept
    /\ r.pc = "ready" /\ r.kind = "approve" =>
          IF r.seen = None THEN r.route = users[r.to].dept
          ELSE r.route = None /\ r.seen = users[r.to].dept

AnswerInv ==
    /\ SerialInv
    /\ users = InitialUsers
    /\ \A k \in Ticks : feedback[k].action # "none" => RowOwned(k)
    /\ \A h \in Handlers : HoldsAccounts(req[h])

\* The reads of a request.
Reads(h) ==
    \/ \E u \in Users, kind \in Kinds : Authenticate(h, u, kind)
    \/ \E t \in Tickets : LoadTicket(h, t)
    \/ LoadAssignment(h)
    \/ LoadLatestEscalation(h)
    \/ \E k \in Ticks : LoadEscalation(h, k)
    \/ LoadEscalatedTicket(h)
    \/ \E v \in Users : LoadEngineer(h, v)

LEMMA OnlyReadsMoveOn ==
    ASSUME TypeOK, [Next]_vars
    PROVE  \/ \A h \in Handlers : req'[h] = req[h] \/ req'[h] = Idle
           \/ \E h \in Handlers : Reads(h)
<1>1. ASSUME NEW h \in Handlers, RequestStep(h), ~ Reads(h)
      PROVE  \A g \in Handlers : req'[g] = req[g] \/ req'[g] = Idle
  <2>1. req' = [req EXCEPT ![h] = Idle]
    BY <1>1 DEF RequestStep, Reads, Abort, CommitFeedback, CommitResolve, CommitApprove,
                CommitReject
  <2> QED BY <2>1 DEF TypeOK
<1>2. ASSUME NEW t \in Tickets, Create(t) \/ RunStep(t)
      PROVE  UNCHANGED req
  BY <1>2 DEF Create, RunStep, Schedule, StartRun, CommitRun, FailRun, LoadFailedTicket,
              EscalateFailedTicket, LoseRun
<1>3. (\E u \in Users : UpdateUser(u)) \/ Crash \/ UNCHANGED vars =>
         \A h \in Handlers : req'[h] = req[h] \/ req'[h] = Idle
  BY DEF UpdateUser, Crash, vars
<1> QED BY <1>1, <1>2, <1>3 DEF Next

LEMMA OnlyCommitsAnswer ==
    ASSUME TypeOK, [Next]_vars
    PROVE  \/ UNCHANGED feedback
           \/ \E h \in Handlers : \/ \E a \in ReviewActions : CommitFeedback(h, a)
                                  \/ CommitResolve(h)
<1>1. ASSUME NEW h \in Handlers, RequestStep(h)
      PROVE  \/ UNCHANGED feedback
             \/ \E a \in ReviewActions : CommitFeedback(h, a)
             \/ CommitResolve(h)
  BY <1>1 DEF RequestStep, Authenticate, Abort, LoadTicket, LoadAssignment,
              LoadLatestEscalation, LoadEscalation, LoadEscalatedTicket, LoadEngineer,
              CommitApprove, CommitReject
<1>2. ASSUME NEW t \in Tickets, Create(t) \/ RunStep(t)
      PROVE  UNCHANGED feedback
  BY <1>2 DEF Create, RunStep, Schedule, StartRun, CommitRun, FailRun, LoadFailedTicket,
              EscalateFailedTicket, LoseRun
<1>3. (\E u \in Users : UpdateUser(u)) \/ Crash \/ UNCHANGED vars => UNCHANGED feedback
  BY DEF UpdateUser, Crash, vars
<1> QED BY <1>1, <1>2, <1>3 DEF Next

\* Rows that are there stay as they are, and so does what makes their writer responsible.
LEMMA RowsStayOwned ==
    ASSUME Serial, AnswerInv, [Next]_vars, UNCHANGED users,
           NEW k \in Ticks, feedback[k].action # "none"
    PROVE  RowOwned(k)'
<1> USE DEF AnswerInv, SerialInv, GroundInv
<1>1. Keeps /\ Final
  BY GroundNext, SerialNext DEF SerialKept
<1>2. feedback'[k] = feedback[k] /\ RowOwned(k)
  BY <1>1 DEF Keeps
<1>3. PICK t \in Tickets : t = feedback[k].ticket /\ Decided(t)
  BY RowsDecided
<1>4. feedback[k].action \in ReviewActions => tickets'[t].dept = tickets[t].dept
  BY <1>1, <1>3 DEF FeedbackGrounds, WasRouted, Keeps
<1>5. \A j \in Ticks : EscRow(j, t) /\ escalations[j].decision = "approved" =>
         EscRow(j, t)' /\ escalations'[j] = escalations[j]
  BY <1>1 DEF Final, EscRow
<1> QED BY <1>2, <1>3, <1>4, <1>5 DEF RowOwned, EscRow

LEMMA AnswerRows ==
    ASSUME Serial, AnswerInv, [Next]_vars, UNCHANGED users,
           NEW k \in Ticks, feedback'[k].action # "none"
    PROVE  RowOwned(k)'
<1> USE DEF AnswerInv, SerialInv, GroundInv, OnceInv, ResponsibleInv, TypeInv
<1>1. CASE feedback[k].action # "none"
  BY <1>1, RowsStayOwned
<1>2. ASSUME NEW h \in Handlers, NEW a \in ReviewActions, CommitFeedback(h, a),
             feedback[k].action = "none"
      PROVE  RowOwned(k)'
  <2>1. PICK t \in Tickets : t = req[h].ticket
    BY <1>2, SerialReads DEF CommitFeedback
  <2>2. PICK v : v = req[h].user
    OBVIOUS
  <2>3. k = req[h].tick /\ feedback'[k] = [ticket |-> t, reviewer |-> v, action |-> a]
    BY <1>2, <2>1, <2>2 DEF CommitFeedback, TypeOK
  <2>4. tickets'[t].dept = tickets[t].dept
    BY <1>2, <2>1 DEF CommitFeedback, AfterReview, TypeOK, TicketRow
  <2>5. users[v].role = "admin" \/ users[v].dept = tickets[t].dept
    BY <1>2, <2>1, <2>2 DEF CommitFeedback, HoldsAccounts
  <2> QED BY <2>3, <2>4, <2>5 DEF RowOwned
<1>3. ASSUME NEW h \in Handlers, CommitResolve(h), feedback[k].action = "none"
      PROVE  RowOwned(k)'
  <2>1. PICK t \in Tickets : t = req[h].ticket
    BY <1>3, SerialReads DEF CommitResolve
  <2>2. PICK v : v = req[h].user
    OBVIOUS
  <2>3. feedback'[k] = [ticket |-> t, reviewer |-> v, action |-> "resolve"]
    BY <1>3, <2>1, <2>2 DEF CommitResolve, TypeOK
  <2>4. UNCHANGED escalations
    BY <1>3 DEF CommitResolve
  <2>5. \/ users[v].role = "admin"
        \/ \E j \in Ticks : /\ EscRow(j, t) /\ escalations[j].decision = "approved"
                            /\ escalations[j].to = v
    BY <1>3, <2>1, <2>2 DEF CommitResolve, HoldsAccounts, IsCurrent, Entitled
  <2> QED BY <2>3, <2>4, <2>5 DEF RowOwned, EscRow
<1> QED BY <1>1, <1>2, <1>3, OnlyCommitsAnswer

LEMMA AnswerRequests ==
    ASSUME Serial, AnswerInv, [Next]_vars, UNCHANGED users, NEW g \in Handlers
    PROVE  HoldsAccounts(req[g])'
<1> USE DEF AnswerInv, SerialInv, GroundInv, OnceInv, ResponsibleInv, TypeInv
<1>1. CASE req'[g] = Idle
  BY <1>1 DEF HoldsAccounts, Idle
<1>2. CASE req'[g] = req[g]
  <2>1. Keeps
    BY GroundNext
  <2>2. req[g].pc = "ready" /\ req[g].kind = "feedback" =>
           tickets'[req[g].ticket].dept = tickets[req[g].ticket].dept
    <3> SUFFICES ASSUME req[g].pc = "ready", req[g].kind = "feedback"
                 PROVE  tickets'[req[g].ticket].dept = tickets[req[g].ticket].dept
      OBVIOUS
    <3>1. req[g].ticket \in Tickets /\ Decided(req[g].ticket)
      BY DEF ReadsExist, HasRead, ReadsDecided, HoldsDecided
    <3>2. WasRouted(req[g].ticket)
      BY DEF ReadsGrounded, HoldsGround, WasRouted
    <3> QED BY <2>1, <3>1, <3>2 DEF Keeps
  <2> QED BY <1>2, <2>2 DEF HoldsAccounts
\* A read of the one request there is.
<1>3. ASSUME NEW r, req' = [req EXCEPT ![g] = r], UNCHANGED tickets, HoldsAccounts(r)
      PROVE  HoldsAccounts(req[g])'
  BY <1>3 DEF TypeOK, HoldsAccounts
<1>4. ASSUME NEW u \in Users, NEW kind \in Kinds, Authenticate(g, u, kind)
      PROVE  HoldsAccounts(req[g])'
  <2> DEFINE r == [Idle EXCEPT !.pc = "auth", !.kind = kind, !.user = u,
                               !.role = users[u].role, !.dept = users[u].dept,
                               !.tick = IF kind \in {"feedback", "resolve"} THEN clock + 1 ELSE 0]
  <2>1. HoldsAccounts(r)
    BY DEF HoldsAccounts, Idle
  <2>2. req' = [req EXCEPT ![g] = r] /\ UNCHANGED tickets
    BY <1>4 DEF Authenticate
  <2> HIDE DEF r
  <2> QED BY <1>3, <2>1, <2>2
<1>5. ASSUME NEW t \in Tickets, LoadTicket(g, t)
      PROVE  HoldsAccounts(req[g])'
  <2> DEFINE r == [req[g] EXCEPT !.pc = IF req[g].kind = "feedback" THEN "ready" ELSE "opened",
                                 !.ticket = t]
  <2>1. /\ r.kind = req[g].kind /\ r.user = req[g].user /\ r.role = req[g].role
        /\ r.dept = req[g].dept /\ r.ticket = t
    BY DEF TypeOK, ReqRow
  <2>2. /\ req' = [req EXCEPT ![g] = r] /\ UNCHANGED tickets /\ req[g].pc # "idle"
        /\ r.role = "admin" \/ tickets[t].dept = r.dept
        /\ r.kind # "approve"
    BY <1>5, <2>1 DEF LoadTicket, MayOpen
  <2> HIDE DEF r
  <2>3. HoldsAccounts(r)
    BY <2>1, <2>2 DEF HoldsAccounts
  <2> QED BY <1>3, <2>2, <2>3
<1>6. CASE LoadAssignment(g) \/ LoadLatestEscalation(g)
  <2> DEFINE r(pc) == [req[g] EXCEPT !.pc = pc]
  <2>1. \A pc : /\ r(pc).kind = req[g].kind /\ r(pc).user = req[g].user
                /\ r(pc).role = req[g].role /\ r(pc).dept = req[g].dept
    BY DEF TypeOK, ReqRow
  <2>2. /\ req' = [req EXCEPT ![g] = r("loaded")] \/ req' = [req EXCEPT ![g] = r("ready")]
        /\ UNCHANGED tickets /\ req[g].pc # "idle" /\ req[g].kind = "resolve"
    BY <1>6 DEF LoadAssignment, LoadLatestEscalation, ReadsGrounded, HoldsGround
  <2> HIDE DEF r
  <2>3. \A pc : HoldsAccounts(r(pc))
    BY <2>1, <2>2 DEF HoldsAccounts
  <2> QED BY <1>3, <2>2, <2>3
<1>7. ASSUME NEW k \in Ticks, LoadEscalation(g, k)
      PROVE  HoldsAccounts(req[g])'
  <2> DEFINE r == [req[g] EXCEPT !.pc = "found", !.esc = k, !.ticket = escalations[k].ticket]
  <2>1. /\ r.pc = "found" /\ r.user = req[g].user /\ r.role = req[g].role /\ r.dept = req[g].dept
    BY DEF TypeOK, ReqRow
  <2>2. req' = [req EXCEPT ![g] = r] /\ UNCHANGED tickets /\ req[g].pc # "idle"
    BY <1>7 DEF LoadEscalation
  <2> HIDE DEF r
  <2>3. HoldsAccounts(r)
    BY <2>1, <2>2 DEF HoldsAccounts
  <2> QED BY <1>3, <2>2, <2>3
<1>8. CASE LoadEscalatedTicket(g)
  <2> DEFINE r == [req[g] EXCEPT !.pc = IF req[g].kind = "reject" THEN "ready" ELSE "loaded",
                                 !.seen = tickets[req[g].ticket].dept]
  <2>1. /\ r.kind = req[g].kind /\ r.user = req[g].user /\ r.role = req[g].role
        /\ r.dept = req[g].dept /\ r.pc = IF req[g].kind = "reject" THEN "ready" ELSE "loaded"
    BY DEF TypeOK, ReqRow
  <2>2. req' = [req EXCEPT ![g] = r] /\ UNCHANGED tickets /\ req[g].pc = "found"
    BY <1>8 DEF LoadEscalatedTicket
  <2> HIDE DEF r
  <2>3. HoldsAccounts(r)
    BY <2>1, <2>2 DEF HoldsAccounts
  <2> QED BY <1>3, <2>2, <2>3
<1>9. ASSUME NEW v \in Users, LoadEngineer(g, v)
      PROVE  HoldsAccounts(req[g])'
  <2> DEFINE r == [req[g] EXCEPT !.pc = "ready", !.to = v,
                                 !.route = IF req[g].seen = None THEN users[v].dept ELSE None]
  <2>1. /\ r.kind = req[g].kind /\ r.user = req[g].user /\ r.role = req[g].role
        /\ r.dept = req[g].dept /\ r.seen = req[g].seen /\ r.to = v
        /\ r.route = IF req[g].seen = None THEN users[v].dept ELSE None
    BY DEF TypeOK, ReqRow
  <2>2. /\ req' = [req EXCEPT ![g] = r] /\ UNCHANGED tickets
        /\ req[g].pc = "loaded" /\ req[g].kind = "approve"
        /\ req[g].seen # None => req[g].seen = users[v].dept
    BY <1>9 DEF LoadEngineer, MayTake
  <2> HIDE DEF r
  <2>3. HoldsAccounts(r)
    BY <2>1, <2>2 DEF HoldsAccounts
  <2> QED BY <1>3, <2>2, <2>3
<1>10. \/ req'[g] = req[g] \/ req'[g] = Idle
       \/ Reads(g)
  BY OnlyReadsMoveOn DEF Serial
<1> QED BY <1>1, <1>2, <1>4, <1>5, <1>6, <1>7, <1>8, <1>9, <1>10 DEF Reads

LEMMA AnswerInit == Init => AnswerInv
<1> SUFFICES ASSUME Init
             PROVE  AnswerInv
  OBVIOUS
<1>1. \A h \in Handlers : req[h] = Idle
  BY DEF Init
<1>2. \A k \in Ticks : feedback[k].action = "none"
  BY DEF Init, NoFeedback
<1> QED BY <1>1, <1>2, SerialInit DEF Init, AnswerInv, HoldsAccounts, Idle

LEMMA AnswerNext == ASSUME Serial, MaxUserUpdates = 0
                    PROVE  AnswerInv /\ [Next]_vars => AnswerInv' /\ UNCHANGED users
<1> SUFFICES ASSUME AnswerInv, [Next]_vars
             PROVE  AnswerInv' /\ UNCHANGED users
  OBVIOUS
<1>1. SerialInv'
  BY SerialNext DEF AnswerInv
<1>2. userUpdates' = 0
  BY <1>1 DEF SerialInv, GroundInv, OnceInv, ResponsibleInv, TypeInv, TypeOK
<1>3. UNCHANGED users
  BY <1>2, GroundNext DEF AnswerInv, SerialInv, Keeps
<1> QED BY <1>1, <1>3, AnswerRows, AnswerRequests DEF AnswerInv

\* One request at a time, nobody edits accounts: a reviewed ticket has one reply on record at
\* most, and every review and resolution is by somebody responsible for its ticket.
THEOREM OneReply == ASSUME Serial, MaxUserUpdates = 0
                    PROVE  Spec => []OneAnswer
<1>1. SerialInv => \A t \in Tickets : Cardinality(FinalResponses(t)) <= 1
  <2> SUFFICES ASSUME SerialInv, NEW t \in Tickets
               PROVE  Cardinality(FinalResponses(t)) <= 1
    OBVIOUS
  <2>1. \A j, k \in FinalResponses(t) : j = k
    BY DEF SerialInv, RowsMatch, RowsMatchOf, FbRow, Answers, FinalResponses, FeedbackOf
  <2> QED BY <2>1, AtMostOne
<1>2. AnswerInv => \A k \in Ticks : feedback[k].action # "none" => IsResponsible(k)
  BY DEF AnswerInv, RowOwned, IsResponsible, EscRow, EscalationsOf
<1>3. AnswerInv => OneAnswer
  BY <1>1, <1>2 DEF AnswerInv, OneAnswer
<1> QED BY AnswerInit, AnswerNext, <1>3, PTL DEF Spec

\* An assigned ticket is in its engineer's department.
ApprovedInDepartment ==
    \A k \in Ticks :
        escalations[k].decision = "approved" =>
            users[escalations[k].to].dept = tickets[escalations[k].ticket].dept

QueueInv == AnswerInv /\ ApprovedInDepartment

LEMMA OnlyApprovals ==
    ASSUME TypeOK, [Next]_vars, NEW k \in Ticks, escalations'[k].decision = "approved"
    PROVE  \/ escalations'[k] = escalations[k]
           \/ \E h \in Handlers : CommitApprove(h) /\ k = req[h].esc
<1>1. ASSUME NEW h \in Handlers, NEW a \in ReviewActions, CommitFeedback(h, a)
      PROVE  escalations'[k] = escalations[k]
  BY <1>1 DEF CommitFeedback, NewEscalation, TypeOK
<1>2. ASSUME NEW h \in Handlers, CommitReject(h)
      PROVE  escalations'[k] = escalations[k]
  BY <1>2 DEF CommitReject, TypeOK, EscalationRow
<1>3. ASSUME NEW h \in Handlers, CommitApprove(h)
      PROVE  escalations'[k] = escalations[k] \/ k = req[h].esc
  BY <1>3 DEF CommitApprove, TypeOK
<1>4. ASSUME NEW h \in Handlers, Reads(h) \/ Abort(h) \/ CommitResolve(h)
      PROVE  escalations'[k] = escalations[k]
  BY <1>4 DEF Reads, Authenticate, Abort, LoadTicket, LoadAssignment, LoadLatestEscalation,
              LoadEscalation, LoadEscalatedTicket, LoadEngineer, CommitResolve
<1>5. ASSUME NEW t \in Tickets, Create(t) \/ RunStep(t)
      PROVE  escalations'[k] = escalations[k]
  <2>1. \/ UNCHANGED escalations
        \/ \E tier : escalations' = [escalations EXCEPT ![run[t].tick] = NewEscalation(t, tier)]
    BY <1>5 DEF Create, RunStep, Schedule, StartRun, CommitRun, FailRun, LoadFailedTicket,
                EscalateFailedTicket, LoseRun
  <2>2. ASSUME NEW tier, NEW j,
               escalations' = [escalations EXCEPT ![j] = NewEscalation(t, tier)]
        PROVE  escalations'[k] = escalations[k]
    <3>1. NewEscalation(t, tier).decision = "pending"
      BY DEF NewEscalation
    <3> QED BY <2>2, <3>1 DEF TypeOK
  <2> QED BY <2>1, <2>2
<1>6. (\E u \in Users : UpdateUser(u)) \/ Crash \/ UNCHANGED vars =>
         escalations'[k] = escalations[k]
  BY DEF UpdateUser, Crash, vars
<1> QED BY <1>1, <1>2, <1>3, <1>4, <1>5, <1>6 DEF Next, RequestStep, Reads

LEMMA QueueNext == ASSUME Serial, MaxUserUpdates = 0
                   PROVE  QueueInv /\ [Next]_vars => QueueInv'
<1> SUFFICES ASSUME QueueInv, [Next]_vars
             PROVE  QueueInv'
  OBVIOUS
<1> USE DEF QueueInv, AnswerInv, SerialInv, GroundInv, OnceInv, ResponsibleInv, TypeInv
<1>1. AnswerInv' /\ UNCHANGED users
  BY AnswerNext
<1>2. ASSUME NEW k \in Ticks, escalations'[k].decision = "approved"
      PROVE  users'[escalations'[k].to].dept = tickets'[escalations'[k].ticket].dept
  <2>1. CASE escalations'[k] = escalations[k]
    <3>1. EscRow(k, escalations[k].ticket) /\ escalations[k].ticket \in Tickets
      BY <1>2, <2>1 DEF EscRow, ReadsExist
    <3>2. tickets'[escalations[k].ticket].dept = tickets[escalations[k].ticket].dept
      BY <1>2, <2>1, <3>1, SerialNext DEF SerialKept, DeptStays
    <3> QED BY <1>1, <1>2, <2>1, <3>2 DEF ApprovedInDepartment
  <2>2. ASSUME NEW h \in Handlers, CommitApprove(h), k = req[h].esc
        PROVE  users'[escalations'[k].to].dept = tickets'[escalations'[k].ticket].dept
    <3> DEFINE row == [escalations[k] EXCEPT !.decision = "approved", !.to = req[h].to]
    <3>1. PICK t \in Tickets : t = req[h].ticket /\ EscRow(k, t)
      BY <2>2, SerialReads DEF CommitApprove
    <3>2. row.ticket = t /\ row.to = req[h].to
      BY <3>1 DEF TypeOK, EscalationRow, EscRow
    <3>3. escalations'[k] = row
      BY <2>2 DEF CommitApprove, TypeOK
    <3> HIDE DEF row
    <3>4. /\ req[h].seen = tickets[t].dept /\ req[h].to \in Users
          /\ users[req[h].to].role = "department_engineer"
          /\ IF req[h].seen = None THEN req[h].route = users[req[h].to].dept
             ELSE req[h].route = None /\ req[h].seen = users[req[h].to].dept
      BY <2>2, <3>1 DEF CommitApprove, IsCurrent, HoldsAccounts, ReadsGrounded, HoldsGround, MayOwn,
                        TypeOK
    <3>5. tickets'[t].dept = users[req[h].to].dept
      BY <2>2, <3>1, <3>4 DEF CommitApprove, TypeOK, TicketRow
    <3> QED BY <1>1, <3>2, <3>3, <3>5
  <2> QED BY <1>2, <2>1, <2>2, OnlyApprovals
<1> QED BY <1>1, <1>2 DEF ApprovedInDepartment

LEMMA QueueInit == Init => QueueInv
BY AnswerInit DEF Init, NoEscalation, QueueInv, ApprovedInDepartment

\* One request at a time and nobody edits accounts: the admin queue lists escalated tickets
\* only, and every escalated ticket is in it or in the list of the engineer whom the latest
\* escalation names, whether that engineer has a department or not.
THEOREM TrueQueues == ASSUME Serial, MaxUserUpdates = 0
                      PROVE  Spec => []QueuesAreTrue
<1>1. ASSUME QueueInv, NEW t \in Tickets
      PROVE  /\ InAdminQueue(t) => tickets[t].status = "escalated"
             /\ tickets[t].status = "escalated" =>
                   \/ InAdminQueue(t)
                   \/ \E k \in Ticks :
                         /\ IsLatestEscalation(k, t)
                         /\ escalations[k].decision = "approved"
                         /\ t \in ListFor(escalations[k].to)
  <2> USE DEF QueueInv, AnswerInv, SerialInv, GroundInv, OnceInv, ResponsibleInv, TypeInv
  <2>1. InAdminQueue(t) => tickets[t].status = "escalated"
    BY <1>1 DEF InAdminQueue, IsLatestEscalation, EscalationsOf, RowsMatch, RowsMatchOf, EscRow
  <2>2. ASSUME tickets[t].status = "escalated"
        PROVE  \/ InAdminQueue(t)
               \/ \E k \in Ticks :
                     /\ IsLatestEscalation(k, t)
                     /\ escalations[k].decision = "approved"
                     /\ t \in ListFor(escalations[k].to)
    <3>1. PICK k \in Ticks : EscRow(k, t) /\ escalations[k].decision \in {"pending", "approved"}
      BY <1>1, <2>2 DEF SomeoneResponsible, EscalationsOf, EscRow
    <3>2. \A j \in EscalationsOf(t) : j = k
      BY <1>1, <3>1 DEF RowsMatch, RowsMatchOf, EscalationsOf, EscRow
    <3>3. IsLatestEscalation(k, t)
      BY <3>1, <3>2, BoundsAssumption DEF IsLatestEscalation, EscalationsOf, EscRow, Ticks
    <3>4. CASE escalations[k].decision = "pending"
      BY <3>3, <3>4 DEF InAdminQueue
    <3>5. CASE escalations[k].decision = "approved"
      <4>1. PICK v \in Users : v = escalations[k].to
        BY <1>1, <3>5 DEF EscalationGrounds, MayOwn
      <4>2. userUpdates = 0
        BY <1>1 DEF TypeOK
      <4>3. users[v].role = "department_engineer"
        BY <1>1, <3>5, <4>1, <4>2 DEF EscalationGrounds, MayOwn
      <4>4. users[v].dept = tickets[t].dept
        BY <1>1, <3>1, <3>5, <4>1 DEF ApprovedInDepartment, EscRow
      <4>5. t \in ListFor(v)
        BY <2>2, <3>1, <4>1, <4>3, <4>4 DEF ListFor, Visible, EscalationsOf, EscRow
      <4> QED BY <3>3, <3>5, <4>1, <4>5
    <3> QED BY <3>1, <3>4, <3>5
  <2> QED BY <2>1, <2>2
<1>2. QueueInv => QueuesAreTrue
  BY <1>1 DEF QueuesAreTrue
<1> QED BY QueueInit, QueueNext, <1>2, PTL DEF Spec
=============================================================================
