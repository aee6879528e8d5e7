------------------------------- MODULE Dashboard -------------------------------
(***************************************************************************)
(* The three dashboard pages (backend/app/routers/analytics.py) and the    *)
(* labels they count by (ai/confidence/labels.py), over a desk that goes   *)
(* on working: a page is two or three SELECTs, each of which sees what is  *)
(* committed when it starts, in a session that keeps the tickets it has    *)
(* already loaded as it loaded them.                                       *)
(*                                                                         *)
(* The desk is the part of TicketDesk the pages read: who may do what is   *)
(* checked when a request starts and written when it commits, whatever     *)
(* others committed in between.  Scores are in hundred-thousandths: the    *)
(* lane is chosen by the whole score, the ticket and the gate's log keep   *)
(* four places of it.                                                      *)
(* Latencies and their medians are left out; of the times the pages group  *)
(* by, every ticket has its day.                                           *)
(***************************************************************************)
EXTENDS Absent, Rounding, Naturals, FiniteSets, FiniteSetsExt

CONSTANTS
    Tickets, Departments, Engineers, Admins,
    SyntheticReviewer,           \* the placeholder reviewer's account
    DeptOf,                      \* of every engineer
    Legacy,                      \* closed tickets of the first version, with a score and no lane
    DayOf,
    Scores,                      \* what the confidence model may give
    FastScore, AssistedScore,    \* the active thresholds
    SeedScore,                   \* what the first version's model gives
    Workbench,                   \* the actions of the workbench
    Simulated,                   \* the outcomes of simulated reviews
    DeskCalls,                   \* requests that may be under way at once
    MaxFeedback, MaxPages        \* bounds on rows of feedback, and on pages opened

VARIABLES
    tickets,      \* rows of tickets
    feedback,     \* rows of feedback; nth tells equal rows apart, overtaken is not in the row:
                  \* the ticket had changed its status when the row was committed
    underway,     \* requests that have checked and not yet committed
    decisions,    \* rows of gate_decisions, joined to their draft's ticket
    view,         \* the page being computed, or the last one shown
    views

dashVars == <<tickets, feedback, underway, decisions, view, views>>

\* The placeholder reviewer is nobody who works at the desk; scores are never missing by being
\* one; thresholds are multiples of 0.0001, as every candidate of the grid is.
DashAssumption ==
    /\ IsFiniteSet(Tickets)
    /\ Departments # {} /\ DeptOf \in [Engineers -> Departments]
    /\ SyntheticReviewer \notin Engineers \cup Admins
    /\ None \notin Nat \cup {"fast", "assisted", "escalate"}
    /\ Scores \subseteq Nat /\ SeedScore \in Nat
    /\ Workbench \subseteq {"accept", "edit", "reject", "escalate", "doubt"}
    /\ Simulated \subseteq {"accept", "reject"}
    /\ FastScore \in Nat /\ FastScore % 10 = 0
    /\ AssistedScore \in Nat /\ AssistedScore % 10 = 0
    /\ MaxPages \in Nat

LaneNames == {"fast", "assisted", "escalate"}

TicketStatuses == {"absent", "submitted", "drafted", "escalated", "reviewed", "closed"}

NoTicket == [status |-> "absent", dept |-> None, lane |-> None, score |-> None, draft |-> FALSE]

NoPage == [kind |-> "none", pc |-> "idle", tickets |-> {}, session |-> [t \in Tickets |-> NoTicket],
           feedback |-> {}, shown |-> None]

DashTypeOK ==
    /\ \A t \in Tickets :
          /\ tickets[t].status \in TicketStatuses
          /\ tickets[t].dept \in Departments \cup {None}
          /\ tickets[t].lane \in LaneNames \cup {None}
          /\ tickets[t].score \in Nat \cup {None}
          /\ tickets[t].draft \in BOOLEAN
    /\ \A f \in feedback :
          /\ f.ticket \in Tickets
          /\ f.reviewer \in Engineers \cup Admins \cup {SyntheticReviewer}
          /\ f.action \in {"accept", "edit", "reject", "escalate", "doubt", "resolve"}
          /\ f.overtaken \in BOOLEAN
    /\ \A c \in DeskCalls : underway[c] # None => underway[c].ticket \in Tickets
    /\ \A d \in decisions : d.ticket \in Tickets /\ d.lane \in LaneNames
    /\ view.kind \in {"none", "summary", "report", "lanes"}
    /\ views \in 0 .. MaxPages

----------------------------------------------------------------------------
(* The desk the pages look at *)

\* Bound: the desk is left alone once the last page is shown.
DeskStep ==
    /\ views < MaxPages \/ view.pc # "shown"
    /\ UNCHANGED <<view, views>>

SubmitTicket(t) ==
    /\ tickets[t].status = "absent"
    /\ tickets' = [tickets EXCEPT ![t].status = "submitted"]
    /\ DeskStep /\ UNCHANGED <<feedback, underway, decisions>>

\* The pipeline failed or found no department.
GiveUp(t) ==
    /\ tickets[t].status = "submitted"
    /\ tickets' = [tickets EXCEPT ![t].status = "escalated", ![t].lane = "escalate"]
    /\ DeskStep /\ UNCHANGED <<feedback, underway, decisions>>

\* round(score, 4)
Logged(s) == RoundedTo(s, 10)

\* lane_for; a guard, or a draft that cannot answer, escalates at any score.
LaneOf(s) ==
    IF s = None THEN "escalate"
    ELSE IF s >= FastScore THEN "fast"
    ELSE IF s >= AssistedScore THEN "assisted" ELSE "escalate"

\* The pipeline's commit: the ticket with its lane and score, and the gate's log row when the
\* drafting model answered at all.
Decide(t, d, s, lane, logged) ==
    /\ tickets[t].status = "submitted"
    /\ lane \in {LaneOf(s), "escalate"}
    /\ lane # "escalate" => logged
    /\ tickets' = [tickets EXCEPT ![t] =
          [status |-> IF lane = "escalate" THEN "escalated" ELSE "drafted", dept |-> d, lane |-> lane,
           score |-> IF logged /\ s # None THEN Logged(s) ELSE None, draft |-> lane # "escalate"]]
    /\ decisions' = IF logged
                    THEN decisions \cup {[ticket |-> t, lane |-> lane,
                                          score |-> IF s = None THEN None ELSE Logged(s)]}
                    ELSE decisions
    /\ DeskStep /\ UNCHANGED <<feedback, underway>>

\* A request has passed its checks (the lowest free number stands for it): the status it read,
\* the one it will write, and the row of feedback it adds, if any.
Begin(c, t, status, said) ==
    /\ underway[c] = None /\ \A e \in DeskCalls : e < c => underway[e] # None
    /\ underway' = [underway EXCEPT ![c] =
          [ticket |-> t, read |-> tickets[t].status, status |-> status, said |-> said]]
    /\ DeskStep /\ UNCHANGED <<tickets, feedback, decisions>>

\* Of people's rows; the seed script's are one for each ticket.
HasRoom ==
    Cardinality({f \in feedback : f.reviewer # SyntheticReviewer}) +
        Cardinality({c \in DeskCalls : underway[c] # None}) < MaxFeedback

Said(v, a, minor) == [reviewer |-> v, action |-> a, minor |-> minor]

\* Engineers of the ticket's department, and admins, review a draft.  minor: an edit
\* changes less than the labels' ratio.
Review(c, t, v, a, minor) ==
    /\ tickets[t].status = "drafted"
    /\ v \in Engineers => DeptOf[v] = tickets[t].dept
    /\ minor => a = "edit"
    /\ HasRoom
    /\ Begin(c, t, IF a \in {"escalate", "doubt"} THEN "escalated" ELSE "reviewed", Said(v, a, minor))

\* An approval to an engineer of d routes a ticket that has no department.
Route(t, d) ==
    /\ tickets[t].status = "escalated"
    /\ tickets[t].dept = None
    /\ tickets' = [tickets EXCEPT ![t].dept = d]
    /\ DeskStep /\ UNCHANGED <<feedback, underway, decisions>>

\* v answers the escalation that was approved to them.
Resolve(c, t, v) ==
    /\ tickets[t].status = "escalated"
    /\ DeptOf[v] = tickets[t].dept
    /\ HasRoom
    /\ Begin(c, t, "reviewed", Said(v, "resolve", FALSE))

\* An escalation is rejected.
Close(c, t) ==
    /\ tickets[t].status = "escalated"
    /\ Begin(c, t, "closed", None)

\* The ticket's row of feedback number nth of those that say the same.
FeedbackRow(t, said, nth, overtaken) ==
    [ticket |-> t, reviewer |-> said.reviewer, action |-> said.action, minor |-> said.minor,
     nth |-> nth, overtaken |-> overtaken]

SaidAlready(t, said) ==
    {f \in feedback : /\ f.ticket = t
                      /\ <<f.reviewer, f.action, f.minor>> = <<said.reviewer, said.action, said.minor>>}

\* The request commits: its status over whatever the ticket's is by now.
CommitRequest(c) ==
    /\ underway[c] # None
    /\ LET w == underway[c]
           status == tickets[w.ticket].status
       IN  /\ tickets' = [tickets EXCEPT ![w.ticket].status = w.status]
           /\ feedback' = feedback \cup
                 IF w.said = None THEN {}
                 ELSE {FeedbackRow(w.ticket, w.said, Cardinality(SaidAlready(w.ticket, w.said)) + 1,
                                   status # w.read)}
    /\ underway' = [underway EXCEPT ![c] = None]
    /\ DeskStep /\ UNCHANGED decisions

HasSeed(t) == \E f \in feedback : f.ticket = t /\ f.reviewer = SyntheticReviewer

\* seed_synthetic_confidence_data: every closed ticket with a department gets the first
\* version's score, and once a simulated review; live tickets that were closed too.
SeedSynthetic(outcome) ==
    LET closed == {t \in Tickets : tickets[t].status = "closed" /\ tickets[t].dept # None}
        fresh == {t \in closed : ~ HasSeed(t)}
    IN  /\ fresh # {}
        /\ tickets' = [t \in Tickets |->
              IF t \in closed THEN [tickets[t] EXCEPT !.score = SeedScore] ELSE tickets[t]]
        /\ feedback' = feedback \cup
              {FeedbackRow(t, Said(SyntheticReviewer, outcome, FALSE), 1, FALSE) : t \in fresh}
        /\ DeskStep /\ UNCHANGED <<underway, decisions>>

----------------------------------------------------------------------------
(* Labels and small sums *)

\* label_from_feedback: "none" is left out.  draft: the ticket's draft is not NULL.
LabelOf(draft, f) ==
    IF f.action = "accept" THEN "good"
    ELSE IF f.action = "reject" THEN "bad"
    ELSE IF f.action = "edit" THEN (IF draft /\ f.minor THEN "good" ELSE "bad")
    ELSE IF f.action \in {"escalate", "doubt"} /\ draft THEN "bad"
    ELSE "none"

BinCount == 10

\* _bucket_label: a score of 1.0 falls in the last bucket.
Bin(s) == Min({s \div 10000, BinCount - 1})

Bins == 0 .. BinCount - 1

\* A share: a pair, or None when there is nothing to divide by.
Share(part, whole) ==
    IF Cardinality(whole) = 0 THEN None ELSE <<Cardinality(part), Cardinality(whole)>>

SumScores(ts, row) == MapThenSumSet(LAMBDA t : row[t].score, ts)

----------------------------------------------------------------------------
(* GET /analytics/summary *)

Existing == {t \in Tickets : tickets[t].status # "absent"}

OpenSummary ==
    /\ view.pc \in {"idle", "shown"}
    /\ views < MaxPages
    /\ view' = [NoPage EXCEPT !.kind = "summary", !.pc = "feedback", !.tickets = Existing,
                              !.session = tickets]
    /\ views' = views + 1
    /\ UNCHANGED <<tickets, feedback, underway, decisions>>

\* _feedback_summary
FeedbackSummary(fs, session) ==
    LET decided == {f \in fs : LabelOf(session[f.ticket].draft, f) # "none"}
    IN  [total |-> Cardinality(fs),
         actions |-> [a \in {"accept", "edit", "reject", "escalate", "doubt", "resolve"} |->
                          Cardinality({f \in fs : f.action = a})],
         agreement |-> Share({f \in decided : LabelOf(session[f.ticket].draft, f) = "good"}, decided)]

Breakdown(ts, row) ==
    LET scored == {t \in ts : row[t].score # None}
    IN  [total |-> Cardinality(ts), scored |-> Cardinality(scored),
         escalation |-> Share({t \in scored : row[t].status = "escalated"}, scored),
         confidence |-> IF scored = {} THEN None ELSE <<SumScores(scored, row), Cardinality(scored)>>]

\* One row of by_reviewer; in_review is the queue of the engineer's department.
ReviewerRow(v, fs, ts, row) ==
    LET did(as) == Cardinality({f \in fs : f.reviewer = v /\ f.action \in as})
    IN  [resolved |-> did({"accept", "edit", "resolve"}), rejected |-> did({"reject"}),
         escalated |-> did({"escalate", "doubt"}),
         inReview |-> Cardinality({t \in ts : row[t].dept = DeptOf[v] /\ row[t].status = "drafted"})]

SummaryPage(ts, row, fs) ==
    LET real == {f \in fs : f.reviewer # SyntheticReviewer}
        scored == {t \in ts : row[t].score # None}
    IN  [all |-> Breakdown(ts, row),
         status |-> [s \in TicketStatuses |-> Cardinality({t \in ts : row[t].status = s})],
         buckets |-> [b \in Bins |-> Cardinality({t \in scored : Bin(row[t].score) = b})],
         dept |-> [d \in Departments |-> Breakdown({t \in ts : row[t].dept = d}, row)],
         reviewer |-> [v \in Engineers |-> ReviewerRow(v, real, ts, row)],
         real |-> FeedbackSummary(real, row), synthetic |-> FeedbackSummary(fs \ real, row)]

\* Feedback joined to tickets: one loaded already stays as it was, a newer one is loaded
\* now.  The engineers are read last and do not change here.
ReadSummaryFeedback ==
    /\ view.pc = "feedback"
    /\ LET session == [t \in Tickets |-> IF t \in view.tickets THEN view.session[t] ELSE tickets[t]]
       IN  view' = [view EXCEPT !.pc = "shown", !.session = session, !.feedback = feedback,
                                !.shown = SummaryPage(view.tickets, session, feedback)]
    /\ UNCHANGED <<tickets, feedback, underway, decisions, views>>

----------------------------------------------------------------------------
(* GET /analytics/confidence-model: one SELECT *)

\* Live tickets the gate scored, reviewed by people.
ReportRows ==
    {f \in feedback : /\ tickets[f.ticket].score # None
                      /\ tickets[f.ticket].lane # None
                      /\ f.reviewer # SyntheticReviewer
                      /\ LabelOf(tickets[f.ticket].draft, f) # "none"}

ReportPage(fs) ==
    LET accepted(xs) == {f \in xs : LabelOf(tickets[f.ticket].draft, f) = "good"}
        inBin(b) == {f \in fs : Bin(tickets[f.ticket].score) = b}
        onDay(d) == {f \in fs : DayOf[f.ticket] = d}
    IN  [labeled |-> Cardinality(fs), synthetic |-> Cardinality({f \in fs : f.reviewer = SyntheticReviewer}),
         agreement |-> Share(accepted(fs), fs),
         calibration |-> [b \in Bins |->
            [count |-> Cardinality(inBin(b)), agreement |-> Share(accepted(inBin(b)), inBin(b)),
             predicted |-> MapThenSumSet(LAMBDA f : tickets[f.ticket].score, inBin(b))]],
         trend |-> [d \in {DayOf[f.ticket] : f \in fs} |-> Share(accepted(onDay(d)), onDay(d))]]

ShowReport ==
    /\ view.pc \in {"idle", "shown"}
    /\ views < MaxPages
    /\ view' = [NoPage EXCEPT !.kind = "report", !.pc = "shown", !.feedback = feedback,
                              !.session = tickets, !.shown = ReportPage(ReportRows)]
    /\ views' = views + 1
    /\ UNCHANGED <<tickets, feedback, underway, decisions>>

----------------------------------------------------------------------------
(* GET /analytics/lanes *)

OpenLanes ==
    /\ view.pc \in {"idle", "shown"}
    /\ views < MaxPages
    /\ view' = [NoPage EXCEPT !.kind = "lanes", !.pc = "actions", !.session = tickets,
                              !.tickets = {t \in Existing : tickets[t].lane # None}]
    /\ views' = views + 1
    /\ UNCHANGED <<tickets, feedback, underway, decisions>>

ReadLaneFeedback ==
    /\ view.pc = "actions"
    /\ view' = [view EXCEPT !.pc = "decisions", !.feedback = feedback]
    /\ UNCHANGED <<tickets, feedback, underway, decisions, views>>

\* Mutant: resolutions count as actions on the lane's drafts.
LaneActions_All(lane) ==
    {f \in view.feedback : f.ticket \in view.tickets /\ view.session[f.ticket].lane = lane}

\* The actions counted for a lane: on tickets of the first SELECT, resolutions left out.
LaneActions(lane) ==
    {f \in view.feedback : /\ f.ticket \in view.tickets
                           /\ view.session[f.ticket].lane = lane
                           /\ f.action # "resolve"}

\* A lane's scores in ten bins, by the log's score.
LaneBins(lane) ==
    LET ds == {d \in decisions : /\ d.ticket \in view.tickets
                                 /\ view.session[d.ticket].lane = lane
                                 /\ d.score # None}
    IN  [b \in Bins |-> Cardinality({d \in ds : Bin(d.score) = b})]

LanesPage ==
    [total |-> Cardinality(view.tickets),
     lane |-> [l \in LaneNames |->
        [mix |-> Cardinality({t \in view.tickets : view.session[t].lane = l}),
         actions |-> LaneActions(l),
         accepted |-> Share({f \in LaneActions(l) : f.action \in {"accept", "edit"}}, LaneActions(l)),
         bins |-> LaneBins(l)]]]

ReadLaneDecisions ==
    /\ view.pc = "decisions"
    /\ view' = [view EXCEPT !.pc = "shown", !.shown = LanesPage]
    /\ UNCHANGED <<tickets, feedback, underway, decisions, views>>

----------------------------------------------------------------------------

DashInit ==
    /\ tickets = [t \in Tickets |->
          IF t \in Legacy
          THEN [NoTicket EXCEPT !.status = "closed", !.dept = CHOOSE d \in Departments : TRUE]
          ELSE NoTicket]
    /\ feedback = {} /\ decisions = {} /\ view = NoPage /\ views = 0
    /\ underway = [c \in DeskCalls |-> None]

DashNext ==
    \/ \E t \in Tickets :
          \/ SubmitTicket(t) \/ GiveUp(t)
          \/ \E d \in Departments, s \in Scores \cup {None}, l \in LaneNames, b \in BOOLEAN :
                 Decide(t, d, s, l, b)
          \/ \E d \in Departments : Route(t, d)
    \/ \E c \in DeskCalls, t \in Tickets :
          \/ \E v \in Engineers \cup Admins, a \in Workbench, b \in BOOLEAN :
                Review(c, t, v, a, b)
          \/ \E v \in Engineers : Resolve(c, t, v)
          \/ Close(c, t)
    \/ \E c \in DeskCalls : CommitRequest(c)
    \/ \E a \in Simulated : SeedSynthetic(a)
    \/ OpenSummary \/ ReadSummaryFeedback
    \/ ShowReport
    \/ OpenLanes \/ ReadLaneFeedback \/ ReadLaneDecisions

DashSpec == DashInit /\ [][DashNext]_dashVars

Shown(kind) == view.kind = kind /\ view.pc = "shown"

\* The sum of f's values: as many pairs as each of them says, counted.
SumOver(f) == Cardinality(UNION {{x} \X (1 .. f[x]) : x \in DOMAIN f})

\* The summary adds up although its two SELECTs see the desk at different times: every
\* ticket has one status and every scored one a bucket, departments share out the tickets
\* that have one, and an engineer's row counts no action twice.
SummaryAddsUp ==
    Shown("summary") =>
        LET s == view.shown
        IN  /\ SumOver(s.status) = s.all.total
            /\ SumOver(s.buckets) = s.all.scored
            /\ SumOver([d \in Departments |-> s.dept[d].total]) <= s.all.total
            /\ SumOver(s.real.actions) + SumOver(s.synthetic.actions) = Cardinality(view.feedback)
            /\ SumOver([v \in Engineers |-> s.reviewer[v].resolved + s.reviewer[v].rejected +
                                            s.reviewer[v].escalated]) <= s.real.total

Overtaken(fs) == {f \in fs : f.overtaken}

IsSeeded(fs, t) == \E f \in fs : f.ticket = t /\ f.reviewer = SyntheticReviewer

\* The report's labels are people's verdicts on drafts that were shown: none is missing and none
\* counts twice in a bin or on a day, whichever tickets were escalated, closed or seeded since.
\* A ticket gives a second label only by a review that was overtaken, committed after another had
\* decided.  A label is set against the score the gate logged for that draft, unless the seed
\* script has put the first version's score in its place: it does so on live tickets that were
\* closed too, although the report is to be "only tickets the current gate scored".
ReportIsAboutDrafts ==
    Shown("report") =>
        LET r == view.shown
            fs == {f \in view.feedback : /\ view.session[f.ticket].draft
                                         /\ f.reviewer # SyntheticReviewer
                                         /\ f.action # "resolve"}
        IN  /\ r.labeled = Cardinality(fs)
            /\ r.labeled <= Cardinality({t \in Tickets : view.session[t].draft}) + Cardinality(Overtaken(fs))
            /\ SumOver([b \in Bins |-> r.calibration[b].count]) = r.labeled
            /\ SumOver([d \in DOMAIN r.trend |-> r.trend[d][2]]) = r.labeled
            /\ r.synthetic = 0
            /\ \A f \in fs : ~ IsSeeded(view.feedback, f.ticket) =>
                  \E d \in decisions : d.ticket = f.ticket /\ d.score = view.session[f.ticket].score

\* The lanes page attributes to a lane only what happened to its drafts, although its three
\* SELECTs see three moments: per ticket of the lane at most one score, and one action but for
\* reviews that were overtaken and for the seed script's; on the lane whose drafts nobody sees none
\* but the seed script's (which the page counts among "what engineers did with drafts in each
\* lane"); and no score in a bin the lane's threshold excludes, however the log rounds it.
LanesAreComparable ==
    Shown("lanes") =>
        \A l \in LaneNames :
            LET row == view.shown.lane[l]
                seeded == {f \in row.actions : f.reviewer = SyntheticReviewer}
            IN  /\ Cardinality(row.actions) <= row.mix + Cardinality(Overtaken(row.actions)) + Cardinality(seeded)
                /\ Cardinality(seeded) <= row.mix
                /\ SumOver(row.bins) <= row.mix
                /\ l = "escalate" => row.actions = seeded
                /\ \A b \in Bins : row.bins[b] > 0 =>
                      /\ l = "fast" => b >= Bin(FastScore)
                      /\ l = "assisted" => b >= Bin(AssistedScore) /\ b <= Bin(FastScore)

DashboardsAddUp == SummaryAddsUp /\ ReportIsAboutDrafts /\ LanesAreComparable
=============================================================================
