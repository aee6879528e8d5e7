----------------------------- MODULE MCSideBySide -----------------------------
(***************************************************************************)
(* The parts of TicketSense around the ticket pipeline, side by side: none *)
(* of them changes what another one reads, so that one run explores each   *)
(* from its own initial states.                                            *)
(*                                                                         *)
(* part names the component that is explored; every component keeps its    *)
(* own variables, which rest while another one is explored.  Messages is   *)
(* on top of Accounts, and thresholds have no state but the calibration    *)
(* drafts they are chosen from.                                            *)
(***************************************************************************)
EXTENDS Messages, Batches, UserStudy, Experiment, HumanAudit, AuthorAudit, GroundingAudit,
        Dashboard, Benchmark, TLC

CONSTANTS good, bad

VARIABLES
    part,
    calibration    \* the drafts thresholds are chosen from, or None

\* What each part leaves alone, in groups.
webVars == <<vars, studyVars>>

scriptVars == <<batchVars, experimentVars>>

auditVars == <<humanVars, authorVars>>

evidenceVars == <<groundingVars, dashVars, makingVars>>

Outside == <<part, calibration>>

sideVars == <<Outside, webVars, scriptVars, auditVars, evidenceVars>>

----------------------------------------------------------------------------
(* Scripts over the benchmark: two processes, of which any two jobs but drafting may overlap. *)

MCReplies == {good, bad}

MCRatings == {[label |-> "A", critical |-> TRUE]}

ASSUME BatchAssumptionHolds == BatchAssumption

----------------------------------------------------------------------------
(* The user study: two participants, the second of whom answers, with two requests in flight. *)

StudyTicket(id, g) == [id |-> id, cell |-> "c", group |-> g]

StudyLanes ==
    [v1 |-> [t1 |-> "fast", t2 |-> "assisted", t3 |-> "escalate"],
     v2 |-> [t1 |-> "escalate", t2 |-> "assisted", t3 |-> "escalate"]]

MCStudyTickets == {StudyTicket("t1", 1), StudyTicket("t2", 1), StudyTicket("t3", 2)}

MCSlots == <<"c">>

ASSUME StudyAssumptionHolds == StudyAssumption

\* Nobody takes part.
NoStudy ==
    /\ sets = None /\ active \in {v \in ThresholdSets : v = "v1"} /\ people = <<>> /\ setups = {}
    /\ call = [r \in Calls |-> NoCall] /\ studyClock = 0 /\ overlap = FALSE

----------------------------------------------------------------------------
(* Accounts and messages: four requests, two of them at a time. *)

Account(email, role) == [email |-> email, role |-> role, active |-> TRUE]

Demo(email, role) == [email |-> email, role |-> role]

Body(role, isActive) == [role |-> role, active |-> isActive]

MCInitialUsers == <<Account("ada", "admin"), Account("eve", "department_engineer")>>

MCDemoUsers == <<Demo("eve", "department_engineer"), Demo("bob", "admin")>>

MCBodies == {Body("end_user", None), Body(None, FALSE)}

\* Nobody has an account and nothing happens.
Silent ==
    /\ users = <<>> /\ req = [r \in Requests |-> Idle] /\ started = 0
    /\ messages = <<>> /\ clock = 0 /\ opened = {}

----------------------------------------------------------------------------
(* The frozen experiment: twelve tickets, a cell of every kind. *)

Entry(id, g, type, gold) == [id |-> id, group |-> g, type |-> type, department |-> "d", gold |-> gold]

MCRecords ==
    << Entry(1, "g1", "A", {"X"}), Entry(2, "g1", "A", {"X"}), Entry(3, "g2", "A", {"X"}),
       Entry(4, "g3", "A", {"Y"}), Entry(5, "g4", "B", {"Y"}),
       Entry(6, "g5", "A", {"Z"}), Entry(7, "g6", "A", {"Z"}),
       Entry(8, "g7", "A", {"V"}), Entry(9, "g8", "C2", {}),
       Entry(10, "g9", "C1", {"W"}), Entry(11, "g10", "C1", {"U"}), Entry(12, "g11", "C1", {"T"}) >>

Target(split, share) == [split |-> split, share |-> share]

Reviewed(failed, divided) ==
    [id \in 1 .. 12 |->
        IF id \in divided THEN [votes |-> <<TRUE, FALSE>>, adjudicated |-> TRUE]
        ELSE [votes |-> <<id \notin failed>>, adjudicated |-> None]]

Mode(twice, quiet, offline, source, scripts, edited) ==
    [overlap |-> twice, quiet |-> quiet, offline |-> offline, source |-> source,
     scripts |-> scripts, edited |-> edited]

MCModes ==
    {Mode(TRUE, FALSE, FALSE, "human", {"train", "table", "final"}, {"kb"}),
     Mode(FALSE, FALSE, TRUE, "human", {"train", "table", "final"}, {"selection"}),
     Mode(FALSE, TRUE, FALSE, "human", {"train", "table", "shift", "final"}, {}),
     Mode(FALSE, TRUE, TRUE, "judge", {"train", "table", "shift", "rehearse"}, {}),
     Mode(FALSE, TRUE, FALSE, "human", {"table", "release"}, {"tickets", "kb", "selection"})}

MCGrid == 1 .. 3

Quarter == [num |-> 1, den |-> 4]

OneHalf == [num |-> 1, den |-> 2]

TwoFifths == [num |-> 2, den |-> 5]

MCSeenTargets == <<Target("train", 300), Target("val", 100), Target("calib", 400), Target("test", 200)>>

MCC1Targets == <<Target("test", 400), Target("unseen", 600)>>

MCTopic == [a \in {"X", "Y", "Z", "V", "W", "U", "T"} |->
               IF a = "W" THEN "w" ELSE IF a = "U" THEN "u" ELSE "t"]

MCReviews == {Reviewed({8, 2, 11}, {3})}

MCJudgeOk == [id \in 1 .. 12 |-> id # 1]

MCSignals == [id \in 1 .. 12 |-> [answers |-> id # 12, prob |-> IF id \in {1, 10} THEN 1 ELSE 2,
                                  margin |-> IF id = 11 THEN None ELSE 1]]

MCScorings == {[id \in 1 .. 12 |-> IF id \in {1, 9} THEN 3 ELSE 2]}

MCProbGrid == {None, 2}

MCMarginGrid == {None, 1}

MCMinRows == [train |-> 2, val |-> 1, calib |-> 2]

ASSUME ExperimentAssumption == RecordsAssumption /\ ModesAssumption /\ CandidatesAssumption

\* Nothing is frozen and no script has run.
NoExperiment ==
    /\ bench = None /\ file = [n \in Files |-> 0] /\ record = None /\ amended = <<>> /\ log = <<>>
    /\ out = [artifact |-> Nothing, table |-> Nothing, guard |-> Nothing, result |-> Nothing,
              release |-> None, export |-> FALSE]
    /\ process = [p \in Processes |-> NoScript] /\ spent = [runs |-> 0, edits |-> 0, freezes |-> 0]
    /\ pins = {} /\ tested = 0 /\ mode \in {m \in Modes : m.overlap}

----------------------------------------------------------------------------
(* Thresholds: every calibration sample of five drafts. *)

Risk == INSTANCE RiskControl WITH ProbGrid <- {None, 1, 2}, MarginGrid <- {None}

ScoredDrafts == [score : Grid, ok : BOOLEAN, answers : {TRUE}, prob : {1, 2}, margin : {1}]

Before(d, e) ==
    \/ d.score < e.score
    \/ d.score = e.score /\ d.prob < e.prob
    \/ d.score = e.score /\ d.prob = e.prob /\ (e.ok => d.ok)

ScoredSamples == {s \in [1 .. 5 -> ScoredDrafts] : \A i \in 1 .. 4 : Before(s[i], s[i + 1])}

----------------------------------------------------------------------------
(* The audits of drafts by outside reviewers and by the authors. *)

Draft(id, g, type, nli, judge, second) ==
    [id |-> id, group |-> g, type |-> type, nli |-> nli, judge |-> judge, second |-> second]

Rating(q1, q2, q3, reason) == [q1 |-> q1, q2 |-> q2, q3 |-> q3, reason |-> reason]

MCDrafts ==
    {Draft(1, "g1", "A", "pass", "W", "W"), Draft(2, "g2", "A", "fail", "A", "R"),
     Draft(3, "g3", "A", "pass", "A", "A"), Draft(4, "g4", "B", "fail", "A", "A"),
     Draft(5, "g4", "B", "pass", "A", "A"), Draft(6, "g5", "A", "pass", "A", "A")}

MCTypeOrder == <<"A", "B">>

\* The random part: none in the samples of two, which alone go to reviewers, two cases of two
\* types, one, and four, of which B has only one.
MCTargetShare == (2 :> <<1, 1, 0>>) @@ (3 :> <<1, 0, 0>>) @@ (4 :> <<1, 1, 1>>) @@ (5 :> <<1, 0, 0>>)

MCOpinions ==
    {Rating("A", "Fully", "Yes", FALSE), Rating("W", "Fully", "No", TRUE),
     Rating("W", "Fully", "No", FALSE)}

ASSUME HumanAssumptionHolds == HumanAssumption

\* No sample is drawn.
NoReviewers ==
    /\ manifest = None /\ pairOf = None /\ tally = None /\ procedure = "planned"
    /\ page = [r \in Reviewers |-> {}] /\ sent = [r \in Reviewers |-> <<>>]
    /\ handled = [exports |-> 0, files |-> 0]

MCAuthorRatings ==
    {Rating("W", "Fully", "No", TRUE), Rating("R", "Fully", "No", TRUE),
     Rating("U", "Partially", "No", TRUE)}

MCAgreedAnswers == [q1 |-> {"A", "W"}, q2 |-> {"Fully"}, q3 |-> {"No"}]

ASSUME AuthorAssumptionHolds == AuthorAssumption

----------------------------------------------------------------------------
(* The audit of the grounding check: four verdict functions of the second checker. *)

Claim(step, text, cited, support) == [step |-> step, text |-> text, cited |-> cited, support |-> support]

Checked(id, type, split, claims) == [id |-> id, type |-> type, split |-> split, claims |-> claims]

Verdicts(f) == [r \in {<<"a", "p">>, <<"b", "p">>, <<"c", "p">>, <<"c", "q">>, <<"d", "q">>} |-> f[r[1]]]

MCAuditedDrafts ==
    {Checked("d1", "A", "train", <<Claim(1, "a", "p", 5), Claim(1, "b", "p", 9), Claim(2, "c", "p", 0)>>),
     Checked("d2", "B", "dev", <<Claim(1, "c", "q", 3)>>),
     Checked("d3", "B", "dev", <<Claim(1, "b", "p", 3)>>),
     Checked("d4", "C", "test", <<Claim(1, "d", "q", 3)>>),
     Checked("d5", "C", "dev", <<>>)}

MCJudges ==
    {Verdicts([a |-> TRUE, b |-> TRUE, c |-> FALSE, d |-> TRUE]),
     Verdicts([a |-> FALSE, b |-> FALSE, c |-> FALSE, d |-> FALSE]),
     Verdicts([a |-> FALSE, b |-> TRUE, c |-> TRUE, d |-> TRUE]),
     Verdicts([a |-> FALSE, b |-> TRUE, c |-> None, d |-> FALSE])}

ASSUME GroundingAssumptionHolds == GroundingAssumption

\* No script has run.
NoChecks == GroundingInit /\ secondChecker = CHOOSE j \in Judges : TRUE

----------------------------------------------------------------------------
(* The dashboards: a live ticket and one of the first version, scores the log rounds onto a       *)
(* threshold from either side.                                                              *)

MCDeptOf == [e \in {"eve"} |-> "it"]

MCDayOf == [t1 |-> 1, v1 |-> 0]

ASSUME DashAssumptionHolds == DashAssumption

----------------------------------------------------------------------------
(* Making the benchmark: nine tickets over three articles, six language models. *)

Article(id, dept, served) == [id |-> id, department |-> dept, served |-> served]

Good(n) ==
    [json |-> TRUE, subject |-> TRUE, body |-> TRUE, question |-> TRUE, attachment |-> TRUE,
     copies |-> FALSE, logCopies |-> FALSE, text |-> n]

LlmOutputs ==
    << Good(1), Good(2), [Good(3) EXCEPT !.question = FALSE], [Good(4) EXCEPT !.logCopies = TRUE],
       [Good(5) EXCEPT !.json = FALSE], Good(6), [Good(7) EXCEPT !.copies = TRUE] >>

Seeds == {g * 100 + k * 10 + a : g \in 1 .. 9, k \in 0 .. 2, a \in 0 .. 2}

MCLlmModels == {1, 3} \X {0, 2, 5}

MCReplyOf ==
    [m \in MCLlmModels |->
        [s \in Seeds |-> [LlmOutputs[((s * m[1] + m[2]) % 7) + 1] EXCEPT !.text = IF m[2] = 0 THEN @ ELSE s]]]

MCArticles == {Article("x", "net", TRUE), Article("y", "net", TRUE), Article("z", "hr", FALSE)}

MCDepts == <<"hr", "net">>

MCTuningTargets == <<Target("train", 600), Target("dev", 200), Target("test", 200)>>

MCUnseenTargets == <<Target("unseen", 500), Target("test", 500)>>

ASSUME MakingAssumptionHolds == MakingAssumption

\* The generator has not run.
NoGenerator == MakingInit /\ llm = CHOOSE m \in LlmModels : TRUE

----------------------------------------------------------------------------

\* One part is in one of its initial states, the others rest; batches and the desk behind the
\* dashboards always begin.
SideInit ==
    /\ part \in {"messages", "batches", "study", "experiment", "risk", "human", "authors",
                 "grounding", "pages", "benchmark"}
    /\ BatchInit /\ AuthorInit /\ DashInit
    /\ IF part = "messages" THEN Init ELSE Silent
    /\ IF part = "study" THEN StudyInit ELSE NoStudy
    /\ IF part = "experiment" THEN ExperimentInit ELSE NoExperiment
    /\ IF part = "human" THEN HumanInit ELSE NoReviewers
    /\ IF part = "grounding" THEN GroundingInit ELSE NoChecks
    /\ IF part = "benchmark" THEN MakingInit ELSE NoGenerator
    /\ IF part = "risk" THEN calibration \in ScoredSamples ELSE calibration = None

People ==
    part = "messages" /\ Next /\ UNCHANGED <<Outside, studyVars, scriptVars, auditVars, evidenceVars>>
Batch ==
    part = "batches" /\ BatchNext /\ UNCHANGED <<Outside, webVars, experimentVars, auditVars, evidenceVars>>
Participants ==
    part = "study" /\ StudyNext /\ UNCHANGED <<Outside, vars, scriptVars, auditVars, evidenceVars>>
Evaluation ==
    part = "experiment" /\ ExperimentNext /\ UNCHANGED <<Outside, webVars, batchVars, auditVars, evidenceVars>>
Outsiders ==
    part = "human" /\ HumanNext /\ UNCHANGED <<Outside, webVars, scriptVars, authorVars, evidenceVars>>
Insiders ==
    part = "authors" /\ AuthorNext /\ UNCHANGED <<Outside, webVars, scriptVars, humanVars, evidenceVars>>
Checkers ==
    part = "grounding" /\ GroundingNext
    /\ UNCHANGED <<Outside, webVars, scriptVars, auditVars, dashVars, makingVars>>
Analysts ==
    part = "pages" /\ DashNext
    /\ UNCHANGED <<Outside, webVars, scriptVars, auditVars, groundingVars, makingVars>>
Generator ==
    part = "benchmark" /\ MakingNext
    /\ UNCHANGED <<Outside, webVars, scriptVars, auditVars, groundingVars, dashVars>>

SideNext ==
    \/ People \/ Batch \/ Participants \/ Evaluation \/ Outsiders
    \/ Insiders \/ Checkers \/ Analysts \/ Generator

ScriptRuns(p) ==
    part = "batches" /\ RunStep(p) /\ UNCHANGED <<Outside, webVars, experimentVars, auditVars, evidenceVars>>

\* The fairness of Batches: each process is scheduled, each request answered or given up.
SideSpec == SideInit /\ [][SideNext]_sideVars /\ \A p \in Procs : WF_sideVars(ScriptRuns(p))

----------------------------------------------------------------------------
(* The properties of the components; those of the modules that are extended are checked as their
   modules state them. *)

TypesOK ==
    /\ TypeOK /\ BatchTypeOK /\ StudyTypeOK /\ ExperimentTypeOK /\ HumanTypeOK /\ AuthorTypeOK
    /\ GroundingTypeOK /\ DashTypeOK /\ MakingTypeOK

\* Thresholds and guards keep what learn-then-test promises (RiskControl).
ThresholdsAreCertified == part = "risk" => Risk!IsWellChosen(calibration)
=============================================================================
