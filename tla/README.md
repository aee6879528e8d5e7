# Verification of TicketSense

TicketSense takes support tickets, drafts a cited reply with a language model, and lets a
calibrated gate decide whether an engineer sees the draft or the ticket is escalated. Around
it stand the experiment that calibrates the gate (benchmark, judges, frozen splits, audits by
people) and the tools that run it. This directory holds TLA+ models of these parts, the TLC
configurations that check them, and theorems about them proved with TLAPS. Paths below are
relative to `src/`.

## The system

### What runs when a ticket is served

| Component | State | Operations | What makes it correct |
|---|---|---|---|
| Ticket lifecycle (`backend/app/services/ticket_lifecycle.py`) | `tickets.status` | `transition` along a table of arrows | only the arrows are ever taken; `closed` is terminal |
| Ticket desk (`backend/app/routers/tickets.py`, `escalations.py`) | rows of `tickets`, `feedback`, `escalations` | create, feedback (accept, edit, reject, escalate, doubt), approve, reject, resolve | a human decides every ticket once; an escalated ticket always has someone responsible; decisions rest on what was shown or assigned |
| Background runner (`backend/app/services/pipeline.py`) | an in-memory task per ticket, one transaction | run the graph, commit everything, or roll back and escalate | all or nothing; decides a ticket exactly once; leaves no ticket behind |
| Pipeline graph (`ai/graph`) | the state threaded through the nodes | extract, redact, classify, route, retrieve, draft, check, signals, gate, show or escalate | a draft that failed any stage is never shown; the stored evidence, reason and decision are the run's |
| Redaction and output screen (`ai/security`) | the placeholder map of a ticket | redact field by field, restore, screen a draft | nothing sensitive reaches a model; restoring gives the originals; whatever is runnable comes from a passage |
| Retrieval (`ai/retrieval`) | rows of the retrieval log | keyword and dense search, fusion, reranking, logging | passage *n* is one chunk wherever it is named |
| Drafting, claims, signals (`ai/generation/drafting.py`, `ai/grounding`, `ai/signals/features.py`) | none | validate a reply, split it into claims, build the signal vector | what survives validation is cited and checkable |
| Confidence gate (`ai/gate/service.py`, `backend/app/scripts/load_thresholds.py`) | rows of `gate_thresholds`, `gate_decisions` | load and activate a threshold set, decide a lane, log it | exactly one active set; every logged lane follows from the set it names |
| Knowledge base (`backend/app/routers/knowledge_base.py`, `ai/embeddings/embed_knowledge_base.py`) | articles and their chunks | create an article, load the files, prune | readers never see half of a load |
| Accounts (`backend/app/routers/users.py`, `auth.py`, `dependencies.py`) | rows of `users` | register, provision, change, seed, authenticate | one account per address; rights come from an admin |
| Messages (`backend/app/routers/messages.py`) | rows of `messages` | send, open a thread, badges | a badge counts what was not brought to its recipient |
| Dashboards (`backend/app/routers/analytics.py`) | none | summary, confidence report, lanes | the parts of a page add up and are about what they say |

### The experiment behind the gate

| Component | State | Operations | What makes it correct |
|---|---|---|---|
| Benchmark (`ai/benchmark/generate_tickets.py`, `splits.py`, `validate_benchmark.py`) | ticket file, split manifest | plan scenarios, ask for tickets and paraphrases, split, validate | what is promised by construction holds; no scenario or article is on two sides |
| Batches and LLM client (`ai/generation/batch_drafts.py`, `llm.py`, `ai/judge`, `ai/signals/build_features.py`, `model_side.py`) | SQLite response cache, rows of drafts, judge labels, signals | complete with retries, resume, commit every 25 rows | a killed batch repeats nothing and loses no link between draft, evidence and signals; it ends |
| Freeze and evaluation (`ai/benchmark/freeze.py`, `ai/confidence_model`, `ai/evaluation/locked_eval.py`, `ai/benchmark/release.py`) | freeze record, amendments, artifacts, access log | freeze, amend, train, tabulate, tune, rehearse, evaluate once, release | the locked test is read once, after the last choice; numbers rest on frozen data |
| Risk control (`ai/evaluation/risk_control.py`, `ai/confidence_model/shift.py`) | none | learn then test, shift guard | a threshold in use is certified |
| Annotation tool (`backend/app/routers/annotate.py`, `services/assignments.py`, `scripts/assign_annotations.py`) | assignments, labels | plan a batch, label online or from a file, adjudicate | labels are final; loads are even; a disagreement gets one third opinion, which decides |
| Audits of drafts (`ai/evaluation/human_audit.py`, `author_audit.py`, `backend/app/scripts/` of the same names) | sample, pages, returned files, reports | draw, export, collect, adjudicate | a later report only narrows an earlier one; every finding has two reviewers |
| Audit of the grounding check (`ai/grounding/select_audit.py`, `llm_check.py`, `select_doubtful.py`, `audit_report.py`) | sample, worksheets, key, report | sample, check, select, report | weights stand for all claims, whatever died in between |
| User study (`backend/app/routers/study.py`, `services/study.py`, `scripts/setup_study.py`, `ai/study`) | participants and tasks | set up, serve, submit, export | conditions are balanced; times are those of one showing and one answer |

How they interact. The API is one asyncio process; every request handler is a coroutine with
its own database session, so handlers interleave at every `await`. `create_ticket` commits a
row and registers an in-memory background task, which runs the graph in a session of its own,
reads the gate's active thresholds, and commits ticket, draft, evidence, gate decision and
escalation in one transaction. Reviewers, admins and engineers then act on the same rows. The
threshold loader, the knowledge base loader and every script of the experiment are separate
processes that share only the database, the response cache and files. PostgreSQL runs READ
COMMITTED, no handler locks a row on purpose, and no row has a version: a handler checks the
copy it read and its commit overwrites the columns it set.

Where it is hard: two handlers that read the same row before either commits; `created_at`,
which is the start of the transaction and not its commit, choosing the "latest" escalation;
a restart that loses in-memory tasks; a commit whose acknowledgement is lost; account changes
between an approval and the work it assigns; two loads of thresholds or articles at once, and
a load under a running pipeline, whose foreign keys lock rows in another order; scripts that
are killed between two writes and resumed; files that arrive late, twice or from a page made
for somebody else; a check of frozen data separated from its use. `PROJECT.json` lists these
and the rest under "hazards", each at its line, with the properties that watch them.

## Modules

| Module | Models | Used by |
|---|---|---|
| `TicketLifecycle` | the transition table and the abstract machine over committed statuses that `docs/ticket-lifecycle.md` describes | `TicketDesk` (as `Lifecycle`, instance with `status <- StatusOf`) |
| `TicketDesk` | the desk, the background runner, the parts of accounts that touch tickets | `MCTicketDesk`, `TicketDeskProofs` |
| `Redaction`, `Retrieval`, `Drafting` | operators: texts and placeholders; rankings, fusion and log rows; validation, screen, claims, signals | `Pipeline` |
| `KnowledgeBase` | articles, chunks, the loader and its locks | `Pipeline`, which extends it |
| `Pipeline` | one ticket's run through every node, what it stores, and the endpoints that show it, while the knowledge base changes | `MCPipeline`, `PipelineProofs` |
| `Rounding` | operators: `round()`, where a number is kept to fewer places than it was computed to | `GateService`, `Pipeline`, `GroundingAudit`, `Dashboard` |
| `GateService` | thresholds, loaders, the gate node and its log | `MCGateService`, `GateServiceProofs` |
| `Annotation` | planning, adjudicating, answering online, importing files, the target of a draft | `MCAnnotation`, `AnnotationProofs` |
| `Absent` | `None`, the value of what has none | all modules of `SideBySide` |
| `Accounts`, `Messages` | accounts under overlapping requests; messages on top of them | `MCSideBySide`, `WebProofs` |
| `Batches` | drafting, judge, features and token signals as killable processes over one response cache | `MCSideBySide`, `ScriptProofs` |
| `Splits`, `RiskControl` | operators: the greedy split and the selection of the locked test; learn-then-test with exact binomial tails, lanes, shift guard | `Experiment` (both), `Benchmark` (`Splits`), `MCSideBySide` (`RiskControl`), `SideProofs` |
| `Experiment` | freeze, amendments, the scripts that read frozen data, the access log, the release | `MCSideBySide`, `ScriptProofs` |
| `Benchmark` | the generator, the manifest, validation | `MCSideBySide`, `ScriptProofs` |
| `AuditRules` | operators: samples, pairs, finished ratings, what the ratings of a case amount to | `HumanAudit`, `AuthorAudit` |
| `HumanAudit`, `AuthorAudit` | the audits of drafts, by outside reviewers and by the authors | `MCSideBySide`, `AuditProofs` |
| `GroundingAudit` | the audit of the grounding check by a person | `MCSideBySide`, `AuditProofs` |
| `Dashboard` | the three pages of the analytics router, over a desk that goes on working | `MCSideBySide`, `WebProofs` |
| `UserStudy` | sets, set-up, serving, answering, export | `MCSideBySide`, `WebProofs` |
| `MC*` | instances for TLC | the `.cfg` files |
| `MCSideBySide` | the composition of the parts around the pipeline (`SideSpec`), and its instance | `SideBySide.cfg`, `SideProofs` |
| `TicketDeskProofs`, `PipelineProofs`, `GateServiceProofs`, `AnnotationProofs` | theorems and proofs about the module named | |
| `WebProofs`, `ScriptProofs`, `AuditProofs` | about `Messages` (with `Accounts`), `UserStudy` and `Dashboard`; about `Batches`, `Experiment` and `Benchmark`; about `HumanAudit`, `AuthorAudit` and `GroundingAudit` | `SideProofs` |
| `SideProofs` | about `SideSpec` and the thresholds of `RiskControl` | |

### TicketLifecycle

`NextStatuses` is `_VALID_TRANSITIONS`. Only committed statuses can be observed and a
transaction may take several arrows (the pipeline goes `submitted` to `drafted` and commits
once), so a step moves a ticket along a path whose inner nodes are statuses nobody is
responsible in (`OneTransaction`).

### TicketDesk

Variables `tickets`, `feedback`, `escalations` and `users` are the tables; `run` is each
ticket's background task; `req` is what each handler in flight has read. A handler is split
into the reads of one check, and its commit:

| Code | Actions |
|---|---|
| `create_ticket` | `Create` (the commit), `Schedule` (refresh and `add_task`; a refresh that raises registers nothing) |
| `_run`, `run_ticket_pipeline` | `StartRun`, `CommitRun` (acknowledged or not), `FailRun`, `LoadFailedTicket`, `EscalateFailedTicket`, `LoseRun` |
| `get_current_user`, `require_role`, `_require_reviewer` | `Authenticate` |
| `_get_ticket_or_403` | `LoadTicket` (`MayOpen`), `LoadAssignment` (`MayOpenEscalated`) |
| `submit_ticket_feedback` | `LoadTicket`, `CommitFeedback` |
| `resolve_escalation` | `LoadTicket`, `LoadAssignment`, `LoadLatestEscalation`, `CommitResolve` |
| `approve_escalation` | `LoadEscalation`, `LoadEscalatedTicket`, `LoadEngineer`, `CommitApprove` |
| `reject_escalation` | `LoadEscalation`, `LoadEscalatedTicket`, `CommitReject` |
| `update_user` | `UpdateUser` |
| any refusal or error before the commit | `Abort` |
| restart of the process | `Crash` |

The clock. `created_at` defaults to `now()`, the start of the transaction. A transaction that
inserts a feedback or escalation row takes a tick when it begins; it inserts at most one row
of each table, so the tick serves as both `created_at` and row id. Commit order and tick order
are independent, as in the code.

Abstractions. Texts, scores and reasons are left out. The department the classifier names and
the lane the gate chooses are arbitrary (`Pipeline` and `GateService` say which they are). A
draft is a Boolean, `ai_draft_reply IS NOT NULL`. The request validation of `feedback` (an edit
needs a text, a rejection a reason) is a refusal, so `Abort`. `update_user` is one step here;
`Accounts` splits it. Read-only endpoints are not actions: the admin queue is `InAdminQueue`,
an engineer's or customer's list `ListFor` (without the optional filters of the request), the
reply shown to the customer `FinalResponses`.

### Pipeline, KnowledgeBase, Redaction, Retrieval, Drafting

`mem` is the state LangGraph threads through the nodes, with a program counter; `db` is what
the run has committed (ticket, draft, evidence, claims, decision, signals, retrieval log); `kb`
and `ingest` are the committed articles and the load in progress, `held` the rows the run's
foreign keys lock.

| Code | Actions |
|---|---|
| `extract_attachment`, `redact` | `Extract`, `RedactFields` (operators of `Redaction`: the passes in their order, numbering, reuse of a placeholder across fields) |
| `classify`, `route` | `ClassifyAndRoute` |
| `retrieve` | `SkipRetrieval`, `SearchKeyword`, `SearchDense` (fusion and reranking: `Retrieval`), `LogHit`, `LogRefused`, `LogComplete` |
| `draft` | `Draft` (validation and screen: `Drafting`), `DraftUnavailable` |
| `check`, `signals`, `gate` | `Check`, `Signals`, `Gate` |
| `_run` after the graph, `_escalation_reason` | `Commit` |
| an exception in any node; `run_ticket_pipeline`'s error path | `Fail`, `Recover` |
| `POST /knowledge-base` | `CreateArticle` |
| `embed_knowledge_base.py` | `StartIngest`, `LoadArticle` (one per article), `FindStale`, `PruneArticle` (one per stale row, in any order), `CommitIngest`, `FailIngest` |
| PostgreSQL's deadlock detector | `AbortOne` (external) |
| draft, decision, evidence and escalation endpoints | `DraftView`, `DecisionView`, `EvidenceView` (over `LoggedEvidence`), `EscalationView` |

The two searches are separate statements and each sees what is committed when it starts. A run locks
chunk and article rows by foreign key as it logs its hits, in rank order; a load deletes chunks in
file order; they can wait for each other. The models (classifier, drafter, entailment, reranker,
confidence) answer anything their types allow. A text is a sequence of words, each raw or a
placeholder; what the regular expressions match is a kind, not characters. The lane follows from the
model's score, and the decision stores it `Rounded`. Ids of chunks are random, so their order is a
bound of the instance. A fused score is a sum of `Unit / (RrfK + rank)`, where the constant `Unit`
is a multiple of every such divisor, so that the sums of fractions are compared exactly, over
integers.

### GateService

`load_thresholds.py` is three steps of one transaction: the UPDATE takes its snapshot
(`StartLoad`), gets its row locks and skips rows another load deactivated (`Deactivate`), the
INSERT (`Insert`) waits for, and may collide with, other loads on the partial unique index
`uq_gate_thresholds_active`; then `CommitLoad`, or `FailLoad` at any point. The row-lock and
index behaviour is PostgreSQL's and is marked external. `Decide` is the gate node, which reads
the active set and computes a lane from that copy; `LogDecision` is the pipeline's commit and
`DropDecision` its failure. Scores are integers, `Grain` of them to one value of the log's four
decimals, and thresholds are such values: the lane is chosen by the score, the log keeps it
`Rounded`, so that a score just below a threshold is logged as equal to it. The score itself (the
confidence model) is an input.

### Annotation

Variables `assignments` and `labels` are the tables, keyed by (draft, annotator), which is
unique in the first and, through the assignment, in the second. `writer` is what each online
answer or import is about to store, `script` the local state of the running operator script.

| Code | Actions |
|---|---|
| `submit_label` | `Submit` (its checks), `Store` (its commit) |
| `import_csv` | `Import` (its checks; completed assignments are left out), `Store` |
| a violated constraint, a bad line of the file, any other error | `FailStore` (nothing is stored) |
| `plan`, `plan_assignments`, `choose_overlap` | `StartPlan`, then one `PickTwo` or `PickOne` per draft, `CommitScript` |
| `adjudicate`, `plan_adjudications` | `StartAdjudication`, `PickAdjudicator` per draft, `CommitScript` |
| an error of a script: too few annotators, a pair assigned already | `FailScript` |

`Targets` is `human_label` over the two sub-selects of `dataset.py`; it is a set because of
several adjudicators' labels the latest counts and the order of labels is not kept. A label is
`good` (A or M), `bad` (R or W) or `skip`. Ties of the planner are broken, and lists shuffled,
in any way. Assumed of the operator, and not enforced by the code: scripts run one at a time, a
draft is planned in one batch, only adjudication batches have names that begin with `adjud`, and,
unless `RerunEarly`, `adjudicate` waits for the answers of the adjudicators it named. Left out:
`served_at`, which nothing reads; reason codes, notes and times of a label.

### Accounts and Messages

`users` and `messages` are the tables in the order of insertion, `req` what each request or
script in flight has read and will write. `register`, `create_user` and `seed_demo_users`
check and insert later (`Register`, `CreateUser`, `Seed` and `SeedNext`, then `Created`, refused
by the unique constraint); `update_user` computes the columns its UPDATE will name from its copy
(`UpdateUser`) and writes only those (`Updated`, `Written`). `send_message` is `Send` and
`Sent`, `get_thread` `OpenThread` and `Opened`; contacts and badges are `Contacts` and
`Unread`. `Lost` ends any of them with nothing stored. Worth knowing: nothing keeps the last
admin from demoting themself; two overlapping openings can move `read_at` past the first time
(`models/message.py:25-26` calls it the first), which no property here demands; a message of
somebody who is no contact any more stays unread.

### Batches

A process is a run of one of four scripts, with its list of what is left to do (read once, at
the start), its rows not yet committed, and the request it is about to make. `Lookup`,
`Answered`, `Dropped` (a failed attempt), `Garbled` (an answer outside the retried exceptions)
and `Store` are `LLMClient.complete` and the SQLite cache; `AddRow`, `CommitBatch` and `Finish`
are the scripts' loops; `Kill` may strike at any step, and `Reload` replaces the knowledge base
between two runs. `TodoOf` is each script's query for work. Assumed: one drafting driver at a
time (two would draft twice). Rows that collide on a unique constraint take a batch of up to 25
with them; the answers stay cached.

### Benchmark, Splits, Experiment, RiskControl

`Benchmark` makes tickets as `generate_tickets.py` does: quotas and a plan of scenarios (as many of a
type as its share asks for, or one more, since the code rounds a product of floats up), one
`Attempt` after another against a model that is a function of the request's seed, `Die` at any
request, `SkipScenario` once the quota of its type is met, `WriteFile` or `DieWriting` in the middle
of it, `WriteManifest` and the validation of both. `Splits` is the greedy assignment of leakage
groups, largest first, to the split with the largest deficit, and the selection of the drafts
reviewers label, with shares in thousandths. `Experiment` continues from there: scripts are
processes that `Launch` (checking the frozen inputs and, for the final run, the access log),
`Verify` (opening the rows; the final run marks the log), then write their output (`WriteTable`,
`WriteArtifact`, `WriteGuard`, `Evaluate`, `Release`); `Edit`, `Amend`, `FreezeWrite` and `Stop`
strike between. Every output remembers which rows and which versions of the frozen files it rests
on. `RiskControl` is exact: the binomial tail is computed over integers, for rates given as
fractions. `LearnThenTest` takes the candidates by rank, the strictest first (`StrictToLenient`);
`Tested` is one turn of its loop.

### The audits

`AuditRules` has what the audits share: the stratified sample, pairs of reviewers, when a rating is
complete, and what the ratings of a case amount to. `HumanAudit`: `FreezeSample`, `ExportPages`,
`SendFile` (a reviewer's file, with the cases rated so far), `CollectFiles` (what it stores is
`Tally`), `ThirdPage`. `AuthorAudit`: `FreezeBatches`, `ExportBatch`, `Answer`, `Download` (a save,
or the final download that locks the page), `CollectRatings` (`Analysis`), `JointPage`,
`Adjudicated`. Of an author's files for a batch the first one saved is read last, as a browser's
second download sorts before it (`RatingOf`); a joint file has a row for every disputed question,
decided or not, and one left undecided takes an earlier ruling out of the log (`Adjudicated`).
`GroundingAudit`: `SelectAudit` (the sample of drafts, dealt over the members by rank),
`CheckClaims`, `SelectDoubtful`, `WriteSheet` and `WriteKey` (the files of one script, which may die
in between, `DieSelecting`), `FillSheet`, `ReportGrounding`. The drafts of the check rows go to the
members in turn, by first appearance (`Owner`). A row of the key has the `p_include` of its claim in
ten-thousandths, `Certain` of them being one, rounded as the script rounds it; weights are its
inverses. Assumed and not enforced: in the procedure `planned` of `HumanAudit` reviewers only add to
their files, pages are exported once and there is one third reviewer, who is in no pair (of two,
`collect` would let the one whose file comes last overrule the other, and a bound could widen
again); `--agree-per-member` is positive.

### Dashboard and UserStudy

`Dashboard` steps through the SELECTs of each page (`OpenSummary`, `ReadSummaryFeedback`,
`ShowReport`, `OpenLanes`, `ReadLaneFeedback`, `ReadLaneDecisions`) while tickets are decided,
routed (`Route`), reviewed, resolved and closed and `SeedSynthetic` (the synthetic confidence data)
writes beside them; the session keeps a ticket as it first loaded it. A review, a resolution or a
rejection is two steps: `Begin`, with the status that was read and checked, and `CommitRequest`,
over whatever the status is by then. So two reviews of a ticket can both be recorded; the row of the
later one is marked `overtaken`, which is no column but what the property needs to say so.
`UserStudy` builds the two sets, runs `setup_study` (`StartSetup`, `EndSetup`), serves (`Fetch`,
`Served`) and answers (`Submit`, `Submitted`) with a clock, and states what is exported, put on the
grading sheet and analysed. Pages and answers are those of `analytics.py` and of `export_study.py`
and `analyse.py` without medians and test statistics.

## Runs

| Run | Instance | Shows |
|---|---|---|
| `DeskConcurrent` | 1 ticket, 2 handlers, 4 requests, 3 accounts, 2 departments | what needs no serial execution: type, `SomeoneResponsible`, `PipelineDecidesOnce` (all or nothing, and once), `DecisionsAreJustified` (who and what every decision rests on; that the engineer is of the ticket's department is claimed for tickets the pipeline routed), `NoTicketStranded`, and the action property `DraftIsImmutable` |
| `DeskSerial` | 1 handler, 6 requests, 1 restart, failing error path | what the handlers' own checks guarantee when requests do not overlap: `ReviewedOnce`, `OneAnswer`, `QueuesAreTrue`, `DecisionIsFinal`, and that the desk implements `TicketLifecycle` (`FollowsLifecycle`) |
| `DeskLiveness` | 1 handler, 2 requests, 1 account change, under `FairSpec` | `EveryTicketIsTaken`: no failing stage leaves a ticket in an early status |
| `Pipeline` | 2 tickets to choose from, 3 article files and 1 article of an admin, 1 reload, 10 replies, under `LiveSpec` | type, `RedactionIsReversible`, `ShownDraftIsVetted`, `PassagesAgree`, `ReasonIsTrue`, and that every run ends (`EveryRunEnds`) |
| `GateService` | 3 loaders, 2 threshold sets, 1 draft, all inputs | `ExactlyOneActive`, `DecisionIsExplained` |
| `Annotation` | 2 drafts, 3 annotators, 2 answers or imports in flight | `PlansAreFair` (loads, overlap, queues), `AdjudicationIsDue`, `AdjudicatorDecides`, `AnswersStand` (labels and targets are never undone) |
| `SideBySide` | the components below, each from its own initial states | types; `AccountsAreKept` and `BadgesAreTrue` (accounts, messages); `DraftsAreReplayable`, `EveryScriptEnds` (batches); `StudyIsCounterbalanced`, `HandlingTimesAreTrue` (study); `LockedTestIsUsedOnce`, `NumbersRestOnFrozenData` (experiment); `ThresholdsAreCertified` (risk control); `SampleIsSound`, `BoundsOnlyCloseIn` (outside audit); `AdjudicationStaysWithinBounds` (authors); `GroundingAuditIsSound`; `DashboardsAddUp`; `BenchmarkIsSound` |
| `AdjudicatedTwice` | 1 draft, 4 annotators, `RerunEarly` | `AdjudicatorDecides` fails: a second run names a fourth reviewer, who disagrees with the third |
| `DeskReviewRace` | 2 handlers, 2 requests | `ReviewedOnce` fails when two reviews overlap |
| `DeskCloseRace` | 2 handlers, 4 requests | `ClosedIsTerminal` fails: a late review reopens a closed ticket |
| `DeskCrash` | 1 restart | `NoTicketStranded` fails: the task was only in memory |
| `DeskReassignment` | 1 account change | `OwnerCanAct` fails: an owner moved away keeps the escalation |

`SideBySide` is one run over ten components that share no state: `part` names the one explored. Each
is extended and keeps its own variables, which rest while another part is explored; thresholds have
no state but the drafts they are chosen from (`calibration`). What each of its properties says is in
the component's module.

Bounds of the desk. One ticket suffices: no handler reads or writes two tickets, and the tables'
rows of different tickets meet nowhere but in the clock, which only orders. Two handlers are the
smallest number that can overlap, and each race found needs no more. Four requests are a review, its
overlap, an admin's decision and a late commit; six let a ticket pass through review, doubt,
approval and resolution with two refused requests between. An admin and an engineer in each of two
departments are the smallest set in which somebody is not entitled. `MCMaxTick` is the number of
transactions that can take a tick, so the clock never stops one. A desk deadlocks when its bounded
requests are used up; `CHECK_DEADLOCK FALSE` is set for the desk for that reason alone. The accounts
`DeskConcurrent` starts from do not change; `DeskReassignment` and the theorems below let them
change, and the part of `DecisionsAreJustified` about the engineer's account is claimed until they
do. An unrouted ticket takes the department of the engineer an admin picks, and three overlapping
approvals can leave it with the department of one and assigned to another, so nothing is claimed of
its department. `FallbackMayFail = FALSE` in `DeskConcurrent` and `DeskLiveness` says the database
answers the error path and the refresh after a creation; without it a ticket can be stranded, as the
code only logs the second failure.

Bounds of the gate and the tool. For the gate, three loads over two versions include a load of a
version already stored, and scores 0 to 7 with thresholds 3 and 6 put a score below, on and above
each threshold. `Annotation` needs no bounds beyond its sets: every committed batch uses up pairs,
every stored label an assignment. Two drafts give an annotator a queue of two over two batches,
three annotators are the two of an overlap draft and their adjudicator, and two writers an online
answer beside an import. It never deadlocks, since `adjudicate` can always run and find nothing.

Bounds of the pipeline. One run: runs of different tickets share nothing but the knowledge base,
which another run only reads. The reload changes one article, drops the second and withholds the
third, so that every way a chunk can vanish under a run happens; two rankings put the same chunk
in different places. The tickets hold a value in two fields, a value that is secret in one place,
and a typed placeholder; the replies are good, uncited, blank, too long, citing what was not
retrieved, refusing, empty and no JSON.

Bounds of the others. `Batches`: two tickets and two processes, three starts, one reload, one retry,
a commit every two rows (25 in the code), so that a kill leaves rows on both sides of a commit.
`UserStudy`: three tickets of which two share a scenario, in every lane, two participants of whom
the second answers, two runs of the set-up, two requests at once, a clock of two ticks (a showing,
one that replaces it and the answer at three different times). `Messages`: four requests, two at a
time, one clock tick, bodies that demote and deactivate. `Experiment`: twelve tickets with a stratum
of every kind, two processes, four runs, one edit, two freezes, in five mixes (`Modes`) of scripts
and edits; `NumbersRestOnFrozenData` is claimed for those where files are edited only between runs.
`RiskControl`: every sample of five scored drafts. `HumanAudit`: six drafts of five scenarios and
two types, samples of two to five cases of which those of two are exported, once; the random part
(`TargetShare`) has no case, one, two of two types, or four, of which the one type can give a single
case; up to two pairs, three files. `AuthorAudit`: one case, three authors, one change of an answer,
one early save, up to three files of a page. `GroundingAudit`: five drafts with shared texts, four
verdict functions, four script runs, one agreeing claim of two drawn. `Dashboard`: one live ticket
and one of the first version, two people, two requests at once, two rows by people beside the
seed's, one page, after which the desk is left alone; one score just below the threshold of the fast
lane and one just above it, both logged as the threshold. Of the two actions that escalate one is
taken (doubt), and a draft is rejected by a simulated review only, which the pages count in the same
way. `Benchmark`: nine tickets over two served articles and one withheld, six models, two runs.
These end by using up their bounds, so `CHECK_DEADLOCK FALSE` is set.

Fairness. `FairSpec` has weak fairness of `RunStep(t)` and nothing else: the event loop keeps
running a registered task, and every await of it returns, since model calls have a timeout and the
database answers or raises. `Pipeline`'s `LiveSpec` has weak fairness of the run, of a load in
progress (`IngestStep`) and of `AbortOne`, PostgreSQL's deadlock detector, which runs whenever two
transactions wait for each other. `SideBySide` has weak fairness of each batch process: the
operating system schedules it, and each request is answered or times out. No user is assumed to act,
no run is assumed to succeed, and nothing assumes that a load is started or a script restarted.

## Proofs

`TicketDeskProofs`, from `UsersAssumption` and `BoundsAssumption` only, for all tickets, users,
departments, handlers and bounds:

- `TypeCorrect`: `Spec => []TypeOK`. The type invariant is inductive with `ReadsExist` (a row
  a handler or a task is about to use exists).
- `EscalatedIsOwned`: `Spec => []SomeoneResponsible`. This is the hazardous one: handlers
  overwrite each other's statuses and decisions. It is not inductive, as a rejection in flight
  could remove the only live escalation of a ticket it does not close, and an insert could
  overwrite a row. The strengthening `ResponsibleInv` adds `TicksAreOwned` (a tick in use by a
  transaction is nobody else's and no row carries it yet) and `DecidesItsOwn` (an admin's
  request holds an escalation of the ticket whose status it will write). One lemma per
  action shows that it is kept.
- `DecidedOnce`: `Spec => []PipelineDecidesOnce`, and `DraftStaysAsDecided`: `Spec =>
  DraftIsImmutable`, from one invariant, `OnceInv`. Beside `ResponsibleInv` it says that the tick
  of an open task carries no feedback (`FeedbackOwned`), that a task which may still commit finds
  its ticket as it was created (`RunsPending`), and that requests hold only decided tickets
  (`ReadsDecided`). Without the first a review could take an escalation from the pipeline's;
  without the others a commit could decide a ticket twice.
- `NobodyIsStranded`: if `MaxCrashes = 0` and `~ FallbackMayFail` then `Spec =>
  []NoTicketStranded`. `DeskCrash` shows that the first assumption is needed.

- `EveryDecisionHasItsGround`: `Spec => []DecisionsAreJustified`. A row names the reason of another
  row that some other transaction wrote, so the invariant, `GroundInv`, has a part for what a
  request has *read* (`ReadsGrounded`: a draft it saw is still there, an escalation it saw assigned
  is still assigned, a department it saw is still the ticket's if the pipeline routed it), beside
  the property for the rows themselves, and `FeedbackFree` (the tick of an open request carries no
  feedback, so nothing is overwritten). `Keeps` lists what no step takes away, and one lemma shows
  that `Keeps` preserves every ground that is held; what remains per action is the ground of the row
  it adds. The proof is what showed that the department of an unrouted ticket can differ from its
  engineer's.
- `FeedbackIsAppendOnly`: no step changes or removes a row of feedback.

The last part of `TicketDeskProofs` is about a desk that serves one request at a time (`Serial`, at
most one handler; tasks, crashes and the error path still interleave). `DeskReviewRace` and
`DeskCloseRace` show that the first and the last two need it.

- `NoSecondReview`, `DecisionsStay`, `ImplementsLifecycle`, `ClosedStays`: if `Serial` then `Spec =>
  []ReviewedOnce`, `Spec => DecisionIsFinal`, `Spec => FollowsLifecycle` (the refinement of
  `TicketLifecycle`) and `Spec => ClosedIsTerminal`. `SerialInv` adds to `GroundInv` that what a
  request read is current (`IsCurrent`) and that the rows of a ticket match its status
  (`RowsMatch`: a drafted ticket has no review yet, an escalated one has a pending or approved
  escalation). With it every commit takes an arrow of the table.
- `OneReply`: if also `MaxUserUpdates = 0` then `Spec => []OneAnswer`. By `RowOwned`, who
  reviewed or resolved was entitled to; an account change would undo that. The step that matters is
  that a resolution finds no earlier answer.
- `TrueQueues`: under the same two hypotheses, `Spec => []QueuesAreTrue`, also for engineers without
  a department (`DeskSerial` has one), whose list is that of the unrouted tickets (`Visible`).
  `DeskReassignment` shows that account changes break it.

`PipelineProofs`, from the assumptions of `Pipeline`, `Retrieval` and `KnowledgeBase` (scores are
numbers, thresholds have the decimals the log keeps, `Unit` is divisible, every file has chunks and
loads are numbered in order), for any knowledge base, loads, scores, replies and model answers, with
a load under way or not:

- `EveryReasonIsTrue`: `Spec => []ReasonIsTrue`; `AllPassagesAgree`: `Spec => []PassagesAgree`;
  and, if `FilesKeepTheirDepartment`, `EveryShownDraftIsVetted`: `Spec => []ShownDraftIsVetted`. The
  hypothesis says no file is moved to the folder of another department: the loader then keeps the
  row and its old department, which the run's filter trusts. Only the claim that what is cited
  was written for the ticket's department needs it.
  What both say of the score is about the rounded one that is stored: rounding a score that reaches
  a threshold reaches it too, and one below it comes out at most equal (`RoundingKeepsSides`).
- `LoggedRowsStay`: no step changes an article that the run's log references, though a load may be
  waiting to.

All four rest on `PipelineInv`. `KBInv` is about the articles and the load in progress: a row and
its pending copy are sound, no committed article is newer than the last load, none is older than
another whose load had a file for it, and a load has replaced what it has read. `HeldInv` says that
what the run's foreign keys lock is there and the load has not deleted it. `RunInv` says for every
program counter what the nodes so far have established (`SearchInv`, `LogInv`, `DraftInv`), and of
the stored row what `ReasonHolds`, `ReplyIsVetted` and `PassagesAreOnes` say. Without `HeldInv` a
load could replace a passage between its log row and the commit, and number *n* would be two
passages. The two searches are separate snapshots, so the hits of a run may be of two times; that
those which survive the log are of one time is `ReferencedAreOfOneTime`. The first part of the
module is about the operators of `Retrieval`, for every set of candidates and every score: a ranking
lists each candidate once (`RankedEnumerates`, a count of those ahead, since scores may tie), and
fusion and reranking list candidates of the two searches, none twice.

The second part of `PipelineProofs`, from the same assumptions (of a ticket: its three texts are
sequences of `Word`; `Word` itself says that nothing is recognised as a secret by its looks, only by
what stands before it, `RawKinds`):

- `RedactionIsSafe`: `Spec => []RedactionIsReversible`, for texts of any length with any values.
  `Redact`, `RunPass` and `Restore` are folds; each is unfolded once into the sequence of its
  intermediate results (`FoldExists`, `PassIsIterated`, `RedactIsIterated`, `RestoreIsIterated`),
  and what holds of all of them is shown by counting up to the length (`CountingUp`). Of the map,
  `MapIsSound`: one placeholder per value and one value per placeholder, because the numbers of a
  kind never exceed the number of its entries; a later pass or field only adds to it (`Continues`).
  Of the words, `Stage`: after *k* passes a word is itself or a placeholder on record for it, and
  none of the *k* passes has anything left to do on it, so a later pass never hides an earlier
  substitution and none of the six leaves a match behind (`RedactIs`). Of restoring, `Restored`: an
  entry put back never touches a word that was put back before, since no original is a placeholder,
  which is where the property needs that nobody typed one (`RestoreIs`). `RedactInv` then carries it
  through the run: what the run holds is the redaction of this ticket, and what it gave away is part
  of that.
- `PipelineTypes`: `Spec => []TypeOK`, from `PipelineInv`, `RedactInv` and `FormInv` (the draft,
  the decision and the stored row have the values their columns allow).

`GateServiceProofs`, from `ScoreAssumption` and `SetsAssumption`, for any number of overlapping
loads, threshold tables, drafts and scores:

- `TypeCorrect`: `Spec => []TypeOK`.
- `OneActiveSet`: `Spec => []ExactlyOneActive`. The strengthening `LoadsAreOrdered` says at
  most one load has inserted, it holds every active row, and what a load holds is still active.
- `DecisionsExplained`: `Spec => []DecisionIsExplained`, by `DecisionsAreRecorded` (what is
  logged is what the gate computed from a stored set, which stays stored). The lane follows from the
  score as the model gave it; of the rounded one that is logged it says what rounding leaves true.

`AnnotationProofs`, from `AnnotationAssumption` only, for any drafts, annotators and writers:

- `TypeCorrect`: `Spec => []TypeOK`, together with the order of the queues: a position is a
  number because the next one is the length of the queue plus one.
- `PlansFair`: `Spec => []PlansAreFair`, from three invariants of its parts. `QueuesOrdered`: a
  queue stays dense because a script's offsets are still the next ones when it commits
  (`OffsetsAreNext`). `PlansBalanced` is inductive over whole drafts. `OverlapDoubled` rests on
  `RowsDoubled` (the shape behind the count) and `PlanDoubled` (a plan's drafts stay nobody's
  until it commits).
- `AdjudicationsDue`: `Spec => []AdjudicationIsDue`, by `DisagreementsStand` (what the script
  read still holds when it commits, as labels are final).
- `AdjudicatorsDecide`: if `~ RerunEarly` then `Spec => []AdjudicatorDecides`, by
  `OneAdjudicator`: at most one adjudicator of a draft did not skip it. The step that needs
  thought is `AnsweredIsNotDue`, where an adjudicator's label makes a third one, so the draft is
  not due again. `AdjudicatedTwice` shows that the assumption is needed.
- `AnswersFinal`: if `~ RerunEarly` then `Spec => AnswersStand`. Labels stay because of the
  unique constraint in `Store` (`LabelsFinal`, without the assumption); targets because of
  `OneAdjudicator` before and after the step, and `AnswersAreAssigned` (nobody answers for an
  assignment they do not have, so a new assignment brings no label; `TargetsNeverFlip`).

`WebProofs`, about `Messages` and through it `Accounts`, from `SaneConstants` (the table
starts with one account per address; roles given are roles; `None` is no time), for any
accounts, demo list, requests and bounds:

- `TypeCorrect`, `OneAccountPerAddress`, `BadgesTrue`: `Spec => []...` for types, for one
  account per address, and for `BadgesAreTrue`. The inductive invariant `Inv` has three parts.
  `UsersOK`: rows are typed and addresses differ. `RequestsOK`: what a request holds is right for
  the tables as they are now, and stays so while they grow (`StaysOK`); in particular no script
  has collected an address twice, and whoever opens a thread loaded only messages sent by then.
  `MailOK`: a message is unread exactly while no opening is on record for it. Without
  `RequestsOK` a commit could write rows that nothing justifies.
- `AccountsKept`: `Spec => AccountsAreKept`. Only `Created` and `Updated` change accounts; for
  the first `Justified` says who stands behind the rows that are inserted, for the second
  `WrittenOK` that only what was asked is written.

Also `WebProofs`, about `Dashboard`, from `DashAssumption` (finitely many tickets, scores are
numbers and the cut-offs whole steps of the rounded score, the seed's reviewer is no person), for any
departments, people, tickets, feedback and page views:

- `PagesAddUp`: `DashSpec => []DashboardsAddUp`. A page is built from SELECTs of different times, so
  its parts could disagree. `DashInv` says what cannot change between them. `DeskInv`: a ticket has
  one verdict that was not overtaken and one logged decision, each about the draft and the lane it
  still has (`RowStep`: a ticket that was taken keeps both), a request under way read a status that
  fits what it will write (`UnderwayIsSound`), and a logged score, rounded, is still on the side of
  the thresholds that its lane says (`FitsLane`). `ViewInv`: what a page has loaded is of tickets in the
  lanes they are in now. Sums over rows become cardinalities of sets of pairs, so that a day or a
  bin is a part of a whole (`SumOver`).
- `DashTypes`: `DashSpec => []DashTypeOK`.

`ScriptProofs`, of `Experiment`, for any benchmark, any number of scripts, edits, freezes and
amendments:

- `LockedTestIsNeverReused`: if `RecordsAssumption` then `ExperimentSpec => []LockedTestIsUsedOnce`.
  The hypothesis is what the generator promises of its file: tickets are numbered, and paraphrases
  share their one gold article; `MCSideBySide` assumes it, so TLC evaluates it. `LockedTestInv`
  counts: the readings that happened and those about to happen never exceed the marks
  (`ReadingsAreMarked`), so a kill can only leave a mark too many; while final runs do not overlap,
  there is one at a time, and its mark is the only one (`OneFinalRun`); and whatever was learned was
  learned from the parts a script may see (`LearnedIsVisible`). That the test shares nothing with
  them is about the split itself, whatever order it takes the groups in: a leakage group, the
  closure over shared articles and paraphrases, is never divided (`GroupsAreNotDivided`).
- `EveryNumberRestsOnFrozenData`: `ExperimentSpec => []NumbersRestOnFrozenData`. Rows and articles
  are read after the files were verified. `FrozenInv` says that a script runs only once a freeze is
  on record (`FrozenFirst`) and that from its verification until it ends the files are as some
  freeze with its amendments pinned them (`ReadsAreFrozen`).
- `ExperimentTypes`: if `ModesAssumption` then `ExperimentSpec => []ExperimentTypeOK`.

Also `ScriptProofs`, of `Batches`, from `BatchAssumption` (bounds are numbers, one driver drafts at
a time, what the judge answers to a garbled request is not what a draft says; `MCSideBySide` assumes
it), for any tickets, processes, reloads and kills:

- `DraftsStayReplayable`: `BatchSpec => []DraftsAreReplayable`. The hazard is the cache: an answer
  is stored with `INSERT OR REPLACE`, so a later one could replace what a committed draft was made
  from. The invariant `BatchInv` says why it does not. `StoredRowsOK` types the tables and the
  cache. `SoundRun` is about one process: a request for a draft is made by the drafter alone and
  only for what the cache does not answer (`AtItem`), the tickets ahead of it have no draft
  (`TodoOK`), its rows not yet committed are as the cache says (`PendingOK`), and what it has behind
  it is stored or reported (`AllCovered`). `StaysSound` lists what the steps of others leave alone.
  A kill loses rows but no answers, so the next start finds the answer and makes the same row.
- `FinishedIsStored`: `BatchSpec => []FinishedMeansStored`, from `AllCovered` of a process that is done.
- `BatchTypes`: `BatchSpec => []BatchTypeOK`. The work list of a start is in ascending order and without
  repetition (`AscendingLists`), which is also why a batch of drafts does not collide with itself.

Also `ScriptProofs`, of `Benchmark`, from `MakingAssumption` (bounds are numbers, articles are finitely
many and found by id, the targets name the splits the code names), for any quotas, articles,
departments and models:

- `WhatIsGeneratedIsSound`: `MakingSpec => []BenchmarkIsSound`. The invariant is about the generator
  at work and the file separately, since a death leaves a prefix of the file (`PrefixIsSound`).
  `GeneratorIsSound`: the records made are those of the plan's scenarios (`FitsPlan`), as many of a
  type as are counted and never above its quota, and every request made lies before the next one in
  the order of scenario, paraphrase and seed (`Passed`), so none is made twice. `FileIsSound` keeps
  the first two for the file. That the split fits is about the code of `Splits` for any such file:
  the records of a leakage group are of one kind (`GroupsAreOfAKind`), and a greedy round puts a
  whole group in one split that its stratum may use (`FillIs`, `StratumIsFilled`), so that
  `AssignedIsValid`.
- `MakingTypes`: `MakingSpec => []MakingTypeOK`.

`WebProofs`, about `UserStudy`, from `StudyAssumption` (a ticket is found by its id, lanes are
lanes, the clock and the participants are bounded by numbers; `MCSideBySide` assumes it), for any
tickets, slots, participants, set-ups and requests:

- `StudyIsFair`: `StudySpec => []StudyIsCounterbalanced`. `Build` is a fold, unfolded once
  (`BuildIsIterated`); after *m* slots the two sets fit the first *m* slots and every scenario they
  hold is on record as used (`BuildFits`), so no later pick repeats one. A plan is two shuffles of
  these sets (`ShuffleIs`, `PlanIs`). The invariant `StudyInv` says that everybody's tasks are
  still those of the plan for their place in the order of codes (`PeopleOK`) and that a request in
  flight may still do what it decided on (`InFlight`); what others write leaves that alone
  (`KeepsTasks`). A set-up that counted before another one committed adds nobody. With the order
  alternating, a ticket of set A is met in the one condition by every second participant and in
  the other by the rest (`WhereMet`, `HalfAndHalf`).
- `TimesAreTrue`: `StudySpec => []HandlingTimesAreTrue`. What is graded and accepted follows from
  `StudyInv`. The times of overlapping requests need `InTurn`: what is stored is in the order of the
  tasks (`Timely`), what a request in flight will write keeps it so (`MayWrite`), and, since either of
  two requests may commit first, what the one will write fits what the other will (`Agree`). That the
  time counted is the one from the showing on record needs `OneAtATime`, about participants whose
  requests do not overlap: a request in flight read what is still stored (`IsCurrent`, `OnTime`).
- `StudyTypes`: `StudySpec => []StudyTypeOK`.

`AuditProofs`, for any reviewers, authors, cases, batches and ratings, and any number of files,
reports and pages, from `HumanAssumption` and `AuthorAssumption` (bounds are numbers, no rating is
`None`; for the sample, finitely many drafts, each of a listed type, types listed once each, and
targeted parts that fit in the sample, as `TARGET_SHARE` has them; `MCSideBySide` assumes both):

- `ReportsOnlyCloseIn`: `HumanSpec => BoundsOnlyCloseIn`. `SettledOutcomesStay`: more ratings of a case
  never unsettle a settled outcome, and a third opinion on a case is of no effect unless the two of
  its pair differ. So it is enough that finished ratings stay (`OpinionsStay`) and that the third
  opinion on a case is always the same person's (`ThirdIs`); the second is the part of
  `HumanInv` called `OneThird`, and the rest of it says that what was sent is on the page
  (`ReviewOK`) and that the last report is not ahead of the files (`ReportHolds`). The proof is what
  showed that `planned` has to exclude a second third reviewer.
- `SampleStaysSound`: `HumanSpec => []SampleIsSound`. `allocate_random` is two loops in each other.
  `TakesShare` and `NextType` say what one type takes, `AfterTypes` what the first *k* open types of
  a round have got: a full share each, or one each until nothing is left. So a round leaves the
  types `Level` (`RoundLevels`) and makes what is left smaller, and as many rounds as there are
  cases give all of them out (`AllocatesEvenly`), given as many eligible scenarios (`RoomForAll`).
  Quotas are added up as the cardinality of a set of slots `<<type, number>>`, one range of them for
  each type. The draws then go through the groups: after *k* types the sample holds the slots of
  those types, of different scenarios (`RandomPart`, `Extending`), and the four targeted groups add
  the rest without touching the random part (`SamplesSound`). What the frozen manifest keeps is
  `SampleInv`; that two reviewers stand behind an outcome follows from `HumanInv`. The loops are
  recursive functions: that such a function exists and is what its equation says is `Iterates`, by
  `CountingUp`.
- `AdjudicationKeepsUnanimity`: `AuthorSpec => []AdjudicationStaysWithinBounds`. The report and the
  joint outcomes may be made in either order and before more files arrive, so the invariant,
  `AuthorInv`, relates each to the files rather than to the other. `AgreementOK` and `DecidedOK` say
  that what either found unanimous is unanimous in the files as they are now, for every case whose
  ratings stand (`AllStand`), and `JointOK` that a joint page implies that every author rated the
  batch. Files are only ever added, and the first one is read last; so where an author's first file
  holds a rating it stays the author's (`RatingIs`, `Carried`), whatever later files say and whether
  the page was locked or not. Left out are only cases that an author's first file lacks and two
  later ones rate differently.
- `HumanTypes`, `AuthorTypes`: `HumanSpec => []HumanTypeOK`, `AuthorSpec => []AuthorTypeOK`.

Also `AuditProofs`, of `GroundingAudit`, from `GroundingAssumption` (finitely many drafts, found by id,
entailment in tenths, no sample of none):

- `AuditStandsForTheWhole`: `GroundingSpec => []GroundingAuditIsSound`. Four files are written and
  read one at a time, so `GroundingInv` has a part for each that holds however old it is.
  `SampleIsFair`: no more drafts than there is room for, none twice, one of every cell if there is
  room. Of the check rows only their form is kept, since a later sample may have replaced the one
  they are about. `WorkIsSound` and `KeyIsSound` are about select_doubtful at work and the key: the
  rows of a member are all doubtful claims, as certain, and a share of the agreeing ones, each with
  the probability drawn over whole, rounded (`IsWeighted`); so the weights stand for all usable
  claims of the member, but for the half of a ten-thousandth that rounding may be off
  (`DrawsAreWeighted`). `ReportParts` is about the report of any key and any labels. That the
  members are dealt the drafts in turn is `ChecksAre`: the rows of a draft are consecutive
  (`BlocksAre`).
- `GroundingTypes`: `GroundingSpec => []GroundingTypeOK`.

`SideProofs`, about `SideSpec`, the composition that `SideBySide` checks, from the assumptions of its
parts, all of which TLC evaluates there:

- `PartsAreImplemented`: `SideSpec` implies the specifications of `Batches`, both audits of drafts,
  `GroundingAudit`, `Dashboard` and `Benchmark`. While another part is explored they rest in an initial
  state, and every step of the composition is for each of them a step or a stutter (`PartsStepAlone`).
  `Messages`, the study and the experiment rest in a state that is none of theirs (nobody has an
  account, nobody takes part, nothing is frozen), so for them the invariants are carried over instead
  (`MessagesInSide`, `StudyInSide`, `ExperimentInSide`).
- `SideTypes`: if `SaneConstants` then `SideSpec => []TypesOK`.
- `SideServesTruly`: if `SaneConstants` then the properties of messages, accounts and the study;
  `SideScriptsAreSound`: those of drafts, experiment, audits, dashboards and benchmark, for
  `SideSpec`. With `SideTypes` these are all properties of the run but `EveryScriptEnds` and
  `ThresholdsAreCertified`.
- `ThresholdsEndTheirSequences`, for any drafts and any finite grid of numbers
  (`CandidatesAssumption`): the threshold of a lane ends its sequence of tests (`IsLastPass`, the
  first half of what `ThresholdsAreCertified` says of it). `StrictToLenient` lists every candidate
  once, in order (`CandidatesInOrder`: ranks are an injection of the grid into as many numbers, so
  every number is a rank); the loop is unfolded into its tests (`SearchIsIterated`); and `Searched`
  is its invariant: everything testable so far passed, up to a first failure if there was one.

Only model-checked:

- `EveryTicketIsTaken`, `EveryRunEnds` and `EveryScriptEnds`: liveness under fairness is out of
  TLAPS's reach.
- `ThresholdsAreCertified`. What is left of it is that a rejection bounds the share of unacceptable
  drafts by alpha. That is a fact about binomial tails (a median is at most the mean rounded up),
  an induction over the number of drafts and the binomial coefficients. (That a guard which may be
  chosen is affordable is how `BestGuards` defines it.)

## Findings

- Two overlapping reviews of one draft are both recorded, which the docstring of
  `submit_ticket_feedback` rules out (`DeskReviewRace`).
- A late review reopens a closed ticket; `transition` guards the copy, not the row
  (`DeskCloseRace`).
- A restart leaves a ticket `submitted` for good; nothing looks for it at startup
  (`DeskCrash`).
- Changing an account leaves its approved escalations with somebody who cannot act on them, out
  of the admin queue (`DeskReassignment`). An admin can still resolve them.
- `adjudicate`, run again before the third reviewer answered, names a fourth for the same draft,
  or fails its whole batch on the unique constraint (`AdjudicatedTwice`).

Not findings, but worth knowing; each is a condition under which a property above is stated:

- Desk and gate. An unrouted ticket whose admin picks an engineer without a department stays
  unrouted; that engineer does see it, as the filter `department == None` becomes `IS NULL`. The gate
  logs a rounded score, so an escalated draft's logged score can equal the threshold its reason says
  it is below, and a dashboard bin can lie above its lane's threshold. The active
  thresholds' `model_version` is compared with nothing. With no confidence model the reason of an
  escalation reads "score unknown below threshold".
- Pipeline. A submitter who types a placeholder such as `[EMAIL_1]` gets it replaced on the way
  back. A secret is recognised only beside its label. A reload during a run can make the run fail
  on a foreign key, or deadlock with it; the ticket then goes to an admin. After
  `--prune-stale` the evidence endpoint omits passages that a draft still cites.
- Knowledge base. An article keeps its department when its file moves to another one.
- Batches. Two drafting drivers at once draft twice; two judge or feature runs collide on a
  unique constraint. Invalid judge replies are cached, so a rerun skips them again.
- Experiment. `assisted` may be `None` while `fast` is certified; `shift.py:124` then takes
  `min(fast, None)`. A crash after the mark uses the locked test up; two final runs started
  together both pass the check. A freeze overwrites the record, and `verify` uses the latest
  amendment's articles even after a new record. `retrieval/evaluate.py:112` (`--include-test`)
  reads locked tickets without a mark in the log.
- Audits. Exporting again with another number of reviewers overwrites the pairs; an adjudication
  page may be made out to a member of the pair, or to a second third reviewer, whose file then
  overrules the first one's where it comes later. `_locked` looks at a page's flag and not at its
  time; a browser's second download sorts before the first, so an earlier file can stand behind a
  report. Running `collect` again empties the adjudication log. Running `select_doubtful` again
  overwrites filled worksheets. An author who leaves a case out of the first file and rates it
  differently in two later ones can move a finding.
- Audit of the grounding check. `audit_report.py:7` and `select_doubtful.py:13` speak of rates
  weighted back to all 495 claims. Claims the second checker gave no verdict on are in no stratum
  (`select_doubtful.py:40`), and `p_include` is kept to four decimals: of 130 agreeing claims, 15
  drawn stand for 129.98. A run that dies before the key leaves new sheets beside an old key, and
  the report joins the two by claim.
- Study. A second run of the set-up with another active threshold set changes the stimuli of
  later participants only. An overlapping fetch overwrites `served_at`, so the time counted can be
  shorter than the time worked (never negative, never into another task). `export_study.py:14` says
  "Escalations have no reply and are not graded; they appear in tasks.csv only"; a reply written
  before escalating is stored and put on the grading sheet (line 52), and only the analysis leaves
  it out.
- Dashboards. The synthetic seed picks every closed ticket with a department, so a live ticket
  whose escalation was rejected gets another score and a synthetic review. The override report, "only
  tickets the current gate scored" (`analytics.py:197`), then sets people's verdicts against a score
  the gate did not give, and the lanes page counts the seed's rows among "what engineers did with
  drafts in each lane" (`analytics.py:278`).

## Not modelled

- Floating-point models and statistics: the classifier, embeddings, reranker, entailment, feature
  arithmetic, logistic regression and calibration, the AURC, bootstrap intervals, agreement
  coefficients and hypothesis tests. They are functions of data without state of their own; where
  they feed a decision they are a choice of the model that uses them (`Pipeline`, `Experiment`,
  `GroundingAudit`).
- Regular expressions, prompts, personas, typos and other text. What a pattern recognises is a
  kind of word (`Redaction`, `Drafting`).
- Reading images, PDFs and logs (`ai/ocr`), parsing of article files, HTTP and JWT libraries.
- The web client, which keeps no state the server relies on.
- The first version's confidence scripts (`ai/confidence/train.py`, `features.py`, `predict.py`)
  and the red-team scripts: one pass over a file, called by nothing of the served system.
- Chunking and training scripts of the classifier; the layout of reports, tables and figures.
- `served_at` of annotations, latency medians, practice cases and timings of the audits: stored
  or shown, never decided on.
