------------------------------- MODULE Pipeline -------------------------------
(***************************************************************************)
(* One ticket's run through the drafting pipeline (ai/graph/pipeline.py,   *)
(* nodes.py) and what backend/app/services/pipeline.py stores of it, while *)
(* the knowledge base is edited and reloaded under it.                     *)
(*                                                                         *)
(* The run keeps its state in memory and one transaction open from the     *)
(* first read to its single commit; the rows of the retrieval log are      *)
(* inserted early and reference chunks and articles by foreign key.  The   *)
(* models (classifier, drafter, entailment, confidence) answer anything    *)
(* their types allow.                                                      *)
(***************************************************************************)
EXTENDS KnowledgeBase, Redaction, Retrieval, Drafting, Rounding

CONSTANTS
    Tickets,        \* what a ticket may contain: its texts, and its attachment's
    Scorings,       \* scores retrieval's models may give: keyword, dense, rerank, probe
    Replies,        \* what the drafting model may answer
    Probs,          \* how certain the classifier may be
    Thresholds,     \* threshold sets that may be active
    MaxScore,       \* confidence scores are 0 .. MaxScore
    Grain,          \* scores that share one stored value
    None            \* NULL, or an absent signal

\* A number that is stored as it is: a multiple of the grain.
OnGrid(score) == \E k \in 0 .. MaxScore : score = k * Grain

\* Thresholds are candidates of risk_control's DEFAULT_GRID, which has two places.
\* A reply is the JSON object the drafter was asked for ("text": anything else).
ASSUME PipelineAssumption ==
    /\ MaxScore \in Nat /\ Grain \in Nat \ {0} /\ OnGrid(MaxScore)
    /\ \A t \in Thresholds :
          (t.fast # None => OnGrid(t.fast)) /\ (t.assisted # None => OnGrid(t.assisted))
    /\ Certain \in Nat /\ MaxSteps \in Nat
    /\ \A s \in Scorings :
          s.keyword \in [DOMAIN Chunks -> Nat] /\ s.dense \in [DOMAIN Chunks -> Nat]
          /\ s.rerank \in [DOMAIN Chunks -> Nat]
    /\ \A r \in Replies :
          /\ r.form \in {"object", "text"} /\ r.canAnswer \in BOOLEAN
          /\ Len(r.steps) \in Nat /\ DOMAIN r.steps = 1 .. Len(r.steps)
    /\ Tickets \subseteq [subject : Seq(Word), description : Seq(Word), attachment : Seq(Word)]

VARIABLES
    ticket,    \* the ticket as submitted
    mem,       \* the run: its pc and LangGraph state
    db         \* what the run has committed: ticket row, draft, decision, retrieval log

vars == <<kb, ingest, held, ticket, mem, db>>

PCs == {"queued", "extracted", "redacted", "classified", "routed", "keyword", "dense", "logging",
        "retrieved", "drafted", "checked", "signalled", "gated", "failed", "done"}

NoScores == [keyword |-> <<>>, dense |-> <<>>, rerank |-> <<>>, probe |-> None]

NoFields == [subject |-> <<>>, description |-> <<>>, attachment |-> <<>>]

NoDraft == [generated |-> FALSE, valid |-> FALSE, rejection |-> "model unavailable",
            canAnswer |-> "unknown", steps |-> <<>>, shown |-> FALSE]

\* thresholds: the set the decision names; first: the first of its reasons.
NoDecision == [score |-> None, lane |-> "escalate", thresholds |-> None, first |-> "none"]

\* sent: every word a model or a log was given.    logged: hits inserted so far.
Start == [pc |-> "queued", attachment |-> <<>>, fields |-> NoFields, map |-> <<>>, sent |-> {},
          prob |-> None, dept |-> None, kw |-> <<>>, dn |-> <<>>, rows |-> <<>>, hits |-> <<>>,
          scores |-> NoScores, logged |-> 0, draft |-> NoDraft, claims |-> <<>>, signals |-> None,
          gate |-> NoDecision]

NothingStored == [status |-> "submitted", lane |-> "none", tier |-> "none", reason |-> "none",
                  dept |-> None, reply |-> <<>>, citations |-> {}, draft |-> None, evidence |-> <<>>,
                  claims |-> <<>>, gate |-> None, signals |-> None, hits |-> <<>>]

IsDraft(d) ==
    /\ d.valid \in BOOLEAN
    /\ d.canAnswer \in {"yes", "no", "unknown"}
    /\ Len(d.steps) <= MaxSteps
    /\ d.steps # <<>> => d.valid

IsDecision(g) ==
    /\ g.score \in 0 .. MaxScore \cup {None}
    /\ g.lane \in {"fast", "assisted", "escalate"}
    /\ g.thresholds \in Thresholds \cup {None}
    /\ g.first \in {"none", "guard", "no model", "model"}

TypeOK ==
    /\ KBTypeOK
    /\ ticket \in Tickets
    /\ mem.pc \in PCs
    /\ mem.fields \in [subject : Seq(Word), description : Seq(Word), attachment : Seq(Word)]
    /\ mem.map \in Seq(Entry)
    /\ mem.dept \in Departments \cup {None}
    /\ mem.logged \in 0 .. Len(mem.rows)
    /\ IsDraft(mem.draft)
    /\ IsDecision(mem.gate)
    /\ db.status \in {"submitted", "drafted", "escalated"}
    /\ db.lane \in {"none", "fast", "assisted", "escalate"}
    /\ db.tier \in {"none", "senior", "admin"}
    /\ db.dept \in Departments \cup {None}
    /\ db.draft # None => IsDraft(db.draft)
    /\ db.gate # None => IsDecision(db.gate)

Init ==
    /\ KBInit
    /\ ticket \in Tickets
    /\ mem = Start
    /\ db = NothingStored

At(pc) == mem.pc = pc

Step(m) == mem' = m /\ UNCHANGED <<kb, ingest, ticket, db>>

Quietly(m) == Step(m) /\ UNCHANGED held

----------------------------------------------------------------------------
(* From the ticket's text to a department *)

\* OCR, PDF or log text; <<>> when there is no attachment or nothing in it.
Extract ==
    /\ At("queued")
    /\ Quietly([mem EXCEPT !.pc = "extracted", !.attachment = ticket.attachment])

\* The three fields of every ticket, with one map across them.
Redacted ==
    [t \in Tickets |->
        LET s == Redact(t.subject, <<>>)
            d == Redact(t.description, s.map)
            a == Redact(t.attachment, d.map)
        IN  [fields |-> [subject |-> s.words, description |-> d.words, attachment |-> a.words],
             map |-> a.map]]

RedactFields ==
    /\ At("extracted")
    /\ Quietly([mem EXCEPT !.pc = "redacted", !.fields = Redacted[ticket].fields, !.map = Redacted[ticket].map])

\* What every later node reads through _subject, _description and _attachment.
Given == ToSet(mem.fields.subject) \cup ToSet(mem.fields.description) \cup ToSet(mem.fields.attachment)

\* prob: the classifier's certainty, None when only the V1 model is there; the name it
\* predicts may be no department of this installation.
ClassifyAndRoute ==
    /\ At("redacted")
    /\ \E prob \in Probs \cup {None}, d \in Departments \cup {None} :
          Quietly([mem EXCEPT !.pc = "routed", !.sent = @ \cup Given, !.prob = prob, !.dept = d])

----------------------------------------------------------------------------
(* Retrieval *)

SkipRetrieval ==
    /\ At("routed")
    /\ mem.dept = None
    /\ Quietly([mem EXCEPT !.pc = "retrieved"])

\* The three queries are three statements: each sees what is committed when it starts.
SearchKeyword(s) ==
    /\ At("routed")
    /\ mem.dept # None
    /\ Quietly([mem EXCEPT !.pc = "keyword", !.scores = s,
                          !.kw = KeywordRows(Scope(mem.dept), s.keyword)])

\* The dense query, fusion and reranking.
SearchDense ==
    /\ At("keyword")
    /\ \E dn \in {DenseRows(Scope(mem.dept), mem.scores.dense)} :
          \E cs \in {Candidates(mem.kw, dn)} :
             \E hits \in {Hits(cs, mem.scores.rerank)} :
                Quietly([mem EXCEPT !.pc = "logging", !.dn = dn, !.hits = hits,
                                    !.rows = HitRows(mem.kw, dn, cs, hits)])

NextChunk == mem.rows[mem.logged + 1].chunk

\* The foreign-key check waits for a load that has deleted the chunk and not ended.
LogWaits ==
    /\ At("logging")
    /\ mem.logged < Len(mem.rows)
    /\ Chunks[NextChunk].article \in ingest.deleted
    /\ ChunkExists(NextChunk)

\* log_run: the next row of the log; its references are held until the run ends.
LogHit ==
    /\ At("logging")
    /\ mem.logged < Len(mem.rows)
    /\ ~ LogWaits
    /\ ChunkExists(NextChunk)
    /\ held' = held \cup {Chunks[NextChunk].article}
    /\ Step([mem EXCEPT !.logged = @ + 1])

\* The chunk is gone: the insert is refused and the run fails.
LogRefused ==
    /\ At("logging")
    /\ mem.logged < Len(mem.rows)
    /\ ~ ChunkExists(NextChunk)
    /\ held' = {}
    /\ Step([mem EXCEPT !.pc = "failed"])

LogComplete ==
    /\ At("logging")
    /\ mem.logged = Len(mem.rows)
    /\ Quietly([mem EXCEPT !.pc = "retrieved"])

----------------------------------------------------------------------------
(* Draft, claim check, signals, gate *)

\* The text of each numbered passage, as it was retrieved.
Texts(hits) == [n \in DOMAIN hits |-> Chunks[hits[n]]]

Drafted(reply, hits) ==
    LET v       == Validated(reply, Len(hits))
        blocked == IsShowable(v) /\ IsBlocked(v.steps, Texts(hits))
    IN  [generated |-> TRUE,
         valid |-> v.rejection = "none",
         rejection |-> IF blocked THEN "screen" ELSE IF v.rejection = "none" THEN "none" ELSE "schema",
         canAnswer |-> v.canAnswer,
         steps |-> v.steps,
         shown |-> IsShowable(v) /\ ~ blocked]

Draft(reply) ==
    /\ At("retrieved")
    /\ Quietly([mem EXCEPT !.pc = "drafted", !.draft = Drafted(reply, mem.hits)])

\* LLMError: the run goes on without a draft.
DraftUnavailable ==
    /\ At("retrieved")
    /\ Quietly([mem EXCEPT !.pc = "drafted"])

Check ==
    /\ At("drafted")
    /\ IF mem.draft.shown
       THEN \E entails \in [DOMAIN mem.hits -> 0 .. Certain], quotes \in SUBSET DOMAIN mem.hits :
               Quietly([mem EXCEPT !.pc = "checked", !.claims = Checked(mem.draft.steps, entails, quotes)])
       ELSE Quietly([mem EXCEPT !.pc = "checked"])

Signals ==
    /\ At("checked")
    /\ Quietly([mem EXCEPT !.pc = "signalled",
                           !.signals = SignalsOf(mem.draft, mem.claims, mem.rows, mem.scores.dense,
                                                 mem.scores.probe, mem.prob, None)])

Below(signal, least) == least # None /\ (signal = None \/ signal < least)

\* guard_reasons
Guarded(signals, t) ==
    /\ t # None
    /\ Below(signals.deptProb, t.minDeptProb) \/ Below(signals.probeMargin, t.minProbeMargin)

Reaches(score, least) == least # None /\ score >= least

\* round(score, 4)
Rounded(score) == IF score = None THEN None ELSE RoundedTo(score, Grain)

\* decide: score None when no confidence model is deployed.  The lane follows from the whole
\* score, four places of it are kept.
Decision(score, shown, signals, t) ==
    [score |-> Rounded(score),
     thresholds |-> t,
     first |-> IF score = None THEN "no model" ELSE IF Guarded(signals, t) THEN "guard" ELSE "model",
     lane |-> IF score = None \/ ~ shown \/ t = None \/ Guarded(signals, t) THEN "escalate"
              ELSE IF Reaches(score, t.fast) THEN "fast"
              ELSE IF Reaches(score, t.assisted) THEN "assisted"
              ELSE "escalate"]

Gate ==
    /\ At("signalled")
    /\ \E score \in 0 .. MaxScore \cup {None}, t \in Thresholds \cup {None} :
          Quietly([mem EXCEPT !.pc = "gated",
                              !.gate = Decision(score, mem.draft.shown, mem.signals, t)])

----------------------------------------------------------------------------
(* services/pipeline.py: what is stored, in one commit *)

\* Mutant: whether the draft answers is asked before whether it is valid.
Reason_AnswerFirst ==
    IF mem.draft.canAnswer = "no" THEN "unanswered"
    ELSE IF mem.draft.rejection # "none" THEN "rejected"
    ELSE IF mem.gate.thresholds = None THEN "no thresholds"
    ELSE IF mem.gate.first = "guard" THEN "guard"
    ELSE "below"

\* _escalation_reason
Reason ==
    IF mem.draft.rejection # "none" THEN "rejected"
    ELSE IF mem.draft.canAnswer = "no" THEN "unanswered"
    ELSE IF mem.gate.thresholds = None THEN "no thresholds"
    ELSE IF mem.gate.first = "guard" THEN "guard"
    ELSE "below"

ToAdmin(row, reason) ==
    [row EXCEPT !.status = "escalated", !.lane = "escalate", !.tier = "admin", !.reason = reason]

\* The retrieval log, which is part of the same transaction.
WithLog(row) == [row EXCEPT !.hits = mem.rows]

\* _draft_row, the claims, the gate decision and the signals; none of them if the
\* model was unreachable.
WithDraft(row) ==
    IF ~ mem.draft.generated THEN row
    ELSE [row EXCEPT !.draft = [valid |-> mem.draft.valid, canAnswer |-> mem.draft.canAnswer,
                                steps |-> mem.draft.steps],
                     !.evidence = mem.hits,
                     !.claims = mem.claims,
                     !.gate = mem.gate,
                     !.signals = mem.signals]

WordsOf(steps) == [i \in DOMAIN steps |-> [text |-> steps[i].text, secret |-> FALSE]]

Citations(steps) ==
    {[n |-> n, article |-> Chunks[mem.hits[n]].article] : n \in UNION {steps[i].cites : i \in DOMAIN steps}}

\* The reply the engineer edits has the real values back.
Shown(row) ==
    [row EXCEPT !.status = "drafted",
                !.reply = <<Restore(WordsOf(mem.draft.steps), mem.map)>>,
                !.citations = Citations(mem.draft.steps)]

Withheld(row) == [row EXCEPT !.status = "escalated", !.tier = "senior", !.reason = Reason]

\* gate_condition and the last part of _run.
Outcome ==
    LET row == [WithDraft(WithLog(db)) EXCEPT !.dept = mem.dept, !.lane = mem.gate.lane]
    IN  IF mem.dept = None THEN ToAdmin(WithLog(db), "unroutable")
        ELSE IF mem.gate.lane # "escalate" THEN Shown(row)
        ELSE Withheld(row)

Commit ==
    /\ At("gated")
    /\ db' = Outcome
    /\ mem' = [Start EXCEPT !.pc = "done"]
    /\ held' = {}
    /\ UNCHANGED <<kb, ingest, ticket>>

\* Any other exception in any stage; the transaction is rolled back.
Fail ==
    /\ mem.pc \notin {"failed", "done"}
    /\ held' = {}
    /\ Step([mem EXCEPT !.pc = "failed"])

\* run_ticket_pipeline, on its second session.
Recover ==
    /\ At("failed")
    /\ db' = ToAdmin(db, "error")
    /\ mem' = [Start EXCEPT !.pc = "done"]
    /\ UNCHANGED <<kb, ingest, held, ticket>>

----------------------------------------------------------------------------
(* PostgreSQL finds that the run and a load wait for each other, and aborts one. *)

Deadlocked == LogWaits /\ IngestWaits

\* Mutant: nothing breaks the cycle.
AbortOne_Never == FALSE /\ UNCHANGED vars

AbortOne ==
    /\ Deadlocked
    /\ \/ FailIngest /\ UNCHANGED <<ticket, mem, db>>
       \/ Fail

RunStep ==
    \/ Extract
    \/ RedactFields
    \/ ClassifyAndRoute
    \/ SkipRetrieval
    \/ \E s \in Scorings : SearchKeyword(s)
    \/ SearchDense
    \/ LogHit
    \/ LogRefused
    \/ LogComplete
    \/ \E reply \in Replies : Draft(reply)
    \/ DraftUnavailable
    \/ Check
    \/ Signals
    \/ Gate
    \/ Commit
    \/ Recover

LoadStep == KBNext /\ UNCHANGED <<ticket, mem, db>>

Next ==
    \/ RunStep
    \/ Fail
    \/ LoadStep
    \/ AbortOne

Spec == Init /\ [][Next]_vars

\* Every step of the run returns, a load in progress goes on unless it waits for the run, and
\* PostgreSQL breaks a cycle of waits. Nothing is assumed to fail.
Fairness ==
    /\ WF_vars(RunStep)
    /\ WF_vars(IngestStep /\ UNCHANGED <<ticket, mem, db>>)
    /\ WF_vars(AbortOne)

LiveSpec == Spec /\ Fairness

----------------------------------------------------------------------------
(* Properties *)

IsLiteral(w) == ~ w.text.raw

Typed == ticket.subject \o ticket.description \o ticket.attachment

\* No model and no log ever sees a value that a pattern recognises or that was written
\* as a secret, in any field; and the stored map turns the redacted fields back into
\* exactly what was submitted, unless the submitter typed a placeholder.
RedactionIsReversible ==
    /\ \A w \in mem.sent : ~ IsSensitive(w)
    /\ \A i, j \in DOMAIN mem.map :
          mem.map[i].placeholder = mem.map[j].placeholder \/ mem.map[i].original = mem.map[j].original => i = j
    /\ mem.pc \notin {"queued", "extracted", "failed", "done"} /\ (\A i \in DOMAIN Typed : ~ IsLiteral(Typed[i])) =>
          /\ Restore(mem.fields.subject, mem.map) = ticket.subject
          /\ Restore(mem.fields.description, mem.map) = ticket.description
          /\ Restore(mem.fields.attachment, mem.map) = ticket.attachment

IsFromFile(c) == Chunks[c].article \in ToSet(PathOrder)

\* The article as it was loaded when chunk c was made.
FileRow(c) == IF Chunks[c].load = 0 THEN InitialKB[Chunks[c].article]
              ELSE FileOf[Chunks[c].load][Chunks[c].article]

WeakestClaims == 3

\* The claims of the least support; of equal ones, those of the earlier steps.
StandsOutMore(claims, i, j) ==
    claims[i].support < claims[j].support \/ (claims[i].support = claims[j].support /\ i < j)

Weakest(claims) ==
    {claims[i] : i \in {j \in DOMAIN claims :
        Cardinality({k \in DOMAIN claims : StandsOutMore(claims, k, j)}) < WeakestClaims}}

\* GET /tickets/{id}/draft, for a ticket with a draft: what is withheld comes without its
\* steps and claims, and the claims with the least support stand out.
DraftView ==
    LET shown == db.reply # <<>>
        claims == IF shown THEN db.claims ELSE <<>>
    IN  [shown |-> shown,
         lane |-> IF db.lane # "none" THEN db.lane ELSE IF shown THEN "draft" ELSE "escalate",
         steps |-> IF shown THEN db.draft.steps ELSE <<>>,
         evidence |-> db.evidence,
         claims |-> claims,
         weakest |-> Weakest(claims)]

\* GET /tickets/{id}/decision: the decision and the thresholds it was made with.
DecisionView ==
    [lane |-> db.gate.lane, score |-> db.gate.score, reason |-> db.gate.first,
     fast |-> IF db.gate.thresholds = None THEN None ELSE db.gate.thresholds.fast,
     assisted |-> IF db.gate.thresholds = None THEN None ELSE db.gate.thresholds.assisted]

\* A draft that an engineer sees was validated: every step cites passages that were
\* retrieved, whatever is runnable in it stands in one of them outside a warning, the
\* passages are served articles of the ticket's department, the claims are those of its
\* steps, and the decision shown beside it names a certified threshold that the score, as
\* it is stored, reaches.
\* Of a draft that was withheld the workbench sees the passages and nothing else.
ShownDraftIsVetted ==
    db.draft # None =>
        IF ~ DraftView.shown
        THEN /\ db.status = "escalated" /\ DraftView.lane = "escalate"
             /\ DraftView.steps = <<>> /\ DraftView.claims = <<>> /\ DraftView.weakest = {}
        ELSE
        /\ db.status = "drafted" /\ db.draft.valid /\ db.draft.canAnswer = "yes"
        /\ DraftView.steps # <<>>
        /\ \A i \in DOMAIN DraftView.steps :
              LET step == DraftView.steps[i]
              IN  /\ step.cites # {} /\ step.cites \subseteq DOMAIN DraftView.evidence
                  /\ \A x \in step.runs \ BareUrls :
                        \E n \in step.cites : x \in Chunks[DraftView.evidence[n]].says
        /\ \A n \in DOMAIN DraftView.evidence :
              LET c == DraftView.evidence[n]
              IN  IsFromFile(c) => FileRow(c).dept = db.dept /\ FileRow(c).served
        /\ {c.step : c \in ToSet(DraftView.claims)} = DOMAIN DraftView.steps
        /\ \A c \in ToSet(DraftView.claims) \ DraftView.weakest :
              \A w \in DraftView.weakest : w.support <= c.support
        /\ DraftView.lane = DecisionView.lane
        /\ IF DecisionView.lane = "fast" THEN Reaches(DecisionView.score, DecisionView.fast)
           ELSE DecisionView.lane = "assisted" /\ Reaches(DecisionView.score, DecisionView.assisted)

\* Deleting an article sets what the log says of it to NULL.
StillThere(chunks) == SelectSeq(chunks, LAMBDA c : Exists(Chunks[c].article))

\* The passages of the stored log that are still there, as the evidence endpoint lists them.
LoggedEvidence ==
    LET k == Cardinality({i \in DOMAIN db.hits : db.hits[i].final # 0})
        Hit(n) == db.hits[CHOOSE i \in DOMAIN db.hits : db.hits[i].final = n].chunk
    IN  StillThere([n \in 1 .. k |-> Hit(n)])

\* GET /tickets/{id}/evidence: nothing before the ticket is routed; a run logs no more
\* passages than the endpoint lists.
EvidenceView == IF db.dept = None THEN <<>> ELSE LoggedEvidence

\* Passage n is one and the same chunk in the draft's evidence, in the retrieval log, in
\* the reply's citations and in the signals the score was computed from; and although
\* the searches are separate statements, no log mixes a passage with one of the load that
\* replaced it.  The evidence endpoint lists the same passages in the same order, less the
\* articles that are gone.
PassagesAgree ==
    db.draft # None =>
        /\ EvidenceView = StillThere(db.evidence)
        /\ \A n \in DOMAIN db.evidence :
              \E i \in DOMAIN db.hits : db.hits[i].final = n /\ db.hits[i].chunk = db.evidence[n]
        /\ \A c \in db.citations : c.article = Chunks[db.evidence[c.n]].article
        /\ db.signals.evidence =
              {db.evidence[n] : n \in UNION {db.draft.steps[i].cites : i \in DOMAIN db.draft.steps}}
        /\ \A i \in DOMAIN db.claims : db.claims[i].cited \subseteq DOMAIN db.evidence
        /\ \A i, j \in DOMAIN db.hits :
              LET c == Chunks[db.hits[i].chunk]
                  d == Chunks[db.hits[j].chunk]
              IN  c.load < d.load => FileOf[d.load][c.article].state = "absent"

\* GET /tickets/{id}/escalation: what the reviewer reads of it; tier "none" is the 404.
EscalationView == [tier |-> db.tier, reason |-> db.reason]

Exceeds(score, least) == least # None /\ score > least

\* The reason shown with an escalation can be checked against what was stored; a score that
\* is said to be below a threshold may be stored as equal to it, rounded, and no higher.
ReasonIsTrue ==
    EscalationView.tier = "senior" =>
        CASE EscalationView.reason = "rejected" ->
                \/ db.draft = None
                \/ ~ db.draft.valid
                \/ IsBlocked(db.draft.steps, Texts(db.evidence))
          [] EscalationView.reason = "unanswered" -> db.draft.valid /\ db.draft.canAnswer = "no"
          [] EscalationView.reason = "no thresholds" -> db.gate.thresholds = None
          [] EscalationView.reason = "guard" -> Guarded(db.signals, db.gate.thresholds)
          [] EscalationView.reason = "below" ->
                LET t == db.gate.thresholds
                IN  /\ db.draft.canAnswer = "yes"
                    /\ db.gate.score # None =>   \* "score unknown": no model is deployed
                          /\ ~ Guarded(db.signals, t)
                          /\ ~ Exceeds(db.gate.score, t.assisted) /\ ~ Exceeds(db.gate.score, t.fast)

\* Every ticket leaves the pipeline drafted or escalated, also when its run and a load
\* of the knowledge base wait for each other's rows.
EveryRunEnds == <>(db.status # "submitted")
=============================================================================
