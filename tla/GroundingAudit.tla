---------------------------- MODULE GroundingAudit ----------------------------
(***************************************************************************)
(* The manual audit of the groundedness checkers (ai/grounding/): the      *)
(* sample of drafts (select_audit.py), the second automatic checker        *)
(* (llm_check.py), the short worksheets of doubtful and of sampled claims  *)
(* (select_doubtful.py), and the report that weights the auditors' labels  *)
(* back to every claim of the sample (audit_report.py).                    *)
(*                                                                         *)
(* Each script reads files the earlier ones wrote and may be run again at  *)
(* any time; select_doubtful.py writes four files and may die between two  *)
(* of them.  Draws are seeded in the code and arbitrary here.              *)
(***************************************************************************)
EXTENDS Absent, Rounding, Naturals, Sequences, FiniteSets, SequencesExt, FiniteSetsExt

CONSTANTS
    AuditedDrafts,    \* the database's drafts: [id, type, split, claims]; a claim is
                      \* [step, text, cited, support], supports in tenths
    NAudit,           \* drafts in the audit
    PerMember,        \* values of --agree-per-member, all positive
    Judges,           \* what the LLM may make of all the requests
    Labels,           \* what an auditor may write
    MaxAuditRuns,     \* bound on runs of the scripts
    MaxFills          \* bound on worksheets returned

VARIABLES
    secondChecker,    \* what the LLM answers to each request: temperature 0 and cached
    sample,     \* audit_sample_v1.json: chosen drafts in order
    checks,     \* llm-groundedness-v1.json
    writing,    \* select_doubtful.py at work: what it selected, files written; or None
    sheets,     \* audit_v1_<member>_short.csv
    key,        \* audit_v1_short_key.json, with the checks it was selected from
    report,     \* audit-v1.json, or None
    auditRuns, fills

groundingVars == <<secondChecker, sample, checks, writing, sheets, key, report, auditRuns, fills>>

Members == <<"R", "A", "S">>

MemberSet == ToSet(Members)

LlmRequest(c) == <<c.text, c.cited>>

LlmRequests == {LlmRequest(c) : c \in UNION {ToSet(d.claims) : d \in AuditedDrafts}}

Threshold == 5

GroundingAssumption ==
    /\ IsFiniteSet(AuditedDrafts)
    /\ \A d, e \in AuditedDrafts : d.id = e.id => d = e
    /\ \A d \in AuditedDrafts :
          d.claims \in Seq(ToSet(d.claims)) /\ \A c \in ToSet(d.claims) : c.support \in 0 .. 10
    /\ NAudit \in Nat /\ MaxAuditRuns \in Nat /\ MaxFills \in Nat
    /\ None \notin BOOLEAN
    /\ Judges \subseteq [LlmRequests -> BOOLEAN \cup {None}]
    /\ PerMember \subseteq Nat \ {0}

----------------------------------------------------------------------------
(* select_audit.py *)

Band(support) == Cardinality({cut \in {2, 5, 9} : support >= cut})

LowestSupport(d) ==
    CHOOSE s \in {c.support : c \in ToSet(d.claims)} : \A c \in ToSet(d.claims) : s <= c.support

\* load: drafts with claims, off the locked test split.
Loaded == {d \in AuditedDrafts : d.split # "test" /\ d.claims # <<>>}

Cell(d) == <<d.type, Band(LowestSupport(d))>>

\* Each cell's drafts in some order, one queue per cell.
Shuffles ==
    LET cells == SetToSeq({Cell(d) : d \in Loaded})
        orders(i) == SetToSeqs({d \in Loaded : Cell(d) = cells[i]})
    IN  {qs \in [DOMAIN cells -> UNION {orders(i) : i \in DOMAIN cells}] :
            \A i \in DOMAIN cells : qs[i] \in orders(i)}

Smaller(a, b) == IF a < b THEN a ELSE b

\* stratified: one draft of every cell per round, until there are n.  A turn is <<round, cell>>.
RoundRobin(queues, n) ==
    LET turns == {t \in (1 .. Cardinality(Loaded)) \X DOMAIN queues : t[1] <= Len(queues[t[2]])}
        ahead(t) == {u \in turns : u[1] < t[1] \/ (u[1] = t[1] /\ u[2] < t[2])}
        turn(k) == CHOOSE t \in turns : Cardinality(ahead(t)) = k - 1
    IN  [k \in 1 .. Smaller(n, Cardinality(turns)) |-> queues[turn(k)[2]][turn(k)[1]]]

SelectAudit ==
    /\ auditRuns < MaxAuditRuns
    /\ \E qs \in Shuffles : sample' = RoundRobin(qs, NAudit)
    /\ auditRuns' = auditRuns + 1
    /\ UNCHANGED <<secondChecker, checks, writing, sheets, key, report, fills>>

----------------------------------------------------------------------------
(* llm_check.py *)

\* check_claim: the verdict, None when the reply is unusable.
LlmVerdict(c) == secondChecker[LlmRequest(c)]

CheckRows(drafts) ==
    FlattenSeq([i \in DOMAIN drafts |->
        [j \in DOMAIN drafts[i].claims |->
            LET c == drafts[i].claims[j]
            IN  [draft |-> drafts[i].id, step |-> c.step, text |-> c.text,
                 support |-> c.support, llm |-> LlmVerdict(c)]]])

CheckClaims ==
    /\ auditRuns < MaxAuditRuns
    /\ sample # <<>>
    /\ checks' = CheckRows(sample)
    /\ auditRuns' = auditRuns + 1
    /\ UNCHANGED <<secondChecker, sample, writing, sheets, key, report, fills>>

----------------------------------------------------------------------------
(* select_doubtful.py *)

ClaimOf(r) == <<r.draft, r.step, r.text>>

\* Draft i of the check rows, counted from 0 in order of first appearance, goes to member i mod 3.
Owner(rows, draft) ==
    LET first == Min({i \in DOMAIN rows : rows[i].draft = draft})
        earlier == {rows[j].draft : j \in 1 .. first - 1}
    IN  Members[(Cardinality(earlier) % Len(Members)) + 1]

SaysSupported(r) == r.support >= Threshold

Disagree(r) == SaysSupported(r) # r.llm

\* The positions of the usable rows of member m.
Mine(rows, m) == {i \in DOMAIN rows : Owner(rows, rows[i].draft) = m /\ rows[i].llm # None}

\* p_include is kept to four places: it is counted here in ten-thousandths.
Certain == 10000

KeyRow(i, stratum, p) == [row |-> i, stratum |-> stratum, p |-> p]

\* Mutant: the share of the agreeing claims is taken of all the member's claims.
Weighted_OfAll(rows, m, sampled) ==
    {KeyRow(i, "disagree", Certain) : i \in {i \in Mine(rows, m) : Disagree(rows[i])}} \cup
    {KeyRow(i, "agree", Nearest(Certain * Cardinality(sampled), Cardinality(Mine(rows, m)))) : i \in sampled}

\* The rows selected and how likely each was to be: every doubtful claim is, and a sample of
\* those the checkers agree on.  (A tie that binary fractions cannot hold may be rounded
\* either way in the code.)
Weighted(rows, m, sampled) ==
    LET agreed == {i \in Mine(rows, m) : ~ Disagree(rows[i])}
    IN  {KeyRow(i, "disagree", Certain) : i \in Mine(rows, m) \ agreed} \cup
        {KeyRow(i, "agree", Nearest(Certain * Cardinality(sampled), Cardinality(agreed))) : i \in sampled}

\* The agreeing claims select may draw, for all members at once.
AgreeingSamples(rows, n) ==
    LET agreed(m) == {i \in Mine(rows, m) : ~ Disagree(rows[i])}
        mine == [m \in MemberSet |-> agreed(m)]
    IN  {s \in SUBSET UNION {mine[m] : m \in MemberSet} :
            \A m \in MemberSet :
                Cardinality(s \cap mine[m]) = Smaller(n, Cardinality(mine[m]))}

\* Every check must be of a claim of the sample: cited[...] raises otherwise.
SelectDoubtful(n) ==
    /\ writing = None
    /\ auditRuns < MaxAuditRuns
    /\ checks # <<>>
    /\ \A r \in ToSet(checks) :
          \E d \in ToSet(sample), c \in UNION {ToSet(e.claims) : e \in ToSet(sample)} :
              d.id = r.draft /\ c \in ToSet(d.claims) /\ <<c.step, c.text>> = <<r.step, r.text>>
    /\ \E s \in AgreeingSamples(checks, n) :
          writing' = [left |-> Members, from |-> checks,
                      rows |-> [m \in MemberSet |-> Weighted(checks, m, s \cap Mine(checks, m))]]
    /\ auditRuns' = auditRuns + 1
    /\ UNCHANGED <<secondChecker, sample, checks, sheets, key, report, fills>>

\* A member's worksheet, written anew: every claim of it, nothing filled in.  The rows
\* are shuffled in the file; their order is not kept here.
WriteSheet ==
    /\ writing # None
    /\ writing.left # <<>>
    /\ LET m == Head(writing.left)
       IN  sheets' = [sheets EXCEPT ![m] =
              [c \in {ClaimOf(writing.from[w.row]) : w \in writing.rows[m]} |-> ""]]
    /\ writing' = [writing EXCEPT !.left = Tail(@)]
    /\ UNCHANGED <<secondChecker, sample, checks, key, report, auditRuns, fills>>

\* The hidden key, last.
WriteKey ==
    /\ writing # None
    /\ writing.left = <<>>
    /\ key' = [from |-> writing.from, rows |-> writing.rows]
    /\ writing' = None
    /\ UNCHANGED <<secondChecker, sample, checks, sheets, report, auditRuns, fills>>

\* The script dies between two files.
DieSelecting ==
    /\ writing # None
    /\ writing' = None
    /\ UNCHANGED <<secondChecker, sample, checks, sheets, key, report, auditRuns, fills>>

\* Auditor m returns the worksheet, any rows of it left empty.
FillSheet(m) ==
    /\ fills < MaxFills
    /\ DOMAIN sheets[m] # {}
    /\ \E ls \in [DOMAIN sheets[m] -> Labels \cup {""}] : sheets' = [sheets EXCEPT ![m] = ls]
    /\ fills' = fills + 1
    /\ UNCHANGED <<secondChecker, sample, checks, writing, key, report, auditRuns>>

----------------------------------------------------------------------------
(* audit_report.py *)

\* load_labels: every row of the key with the label of its claim in the member's sheet.
Joined ==
    UNION {{[member |-> m, w |-> w, claim |-> key.from[w.row],
             human |-> LET c == ClaimOf(key.from[w.row])
                       IN  IF c \in DOMAIN sheets[m] THEN sheets[m][c] ELSE ""] :
            w \in key.rows[m]} : m \in MemberSet}

\* A sum of 1 / p_include, by how often each p_include is in it.
TotalWeight(xs) == [p \in {x.w.p : x \in xs} |-> Cardinality({x \in xs : x.w.p = p})]

HumanSays(x) == x.human = "supported"

NliSays(x) == x.claim.support >= Threshold

LlmSays(x) == x.claim.llm

\* checker_scores: the weighted numerators and denominators of its three rates.
\* yes: the claims the checker calls supported.
CheckerScores(judged, yes) ==
    LET wrong == {x \in judged : x.human = "not_supported"}
        right == {x \in judged : HumanSays(x)}
    IN  [right |-> TotalWeight((yes \cap right) \cup (wrong \ yes)), of |-> TotalWeight(right \cup wrong),
         falseSupported |-> TotalWeight(yes \cap wrong), ofNo |-> TotalWeight(wrong),
         falseUnsupported |-> TotalWeight(right \ yes), ofYes |-> TotalWeight(right)]

ReportBand(support) == Cardinality({cut \in {2, 5, 8} : support >= cut})

ReportOn(rows) ==
    LET labelled == {x \in rows : x.human # ""}
        judged == {x \in labelled : x.human # "unclear"}
        doubtful == {x \in judged : x.w.stratum = "disagree"}
        agreed == judged \ doubtful
    IN  [claims |-> Cardinality(rows), labelled |-> Cardinality(labelled),
         unclear |-> Cardinality(labelled) - Cardinality(judged),
         perMember |-> [m \in MemberSet |-> Cardinality({x \in labelled : x.member = m})],
         nli |-> CheckerScores(judged, {x \in judged : NliSays(x)}),
         llm |-> CheckerScores(judged, {x \in judged : LlmSays(x)}),
         doubtful |-> [n |-> Cardinality(doubtful),
                       nliRight |-> Cardinality({x \in doubtful : NliSays(x) = HumanSays(x)}),
                       llmRight |-> Cardinality({x \in doubtful : LlmSays(x) = HumanSays(x)})],
         agreed |-> [n |-> Cardinality(agreed),
                     wrong |-> TotalWeight({x \in agreed : NliSays(x) # HumanSays(x)})],
         bands |-> [b \in 0 .. 3 |-> Cardinality({x \in judged : ReportBand(x.claim.support) = b})]]

ReportGrounding ==
    /\ auditRuns < MaxAuditRuns
    /\ key # None
    /\ report' = ReportOn(Joined)
    /\ auditRuns' = auditRuns + 1
    /\ UNCHANGED <<secondChecker, sample, checks, writing, sheets, key, fills>>

----------------------------------------------------------------------------

NoSheet == [c \in {} |-> ""]

GroundingInit ==
    /\ secondChecker \in Judges
    /\ sample = <<>> /\ checks = <<>> /\ writing = None
    /\ sheets = [m \in MemberSet |-> NoSheet]
    /\ key = None /\ report = None
    /\ auditRuns = 0 /\ fills = 0

GroundingNext ==
    \/ SelectAudit
    \/ CheckClaims
    \/ \E n \in PerMember : SelectDoubtful(n)
    \/ WriteSheet
    \/ WriteKey
    \/ DieSelecting
    \/ \E m \in MemberSet : FillSheet(m)
    \/ ReportGrounding

GroundingSpec == GroundingInit /\ [][GroundingNext]_groundingVars

GroundingTypeOK ==
    /\ secondChecker \in [LlmRequests -> BOOLEAN \cup {None}]
    /\ ToSet(sample) \subseteq Loaded
    /\ Len(sample) <= NAudit
    /\ \A r \in ToSet(checks) : r.llm \in BOOLEAN \cup {None}
    /\ \A m \in MemberSet : \A c \in DOMAIN sheets[m] : sheets[m][c] \in Labels \cup {""}
    /\ auditRuns \in 0 .. MaxAuditRuns
    /\ fills \in 0 .. MaxFills

UsableRows(rows) == {i \in DOMAIN rows : rows[i].llm # None}

Selected(k) == UNION {{w.row : w \in k.rows[m]} : m \in MemberSet}

InStratum(k, m, stratum) == {w \in k.rows[m] : w.stratum = stratum}

\* What the audit samples stands for what it left out: every claim the checkers disagree on
\* is in the key and counts once.  The n sampled claims of a member stand for all the usable
\* claims of that member they were drawn from: each counts Certain / p times, and n * Certain / p
\* is their number but for the rounding of p, which is off by half of 1 / Certain at most.
\* Claims the second checker gave no verdict on are stood for by none.
WeightsCoverTheAudit ==
    key # None =>
        /\ \A i \in UsableRows(key.from) : Disagree(key.from[i]) => i \in Selected(key)
        /\ \A m \in MemberSet :
              LET doubtful == InStratum(key, m, "disagree")
                  sampled == InStratum(key, m, "agree")
                  agreed == Cardinality(Mine(key.from, m)) - Cardinality(doubtful)
              IN  /\ \A w \in doubtful : w.p = Certain
                  /\ agreed > 0 => sampled # {}
                  /\ \A w \in sampled :
                        2 * (Certain * Cardinality(sampled) - w.p * agreed) \in - agreed .. agreed

\* The report's parts add up, whichever labels are missing and whichever run of
\* select_doubtful died: on a doubtful claim exactly one checker is right, every judged
\* claim is in one band and both checkers are scored on the same claims.  It rests on the three
\* scripts cutting the entailment score at the same place.
ReportAddsUp ==
    report # None =>
        /\ report.doubtful.nliRight + report.doubtful.llmRight = report.doubtful.n
        /\ report.doubtful.n + report.agreed.n = report.labelled - report.unclear
        /\ MapThenSumSet(LAMBDA b : report.bands[b], 0 .. 3) = report.labelled - report.unclear
        /\ MapThenSumSet(LAMBDA m : report.perMember[m], MemberSet) = report.labelled
        /\ report.nli.of = report.llm.of
        /\ report.nli.ofNo (+) report.nli.ofYes = report.nli.of

\* Every cell of (type, lowest support) is in a sample that has room for it, and the short
\* worksheets split the drafts over the members as the sample's order does.
AuditIsStratified ==
    /\ (sample # <<>> /\ NAudit >= Cardinality({Cell(d) : d \in Loaded})) =>
          \A d \in Loaded : \E e \in ToSet(sample) : Cell(e) = Cell(d)
    /\ (checks # <<>> /\ checks = CheckRows(sample)) =>
          \A i \in DOMAIN sample : Owner(checks, sample[i].id) = Members[((i - 1) % 3) + 1]

\* The audit of the grounding check draws from every kind of draft, weighs what it draws and
\* reports on both checkers alike.
GroundingAuditIsSound == WeightsCoverTheAudit /\ ReportAddsUp /\ AuditIsStratified
=============================================================================
