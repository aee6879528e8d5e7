---------------------------- MODULE AuthorAudit ----------------------------
(***************************************************************************)
(* The audit by the three authors (backend/app/scripts/author_audit.py,    *)
(* ai/evaluation/author_audit.py): every author rates both batches on an   *)
(* offline page and sends its Excel file, collect reports agreement over   *)
(* all files, and a joint page for the disputed questions of a batch gives *)
(* a second table of outcomes.                                             *)
(*                                                                         *)
(* A page can be saved at any time; its final download locks it.  Every    *)
(* download has one name, so the browser calls the later ones "... (1)",   *)
(* "... (2)", which sort before the first.  The scripts read the files in  *)
(* the order of their names: _locked sorts them, and collect is given them *)
(* by a shell, which does.                                                 *)
(***************************************************************************)
EXTENDS AuditRules

CONSTANTS
    AuditCases,    \* the frozen sample of the outside audit
    Authors,
    AuditBatches,  \* the code has two
    AuthorRatings, \* finished ratings; see AuditRules
    AgreedAnswers, \* question -> the answers the authors may agree on
    MaxChanges, MaxSaves, MaxCollects, MaxDecisions,   \* bounds
    MaxDownloads   \* bound: files of one page, fewer than ten

AuthorAssumption == None \notin AuthorRatings /\ MaxDownloads \in Nat

VARIABLES
    batchOf,      \* manifest_hidden.json: case -> batch, or None
    exported,     \* the batches with pages
    answers,      \* author -> case -> the rating on the page, or None
    locked,       \* the <<author, batch>> whose page is locked
    downloads,    \* <<author, batch>> -> the files put in the returned folder, in the order saved
    agreement,    \* 04_agreement_report.json, or None
    rulings,      \* 05_adjudication_log.csv: <<case, question>> -> label, or None
    joint,        \* batch -> the adjudication page: case -> disputed questions, or None
    decided,      \* batch -> 06_adjudicated_outcomes, or None
    effort        \* answers changed, pages saved and reports made so far

authorVars ==
    <<batchOf, exported, answers, locked, downloads, agreement, rulings, joint, decided, effort>>

Questions == {"q1", "q2", "q3"}

Final == {"unanimous_positive", "unanimous_negative", "incomplete"}

AuthorTypeOK ==
    /\ batchOf # None => batchOf \in [AuditCases -> AuditBatches]
    /\ exported \subseteq AuditBatches
    /\ locked \subseteq Authors \X AuditBatches
    /\ \A f \in DOMAIN downloads : Len(downloads[f]) <= MaxDownloads
    /\ rulings # None => DOMAIN rulings \subseteq AuditCases \X Questions
    /\ \A b \in AuditBatches : decided[b] # None =>
          \A o \in Outcomes : Range(decided[b][o]) \subseteq
              Final \cup {"unresolved", "adjudicated_positive", "adjudicated_negative"}

AuthorInit ==
    /\ batchOf = None /\ exported = {} /\ locked = {}
    /\ answers = [a \in Authors |-> [d \in AuditCases |-> None]]
    /\ downloads = [f \in Authors \X AuditBatches |-> <<>>]
    /\ agreement = None /\ rulings = None
    /\ joint = [b \in AuditBatches |-> None]
    /\ decided = [b \in AuditBatches |-> None]
    /\ effort = [edits |-> 0, saves |-> 0, collects |-> 0, decisions |-> 0]

InBatch(b) == {d \in AuditCases : batchOf[d] = b}

\* freeze: batch 1 is what the outside audit gave to its first pair; once only.
FreezeBatches ==
    /\ batchOf = None
    /\ batchOf' \in [AuditCases -> AuditBatches]
    /\ UNCHANGED <<exported, answers, locked, downloads, agreement, rulings, joint, decided, effort>>

\* export
ExportBatch(b) ==
    /\ batchOf # None
    /\ b \notin exported
    /\ exported' = exported \cup {b}
    /\ UNCHANGED <<batchOf, answers, locked, downloads, agreement, rulings, joint, decided, effort>>

\* The page: an author answers a case, or changes the answer, until the page is locked.
Answer(a, d) ==
    /\ batchOf # None
    /\ batchOf[d] \in exported
    /\ <<a, batchOf[d]>> \notin locked
    /\ \/ answers[a][d] = None /\ effort' = effort
       \/ /\ answers[a][d] # None /\ effort.edits < MaxChanges
          /\ effort' = [effort EXCEPT !.edits = @ + 1]
    /\ \E r \in AuthorRatings \ {answers[a][d]} : answers' = [answers EXCEPT ![a][d] = r]
    /\ UNCHANGED <<batchOf, exported, locked, downloads, agreement, rulings, joint, decided>>

\* "Save Excel so far", or the final file once every case is finished.
Download(a, b, final) ==
    /\ b \in exported
    /\ Len(downloads[<<a, b>>]) < MaxDownloads
    /\ final => \A d \in InBatch(b) : answers[a][d] # None
    /\ \/ final /\ <<a, b>> \notin locked /\ effort' = effort
       \/ /\ ~ (final /\ <<a, b>> \notin locked) /\ effort.saves < MaxSaves
          /\ effort' = [effort EXCEPT !.saves = @ + 1]
    /\ locked' = IF final THEN locked \cup {<<a, b>>} ELSE locked
    /\ downloads' = [downloads EXCEPT ![<<a, b>>] = Append(@, answers[a])]
    /\ UNCHANGED <<batchOf, exported, answers, agreement, rulings, joint, decided>>

FilesOf(a, d) == downloads[<<a, batchOf[d]>>]

\* The files that hold a finished rating of the case.
Holding(a, d) == {i \in DOMAIN FilesOf(a, d) : FilesOf(a, d)[i][d] # None}

\* Mutant: the files in the order in which they were saved.
RatingOf_Latest(a, d) ==
    IF Holding(a, d) = {} THEN None ELSE FilesOf(a, d)[Max(Holding(a, d))][d]

\* An author's rating of a case: the files in the order of their names, a later row over an
\* earlier one, so that the first file saved comes last.
RatingOf(a, d) ==
    IF Holding(a, d) = {} THEN None
    ELSE FilesOf(a, d)[IF 1 \in Holding(a, d) THEN 1 ELSE Max(Holding(a, d))][d]

RatingsOf(d) == [a \in Authors |-> RatingOf(a, d)]

RatedBy(d) == {a \in Authors : RatingOf(a, d) # None}

Status(o, d) == AuthorStatus(o, RatingsOf(d))

\* The answers to a question of a case, and the questions on which they differ.
Given(d, q) == {RatingOf(a, d)[q] : a \in RatedBy(d)}

Disputed(d) == {q \in Questions : Cardinality(Given(d, q)) > 1}

\* The disagreements collect lists: an answer that decides nothing differs from no other.
Undetermined == [q1 |-> "U", q2 |-> "Unclear", q3 |-> "Unclear"]

Listed(d) == {q \in Questions : Cardinality(Given(d, q) \ {Undetermined[q]}) > 1}

\* analyse: the questions on which a case that every author rated is in dispute, the outcome
\* of every case, and the bounds of the share of positive cases: what all authors found, and
\* what they have not all ruled out.
Analysis(cases) ==
    LET having(o, statuses) == {d \in cases : Status(o, d) \in statuses}
    IN  [disagreements |-> [d \in {c \in cases : RatedBy(c) = Authors} |-> Listed(d)],
         outcomes |-> [o \in Outcomes |-> [d \in cases |-> Status(o, d)]],
         lower |-> [o \in Outcomes |-> having(o, {"unanimous_positive"})],
         upper |-> [o \in Outcomes |-> cases \ having(o, {"unanimous_negative"})]]

\* collect: agreement over the cases rated so far; the adjudication log starts anew.
CollectRatings ==
    /\ batchOf # None
    /\ \E f \in DOMAIN downloads : downloads[f] # <<>>
    /\ effort.collects < MaxCollects
    /\ LET analysis == Analysis({d \in AuditCases : RatedBy(d) # {}})
           open == UNION {{d} \X analysis.disagreements[d] : d \in DOMAIN analysis.disagreements}
       IN  /\ agreement' = analysis
           /\ rulings' = [p \in open |-> None]
    /\ effort' = [effort EXCEPT !.collects = @ + 1]
    /\ UNCHANGED <<batchOf, exported, answers, locked, downloads, joint, decided>>

\* adjudication: refused until every author has finished the batch.
JointPage(b) ==
    /\ batchOf # None
    /\ \A d \in InBatch(b) : RatedBy(d) = Authors
    /\ joint' = [joint EXCEPT ![b] = [d \in {e \in InBatch(b) : Disputed(e) # {}} |-> Disputed(d)]]
    /\ UNCHANGED <<batchOf, exported, answers, locked, downloads, agreement, rulings, decided, effort>>

\* The agreed answer: a question nobody disputes keeps its answer.
Agreed(d, q, decisions) ==
    IF q \notin Disputed(d) THEN CHOOSE answer \in Given(d, q) : TRUE
    ELSE IF <<d, q>> \notin DOMAIN decisions \/ decisions[<<d, q>>] = "Unresolved" THEN Undetermined[q]
    ELSE decisions[<<d, q>>]

Rejudged(o, d, decisions) ==
    LET verdict == Verdict(o, [q \in Questions |-> Agreed(d, q, decisions)])
    IN  CASE verdict = "yes" -> "adjudicated_positive"
          [] verdict = "no" -> "adjudicated_negative"
          [] OTHER -> "unresolved"

\* Mutant: only incomplete cases are left alone.
AdjudicatedStatus_All(o, d, decisions) ==
    IF Status(o, d) = "incomplete" THEN Status(o, d) ELSE Rejudged(o, d, decisions)

\* adjudicated_outcomes: original unanimity wins.
AdjudicatedStatus(o, d, decisions) ==
    IF Status(o, d) \in Final THEN Status(o, d) ELSE Rejudged(o, d, decisions)

AdjudicatedOutcomes(b, decisions) ==
    [o \in Outcomes |-> [d \in InBatch(b) |-> AdjudicatedStatus(o, d, decisions)]]

\* adjudicated: the joint file of a batch, which has a row for every disputed question, decided
\* or not; a file without rows is refused.  A question left open loses an earlier ruling in the
\* log; without a log the script fails after the outcomes are written.
Adjudicated(b) ==
    /\ joint[b] # None
    /\ effort.decisions < MaxDecisions
    /\ LET open == UNION {{d} \X joint[b][d] : d \in DOMAIN joint[b]}
       IN  \E made \in SUBSET open :
             \E decisions \in [made -> (UNION Range(AgreedAnswers)) \cup {"Unresolved"}] :
               /\ open # {}
               /\ \A p \in made : decisions[p] \in AgreedAnswers[p[2]] \cup {"Unresolved"}
               /\ decided' = [decided EXCEPT ![b] = AdjudicatedOutcomes(b, decisions)]
               /\ rulings' = IF rulings = None THEN None
                             ELSE [p \in DOMAIN rulings |->
                                      IF p \in made THEN decisions[p]
                                      ELSE IF p \in open THEN None ELSE rulings[p]]
    /\ effort' = [effort EXCEPT !.decisions = @ + 1]
    /\ UNCHANGED <<batchOf, exported, answers, locked, downloads, agreement, joint>>

AuthorNext ==
    \/ FreezeBatches
    \/ \E b \in AuditBatches : ExportBatch(b) \/ JointPage(b) \/ Adjudicated(b)
    \/ \E a \in Authors : \E d \in AuditCases : Answer(a, d)
    \/ \E a \in Authors, b \in AuditBatches, final \in BOOLEAN : Download(a, b, final)
    \/ CollectRatings

AuthorSpec == AuthorInit /\ [][AuthorNext]_authorVars

----------------------------------------------------------------------------

Positive == {"unanimous_positive", "adjudicated_positive"}

Negative == {"unanimous_negative", "adjudicated_negative"}

\* No further file can change what stands for the author's rating: the first file holds one,
\* or the files that hold one agree.
Stands(a, d) ==
    \/ 1 \in Holding(a, d)
    \/ \A i, j \in Holding(a, d) : FilesOf(a, d)[i][d] = FilesOf(a, d)[j][d]

\* What the joint discussion decides stays inside the bounds the agreement report gives for
\* the original ratings: a case every author found positive stays positive, one every author
\* found negative stays negative - whichever report ran first and however often, whichever
\* files came between them, locked or not, although an author's change of mind reaches the
\* later files.  The order of the names keeps it so: the first file is read last.  Only an author
\* who leaves a case out of the first file and rates it differently in two later ones can move
\* a finding; such a case is left out (ai/evaluation/author_audit.py 125-137, 191-206, 218-245;
\* scripts/author_audit.py 122-224).
AdjudicationStaysWithinBounds ==
    \A b \in AuditBatches :
        agreement # None /\ decided[b] # None =>
            \A o \in Outcomes : \A d \in DOMAIN agreement.outcomes[o] \cap InBatch(b) :
                (\A a \in Authors : Stands(a, d)) =>
                    /\ d \in agreement.lower[o] => decided[b][o][d] \in Positive
                    /\ d \notin agreement.upper[o] => decided[b][o][d] \in Negative
=============================================================================
