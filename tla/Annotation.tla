------------------------------ MODULE Annotation ------------------------------
(***************************************************************************)
(* Human labels for drafts: the scripts that plan labelling batches and    *)
(* send disagreements to a third reviewer (backend/app/scripts/            *)
(* assign_annotations.py, backend/app/services/assignments.py), the online *)
(* tool and the file import that store labels (backend/app/routers/        *)
(* annotate.py, backend/app/scripts/review_packs.py), and the binary       *)
(* target the labels give a draft (ai/confidence_model/dataset.py).        *)
(*                                                                         *)
(* A writer is one online answer or one import: it reads assignments, then *)
(* commits; the unique constraint on labels.assignment_id fails a commit   *)
(* whose assignment was labelled meanwhile.  The planner is synchronous    *)
(* code; one step of it is one draft.  It takes its drafts in the order of *)
(* their random ids, here in any order.                                    *)
(*                                                                         *)
(* Assumed of the operator: scripts run one at a time; a draft is planned  *)
(* in one batch; only adjudication batches have a name that begins with    *)
(* "adjud"; unless RerunEarly, a further adjudication waits until every    *)
(* adjudicator of the earlier ones has answered.                           *)
(***************************************************************************)
EXTENDS Naturals, FiniteSets, FiniteSetsExt, Functions

CONSTANTS
    Drafts,        \* drafts that may be labelled
    Annotators,    \* active annotators, the demo account excluded
    Writers,       \* online answers and imports in flight at once
    RerunEarly     \* adjudicate may run again before the adjudicators answered

VARIABLES
    assignments,   \* annotation_assignments; unique (draft, annotator)
    labels,        \* labels, by assignment
    writer,        \* the labels each writer is about to store
    script         \* the running script

vars == <<assignments, labels, writer, script>>

ASSUME AnnotationAssumption ==
    /\ IsFiniteSet(Drafts)
    /\ IsFiniteSet(Annotators)
    /\ RerunEarly \in BOOLEAN

\* good: A or M; bad: R or W; skip: a skipped_reason and no label.
Answers == {"good", "bad", "skip"}

\* Answers whose acceptable column is not NULL.
Acceptable == {"good", "bad"}

Pairs == Drafts \X Annotators

LabelTable == [Pairs -> Answers \cup {"none"}]

NoLabels == [p \in Pairs |-> "none"]

\* batch "none": there is no such row.
AssignmentRow == [batch : {"none", "sprint", "adjud"}, overlap : BOOLEAN, position : Nat,
                  completed : BOOLEAN]

NoAssignment == [batch |-> "none", overlap |-> FALSE, position |-> 0, completed |-> FALSE]

\* seen: for a disagreement, who labelled it.  given: who gets the draft.
ScriptRow == [kind : {"idle", "plan", "adjudicate"}, todo : SUBSET Drafts,
              overlap : SUBSET Drafts, seen : [Drafts -> SUBSET Annotators],
              load : [Annotators -> Nat], offset : [Annotators -> Nat],
              given : [Drafts -> SUBSET Annotators]]

Nobody == [d \in Drafts |-> {}]

NoLoad == [a \in Annotators |-> 0]

IdleScript == [kind |-> "idle", todo |-> {}, overlap |-> {}, seen |-> Nobody,
               load |-> NoLoad, offset |-> NoLoad, given |-> Nobody]

TypeOK ==
    /\ assignments \in [Pairs -> AssignmentRow]
    /\ labels \in LabelTable
    /\ writer \in [Writers -> LabelTable]
    /\ script \in ScriptRow

Init ==
    /\ assignments = [p \in Pairs |-> NoAssignment]
    /\ labels = NoLabels
    /\ writer = [w \in Writers |-> NoLabels]
    /\ script = IdleScript

InBatch(d, a, batch) == assignments[<<d, a>>].batch = batch

ItemsOf(a) == {d \in Drafts : ~ InBatch(d, a, "none")}

PositionsOf(a) == {assignments[<<d, a>>].position : d \in ItemsOf(a)}

----------------------------------------------------------------------------
(* Storing labels *)

\* submit_label: the assignment is the annotator's own and open.
Submit(w, a, d, answer) ==
    /\ writer[w] = NoLabels
    /\ d \in ItemsOf(a)
    /\ ~ assignments[<<d, a>>].completed
    /\ writer' = [writer EXCEPT ![w][<<d, a>>] = answer]
    /\ UNCHANGED <<assignments, labels, script>>

\* import_csv: the lines of a returned file answer assignments of its annotator;
\* those completed already are left out.
Import(w, a, file) ==
    /\ writer[w] = NoLabels
    /\ \A d \in Drafts : file[d] # "none" => d \in ItemsOf(a)
    /\ writer' = [writer EXCEPT ![w] =
                    [p \in Pairs |-> IF p[2] = a /\ ~ assignments[p].completed
                                     THEN file[p[1]] ELSE "none"]]
    /\ UNCHANGED <<assignments, labels, script>>

\* Mutant: the labels table has no unique constraint.
IsFree_NoConstraint(p) == TRUE

\* labels.assignment_id is unique.
IsFree(p) == labels[p] = "none"

\* The commit of submit_label or of import_csv.
Store(w) ==
    /\ writer[w] # NoLabels
    /\ \A p \in Pairs : writer[w][p] # "none" => IsFree(p)
    /\ labels' = [p \in Pairs |-> IF writer[w][p] # "none" THEN writer[w][p] ELSE labels[p]]
    /\ assignments' = [p \in Pairs |-> [assignments[p] EXCEPT
                                          !.completed = @ \/ writer[w][p] # "none"]]
    /\ writer' = [writer EXCEPT ![w] = NoLabels]
    /\ UNCHANGED script

\* The constraint is violated, or the request fails otherwise, or another line of
\* the file is in error: nothing is stored.
FailStore(w) ==
    /\ writer[w] # NoLabels
    /\ writer' = [writer EXCEPT ![w] = NoLabels]
    /\ UNCHANGED <<assignments, labels, script>>

----------------------------------------------------------------------------
(* Planning *)

\* _next_positions
NextPosition(a) == Max(PositionsOf(a) \cup {0}) + 1

\* Mutant: anybody who may take the draft does.
LeastLoaded_Anyone(load, exclude) == Annotators \ exclude

\* Those _least_loaded may return.
LeastLoaded(load, exclude) ==
    {a \in Annotators \ exclude : \A b \in Annotators \ exclude : load[a] <= load[b]}

\* plan reads the drafts, the annotators and the next positions; choose_overlap.
StartPlan(drafts, overlap) ==
    /\ script.kind = "idle"
    /\ drafts # {} /\ overlap \subseteq drafts
    /\ \A a \in Annotators : drafts \cap ItemsOf(a) = {}
    /\ script' = [IdleScript EXCEPT !.kind = "plan", !.todo = drafts, !.overlap = overlap,
                                    !.offset = [a \in Annotators |-> NextPosition(a)]]
    /\ UNCHANGED <<assignments, labels, writer>>

\* One item of draft d for each annotator of as.
Give(d, as) ==
    /\ script' = [script EXCEPT !.todo = @ \ {d}, !.given[d] = as,
                    !.load = [a \in Annotators |-> @[a] + (IF a \in as THEN 1 ELSE 0)]]
    /\ UNCHANGED <<assignments, labels, writer>>

\* Who may get the second copy of an overlap draft after its first went to a.
SecondChoice(load, a) == LeastLoaded([load EXCEPT ![a] = @ + 1], {a})

\* plan_assignments, one overlap draft: two copies.
PickTwo(d, a, b) ==
    /\ script.kind = "plan"
    /\ d \in script.todo \cap script.overlap
    /\ a \in LeastLoaded(script.load, {})
    /\ b \in SecondChoice(script.load, a)
    /\ Give(d, {a, b})

\* plan_assignments, one other draft, after the overlap drafts.
PickOne(d, a) ==
    /\ script.kind = "plan"
    /\ script.todo \cap script.overlap = {}
    /\ d \in script.todo
    /\ a \in LeastLoaded(script.load, {})
    /\ Give(d, {a})

\* Who gave an overlap draft a label that is not a skip, the adjudicators included.
OverlapLabels(d) ==
    {a \in Annotators : assignments[<<d, a>>].overlap /\ labels[<<d, a>>] \in Acceptable}

Differ(d, as) == \E a, b \in as : labels[<<d, a>>] # labels[<<d, b>>]

\* Mutant: two labels are enough.
Disagree_Any(d) == Cardinality(OverlapLabels(d)) = 2

\* disagreements of adjudicate
Disagree(d) == Cardinality(OverlapLabels(d)) = 2 /\ Differ(d, OverlapLabels(d))

\* adjudicate reads the labels, the loads and the positions.
StartAdjudication ==
    /\ script.kind = "idle"
    /\ RerunEarly \/ \A p \in Pairs : assignments[p].batch = "adjud" => assignments[p].completed
    /\ LET due == {d \in Drafts : Disagree(d)}
       IN  script' = [IdleScript EXCEPT
                        !.kind = "adjudicate", !.todo = due, !.overlap = due,
                        !.seen = [d \in Drafts |-> IF d \in due THEN OverlapLabels(d) ELSE {}],
                        !.load = [a \in Annotators |-> Cardinality(ItemsOf(a))],
                        !.offset = [a \in Annotators |-> NextPosition(a)]]
    /\ UNCHANGED <<assignments, labels, writer>>

\* plan_adjudications, one draft.
PickAdjudicator(d, a) ==
    /\ script.kind = "adjudicate"
    /\ d \in script.todo
    /\ a \in LeastLoaded(script.load, script.seen[d])
    /\ Give(d, {a})

GivenTo(a) == {d \in Drafts : a \in script.given[d]}

\* The orders the script may put an annotator's new items in.
Shuffles(a) == Bijection(GivenTo(a), 1 .. Cardinality(GivenTo(a)))

Batch(kind) == IF kind = "plan" THEN "sprint" ELSE "adjud"

\* The commit of plan or adjudicate; (draft, annotator) is unique.
CommitScript(order) ==
    /\ script.kind # "idle"
    /\ script.todo = {}
    /\ \A a \in Annotators : order[a] \in Shuffles(a) /\ GivenTo(a) \cap ItemsOf(a) = {}
    /\ assignments' = [p \in Pairs |->
          IF p[2] \in script.given[p[1]]
          THEN [batch |-> Batch(script.kind),
                overlap |-> p[1] \in script.overlap,
                position |-> script.offset[p[2]] - 1 + order[p[2]][p[1]],
                completed |-> FALSE]
          ELSE assignments[p]]
    /\ script' = IdleScript
    /\ UNCHANGED <<labels, writer>>

\* Too few annotators, a pair that is assigned already, or any other error.
FailScript ==
    /\ script.kind # "idle"
    /\ script' = IdleScript
    /\ UNCHANGED <<assignments, labels, writer>>

----------------------------------------------------------------------------
Next ==
    \/ \E w \in Writers, a \in Annotators :
          \/ \E d \in Drafts, answer \in Answers : Submit(w, a, d, answer)
          \/ \E file \in [Drafts -> Answers \cup {"none"}] : Import(w, a, file)
    \/ \E w \in Writers : Store(w) \/ FailStore(w)
    \/ \E drafts \in SUBSET Drafts : \E overlap \in SUBSET drafts : StartPlan(drafts, overlap)
    \/ \E d \in Drafts, a, b \in Annotators : PickTwo(d, a, b)
    \/ \E d \in Drafts, a \in Annotators : PickOne(d, a) \/ PickAdjudicator(d, a)
    \/ StartAdjudication
    \/ \E order \in [Annotators -> UNION {Shuffles(a) : a \in Annotators}] : CommitScript(order)
    \/ FailScript

Spec == Init /\ [][Next]_vars

----------------------------------------------------------------------------
(* What the labels are used for *)

\* The acceptable labels a draft has from batches of this kind.
LabelsIn(d, batch) ==
    {labels[<<d, a>>] : a \in {b \in Annotators : InBatch(d, b, batch)}} \cap Acceptable

\* Mutant: the mean of the labels is rounded up.
Targets_Rounded(d) ==
    IF "good" \in LabelsIn(d, "sprint") THEN {"good"} ELSE LabelsIn(d, "sprint")

\* human_label: the targets dataset.py may read for a draft, none if it has no label
\* yet.  Of several adjudicators' labels it takes the latest; which that is, is not
\* modelled.
Targets(d) ==
    IF LabelsIn(d, "sprint") = Acceptable THEN LabelsIn(d, "adjud") ELSE LabelsIn(d, "sprint")

----------------------------------------------------------------------------
(* Properties *)

LabelsStay == \A p \in Pairs : labels[p] # "none" => labels'[p] = labels[p]

\* A stored answer never changes and never disappears, although answers and imports
\* check for it and store theirs in separate steps (submit_label, import_csv: "labels
\* are final").
LabelsAreFinal == [][LabelsStay]_vars

\* While a batch is planned the annotators' loads differ by at most one item, the
\* second copies of overlap drafts included (plan_assignments).
LoadsBalanced ==
    script.kind = "plan" =>
        \A a, b \in Annotators : script.load[a] <= script.load[b] + 1

\* A draft in the overlap set of its batch has exactly two annotators from it, any
\* other planned draft one (plan, plan_assignments).
OverlapIsDoubled ==
    \A d \in Drafts :
        LET first == {a \in Annotators : InBatch(d, a, "sprint")}
        IN  \A a \in first : Cardinality(first) = (IF assignments[<<d, a>>].overlap THEN 2 ELSE 1)

\* Whoever adjudicates a draft comes to a real disagreement of two others, even if
\* labels arrived while the batch was planned (adjudicate, plan_adjudications).
AdjudicationIsDue ==
    \A d \in Drafts, a \in Annotators :
        InBatch(d, a, "adjud") => Differ(d, OverlapLabels(d) \ {a})

\* Each annotator's queue is numbered 1, 2, ... without a gap or a tie over all the
\* batches they are in, so GET /annotate/next has one answer (_next_positions, plan).
QueuesInOrder ==
    \A a \in Annotators : PositionsOf(a) = 1 .. Cardinality(ItemsOf(a))

\* The label of a draft's adjudicator is its target (human_label, its SQL, adjudicate).
AdjudicatorDecides ==
    \A d \in Drafts, a \in Annotators :
        InBatch(d, a, "adjud") /\ labels[<<d, a>>] \in Acceptable
            => Targets(d) = {labels[<<d, a>>]}

TargetsStay ==
    \A d \in Drafts, x, y \in Acceptable : Targets(d) = {x} /\ y \in Targets(d)' => x = y

\* As labels arrive a draft's target may appear, and disappear when the second label
\* disagrees, but no step turns it around: every change of mind passes through a
\* third reviewer (human_label, adjudicate).
TargetNeverFlips == [][TargetsStay]_vars

\* Plans are fair whatever answers and other batches overlap them: equal loads while a
\* plan is made, two annotators for an overlap draft and one for any other, and queues that
\* each annotator can work through in order (plan, plan_assignments, _next_positions).
PlansAreFair == LoadsBalanced /\ OverlapIsDoubled /\ QueuesInOrder

\* An answer is final, and with it the verdict on a draft: it may fall open, never turn.
AnswersStand == [][LabelsStay /\ TargetsStay]_vars
=============================================================================
