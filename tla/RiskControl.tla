---------------------------- MODULE RiskControl ----------------------------
(***************************************************************************)
(* Certifying lane thresholds (ai/evaluation/risk_control.py), the shift   *)
(* guard (ai/confidence_model/shift.py) and what the evaluation counts     *)
(* (ai/evaluation/locked_eval.py).                                         *)
(*                                                                         *)
(* A scored draft is [score, ok, answers, prob, margin]: its score and     *)
(* routing signals as levels of the grids, whether a reviewer accepts it   *)
(* and whether its model said it can answer.  Rates are [num, den], so the *)
(* binomial tail is computed exactly; lists of drafts are sequences.       *)
(***************************************************************************)
EXTENDS Integers, Sequences, FiniteSets, SequencesExt, FiniteSetsExt

CONSTANTS
    Grid,         \* candidate thresholds: DEFAULT_GRID
    AlphaFast, AlphaAssisted, Delta,
    ProbGrid, MarginGrid,   \* guard candidates; None is in both
    MaxCost,      \* percent
    None

Count(rows, P(_)) == Len(SelectSeq(rows, P))

Choose[n \in 0 .. 20, k \in 0 .. 20] ==
    IF k = 0 THEN 1 ELSE IF n < k THEN 0 ELSE Choose[n - 1, k - 1] + Choose[n - 1, k]

\* den^n * P(Binomial(n, alpha) <= k)
Cdf(n, k, alpha) ==
    FoldLeft(+, 0, [i \in 1 .. k + 1 |->
        Choose[n, i - 1] * alpha.num ^ (i - 1) * (alpha.den - alpha.num) ^ (n - i + 1)])

\* p <= delta
Rejects(n, k, alpha) == n > 0 /\ Cdf(n, k, alpha) * Delta.den <= Delta.num * alpha.den ^ n

\* min_testable_size: zero errors among fewer drafts reject nothing.
Testable(n, alpha) == Rejects(n, 0, alpha)

Shown(rows, t) == SelectSeq(rows, LAMBDA d : d.score >= t)

Bad(rows) == Count(rows, LAMBDA d : ~ d.ok)

Passes(rows, t, alpha) == Rejects(Len(Shown(rows, t)), Bad(Shown(rows, t)), alpha)

\* Mutant: the sequence goes on after a threshold that failed.
LearnThenTest_Continue(rows, alpha) ==
    LET fine == {t \in Grid : Passes(rows, t, alpha)} IN IF fine = {} THEN None ELSE Min(fine)

\* The candidates, the strictest first.
StrictToLenient ==
    [i \in 1 .. Cardinality(Grid) |-> CHOOSE t \in Grid : Cardinality({u \in Grid : u > t}) = i - 1]

\* What is untestable is skipped, the first failure ends the sequence, a pass is kept.
Tested(rows, alpha, acc, t) ==
    IF acc.stopped \/ ~ Testable(Len(Shown(rows, t)), alpha) THEN acc
    ELSE IF Passes(rows, t, alpha) THEN [acc EXCEPT !.best = t]
    ELSE [acc EXCEPT !.stopped = TRUE]

LearnThenTest(rows, alpha) ==
    FoldLeft(LAMBDA acc, t : Tested(rows, alpha, acc, t),
             [best |-> None, stopped |-> FALSE], StrictToLenient).best

\* The drafts whose model said it can answer.
Answered(rows) == SelectSeq(rows, LAMBDA d : d.answers)

\* Thresholds come from the calibration drafts that answer.
SelectLaneThresholds(rows) ==
    [fast     |-> LearnThenTest(Answered(rows), AlphaFast),
     assisted |-> LearnThenTest(Answered(rows), AlphaAssisted)]

Above(d, t) == t # None /\ d.score >= t

\* LaneThresholds.lane, Lanes.of, lane_for
Lane(d, th, guarded) ==
    IF ~ d.answers \/ guarded THEN "escalate"
    ELSE IF Above(d, th.fast) THEN "fast"
    ELSE IF Above(d, th.assisted) THEN "assisted" ELSE "escalate"

----------------------------------------------------------------------------

\* guard_reasons is not empty; a missing signal is below every bound.
Guards(g, d) ==
    \/ g.prob # None /\ (d.prob = None \/ d.prob < g.prob)
    \/ g.margin # None /\ (d.margin = None \/ d.margin < g.margin)

NoGuard == [prob |-> None, margin |-> None]

IsShown(d, th, g) == Lane(d, th, Guards(g, d)) # "escalate"

\* Of the drafts with the given verdict shown without the guard, how many it takes away.
Blocked(rows, th, g, ok) ==
    LET before(d) == d.ok = ok /\ IsShown(d, th, NoGuard)
    IN  [blocked |-> Count(rows, LAMBDA d : before(d) /\ ~ IsShown(d, th, g)),
         shown   |-> Count(rows, before)]

\* A guard may take away at most MaxCost percent of the acceptable drafts shown on val.
Affordable(val, th, g) ==
    LET b == Blocked(val, th, g, TRUE) IN 100 * b.blocked <= MaxCost * b.shown

\* choose_guard: blocks most unacceptable drafts of the tuning topics, then costs least;
\* further ties go to the first of the grid, here to any.
BestGuards(tune, val, th) ==
    LET feasible == {g \in [prob : ProbGrid, margin : MarginGrid] : Affordable(val, th, g)}
        gain(g)  == Blocked(tune, th, g, FALSE).blocked
        cost(g)  == Blocked(val, th, g, TRUE).blocked
    IN  {g \in feasible : \A h \in feasible :
            gain(g) > gain(h) \/ (gain(g) = gain(h) /\ cost(g) <= cost(h))}

\* exposure: the drafts an engineer would see and how many of them are unacceptable.
Exposure(rows, th, g) ==
    LET shown == SelectSeq(rows, LAMBDA d : IsShown(d, th, g))
    IN  [n |-> Len(rows), shown |-> Len(shown), bad |-> Bad(shown)]

\* lane_block
LaneSizes(rows, th) ==
    [l \in {"fast", "assisted", "escalate"} |-> Count(rows, LAMBDA d : Lane(d, th, FALSE) = l)]

----------------------------------------------------------------------------

\* Among these drafts every testable candidate from the strictest down to t passes, and none
\* below t could follow.
IsLastPass(rows, t, alpha) ==
    LET testable(u) == Testable(Len(Shown(rows, u)), alpha)
        downTo(u) == \A v \in Grid : v >= u /\ testable(v) => Passes(rows, v, alpha)
    IN  /\ t # None => t \in Grid /\ testable(t) /\ downTo(t)
        /\ \A u \in Grid : testable(u) /\ (t = None \/ u < t) => ~ downTo(u)

\* What the threshold t of a lane promises about the calibration drafts that answer: it ends the
\* sequence of tests, and at most a share alpha of the drafts it shows is unacceptable.
IsCertified(rows, t, alpha) ==
    LET shown == Shown(Answered(rows), t)
    IN  /\ IsLastPass(Answered(rows), t, alpha)
        /\ t # None => Bad(shown) * alpha.den <= alpha.num * Len(shown)

\* For these calibration drafts, taken as validation and tuning drafts as well: both
\* thresholds are certified, and every guard that may be chosen keeps all but MaxCost
\* percent of the acceptable drafts shown (risk_control.py 58-95, shift.py 87-97).
IsWellChosen(rows) ==
    LET th == SelectLaneThresholds(rows)
    IN  /\ IsCertified(rows, th.fast, AlphaFast)
        /\ IsCertified(rows, th.assisted, AlphaAssisted)
        /\ \A g \in BestGuards(rows, rows, th) :
              100 * Blocked(rows, th, g, TRUE).blocked <= MaxCost * Blocked(rows, th, g, TRUE).shown
=============================================================================
