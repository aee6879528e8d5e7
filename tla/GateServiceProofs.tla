-------------------------- MODULE GateServiceProofs --------------------------
(***************************************************************************)
(* Proofs about GateService, for any threshold sets, any number of loads   *)
(* that overlap and any number of drafts.                                  *)
(***************************************************************************)
EXTENDS GateService, TLAPS

----------------------------------------------------------------------------
(* What the pure helpers answer *)

\* lane_for answers one of the three lanes whatever it is given.
LEMMA LaneForType ==
    ASSUME NEW input, NEW v
    PROVE  LaneFor(input, v) \in Lanes
BY DEF LaneFor, Lanes

\* Rounded, a score keeps its side of every multiple of the grain, or equals it.
LEMMA RoundingKeepsSides ==
    ASSUME NEW s \in Nat, NEW g \in Nat \ {0}
    PROVE  /\ RoundedTo(s, g) \in Nat
           /\ \A k \in Nat : s >= k * g => RoundedTo(s, g) >= k * g
           /\ \A k \in Nat : s < k * g => RoundedTo(s, g) <= k * g
<1> DEFINE q == s \div g
           r == s % g
           n == Nearest(s, g)
<1>1. q \in Nat /\ r \in Nat /\ r < g /\ s = g * q + r
  OBVIOUS
<1>2. n = IF 2 * r > g \/ (2 * r = g /\ q % 2 = 1) THEN q + 1 ELSE q
  BY DEF Nearest
<1> HIDE DEF q, r, n
<1>3. n \in Nat /\ q <= n /\ n <= q + 1 /\ (r = 0 => n = q)
  BY <1>1, <1>2
<1>4. \A a, b \in Nat : a <= b => a * g <= b * g
  OBVIOUS
<1>5. \A k \in Nat : s >= k * g => k <= q
  <2> SUFFICES ASSUME NEW k \in Nat, s >= k * g, q + 1 <= k PROVE FALSE
    BY <1>1
  <2>1. (q + 1) * g <= k * g
    BY <1>1, <1>4
  <2>2. (q + 1) * g = g * q + g
    BY <1>1
  <2> QED BY <1>1, <2>1, <2>2
<1>6. \A k \in Nat : s < k * g => q + 1 <= k
  <2> SUFFICES ASSUME NEW k \in Nat, s < k * g, k <= q PROVE FALSE
    BY <1>1
  <2>1. k * g <= q * g
    BY <1>1, <1>4
  <2>2. q * g = g * q
    BY <1>1
  <2> QED BY <1>1, <2>1, <2>2
<1>7. RoundedTo(s, g) = n * g
  BY DEF RoundedTo, n
<1>8. n * g \in Nat
  BY <1>3
<1>9. ASSUME NEW k \in Nat, s >= k * g PROVE n * g >= k * g
  <2>1. k <= n
    BY <1>1, <1>3, <1>5, <1>9
  <2> QED BY <1>3, <1>4, <1>8, <2>1
<1>10. ASSUME NEW k \in Nat, s < k * g PROVE n * g <= k * g
  <2>1. n <= k
    BY <1>1, <1>3, <1>6, <1>10
  <2> QED BY <1>3, <1>4, <1>8, <2>1
<1> QED BY <1>7, <1>8, <1>9, <1>10

\* A rounded score is a number, a missing one stays missing.
LEMMA RoundedType ==
    ASSUME NEW s \in Scores \cup {None}
    PROVE  Rounded(s) \in Int \cup {None}
<1>1. CASE s = None
  BY <1>1 DEF Rounded
<1>2. CASE s # None
  <2>1. s \in Nat /\ Grain \in Nat \ {0}
    BY <1>2, ScoreAssumption DEF Scores
  <2>2. RoundedTo(s, Grain) \in Nat
    BY <2>1, RoundingKeepsSides
  <2> QED BY <1>2, <2>2 DEF Rounded
<1> QED BY <1>1, <1>2

\* The logged score of a lane that lane_for chose fits the lane.
LEMMA LogFitsLane ==
    ASSUME NEW v \in Versions, NEW in \in Input, in.score # None, in.canAnswer, ~ GuardBlocks(in, v)
    PROVE  LaneFitsLog(LaneFor(in, v), Rounded(in.score), SetOf[v])
<1> DEFINE s == in.score
           fast == SetOf[v].fast
           assisted == SetOf[v].assisted
           x == Rounded(s)
<1>1. s \in Nat /\ v # None /\ x = RoundedTo(s, Grain) /\ Grain \in Nat \ {0}
  BY ScoreAssumption DEF Input, Scores, Rounded
<1>2. ASSUME NEW t, t = fast \/ t = assisted, t # None
      PROVE  /\ t \in Nat /\ x \in Nat
             /\ s >= t => x >= t
             /\ s < t => x <= t
  <2>1. OnGrid(t)
    BY <1>2, SetsAssumption
  <2>2. PICK k \in Nat : t = k * Grain
    BY <2>1, ScoreAssumption DEF OnGrid
  <2>3. t \in Nat
    BY <1>1, <2>2
  <2> HIDE DEF s, x, fast, assisted
  <2> QED BY <1>1, <2>2, <2>3, RoundingKeepsSides
<1>3. fast # None => /\ fast \in Nat /\ x \in Nat
                     /\ s >= fast => x >= fast
                     /\ s < fast => x <= fast
  BY <1>2
<1>4. assisted # None => /\ assisted \in Nat /\ x \in Nat
                         /\ s >= assisted => x >= assisted
                         /\ s < assisted => x <= assisted
  BY <1>2
<1>5. LaneFor(in, v) = IF fast # None /\ s >= fast THEN "fast"
                       ELSE IF assisted # None /\ s >= assisted THEN "assisted"
                       ELSE "escalate"
  BY <1>1 DEF LaneFor, Reaches
<1> HIDE DEF s, x, fast, assisted
<1>6. LaneFitsLog(LaneFor(in, v), x, [fast |-> fast, assisted |-> assisted])
  BY <1>1, <1>3, <1>4, <1>5 DEF LaneFitsLog, Reaches, Exceeds
<1> QED BY <1>6 DEF LaneFitsLog, fast, assisted, x, s

----------------------------------------------------------------------------
(* Types *)

LEMMA TypeInit == Init => TypeOK
BY DEF Init, TypeOK, IdleLoader, LoaderRow, WaitingGate, GateRow, NoInput, Input, Lanes

LEMMA TypeNext == TypeOK /\ [Next]_vars => TypeOK'
<1> SUFFICES ASSUME TypeOK, [Next]_vars
             PROVE  TypeOK'
  OBVIOUS
<1> USE DEF TypeOK
<1>1. ASSUME NEW l \in Loaders, NEW v \in Versions, StartLoad(l, v)
      PROVE  TypeOK'
  BY <1>1 DEF StartLoad, LoaderRow, Active
<1>2. ASSUME NEW l \in Loaders, Deactivate(l)
      PROVE  TypeOK'
  BY <1>2, ZenonT(30) DEF Deactivate, LoaderRow, Active
<1>3. ASSUME NEW l \in Loaders, Insert(l)
      PROVE  TypeOK'
  BY <1>3 DEF Insert, LoaderRow
<1>4. ASSUME NEW l \in Loaders, CommitLoad(l)
      PROVE  TypeOK'
  BY <1>4 DEF CommitLoad, LoaderRow, IdleLoader
<1>5. ASSUME NEW l \in Loaders, FailLoad(l)
      PROVE  TypeOK'
  BY <1>5 DEF FailLoad, LoaderRow, IdleLoader
<1>6. ASSUME NEW d \in Drafts, NEW input \in Input, Decide(d, input)
      PROVE  TypeOK'
  <2>1. PICK v \in IF Active = {} THEN {None} ELSE Active :
           gate' = [gate EXCEPT ![d] = [pc |-> "decided", input |-> input, version |-> v,
                                        lane |-> LaneFor(input, v),
                                        score |-> Rounded(input.score)]]
    BY <1>6 DEF Decide
  <2>2. v \in Versions \cup {None}
    BY DEF Active
  <2>3. Rounded(input.score) \in Int \cup {None}
    BY RoundedType DEF Input
  <2>4. [pc |-> "decided", input |-> input, version |-> v, lane |-> LaneFor(input, v),
         score |-> Rounded(input.score)] \in GateRow
    BY <2>2, <2>3, LaneForType DEF GateRow
  <2> QED BY <1>6, <2>1, <2>4 DEF Decide
<1>7. ASSUME NEW d \in Drafts, LogDecision(d)
      PROVE  TypeOK'
  BY <1>7 DEF LogDecision, GateRow
<1>8. ASSUME NEW d \in Drafts, DropDecision(d)
      PROVE  TypeOK'
  BY <1>8 DEF DropDecision, GateRow
<1>9. CASE UNCHANGED vars
  BY <1>9 DEF vars
<1> QED BY <1>1, <1>2, <1>3, <1>4, <1>5, <1>6, <1>7, <1>8, <1>9 DEF Next

\* Every variable keeps its type: in particular the gate only ever assigns one of the
\* three lanes and the log only ever refers to a threshold set by a known version.
THEOREM TypeCorrect == Spec => []TypeOK
BY TypeInit, TypeNext, PTL DEF Spec

----------------------------------------------------------------------------
(* One active set *)

(***************************************************************************)
(* ExactlyOneActive is not inductive: it needs what a loader between two   *)
(* statements can rely on.  The rows it deactivated are locked, so they    *)
(* are active in the table until it ends and nobody else deactivates them; *)
(* once its own row is in the index, it holds every active row, and no     *)
(* other loader has got that far.                                          *)
(***************************************************************************)
LoadsAreOrdered ==
    /\ \A v \in Versions : sets[v].active => sets[v].stored
    /\ \A l \in Loaders :
          /\ loader[l].held \subseteq Active
          /\ loader[l].pc \in {"idle", "updating"} => loader[l].held = {}
          /\ loader[l].pc # "idle" => loader[l].version \in Versions
          /\ loader[l].pc = "inserted" =>
                /\ Active \subseteq loader[l].held
                /\ ~ sets[loader[l].version].stored
    /\ \A l, m \in Loaders :
          l # m => /\ loader[l].held \cap loader[m].held = {}
                   /\ ~ (loader[l].pc = "inserted" /\ loader[m].pc = "inserted")

ActiveInv == TypeOK /\ LoadsAreOrdered /\ ExactlyOneActive

LEMMA ActiveInit == Init => ActiveInv
BY TypeInit DEF Init, ActiveInv, LoadsAreOrdered, ExactlyOneActive, Active, IdleLoader

\* A step that leaves the table and every loader alone.
LEMMA ActiveFrame ==
    ASSUME LoadsAreOrdered, ExactlyOneActive, UNCHANGED <<sets, loader>>
    PROVE  LoadsAreOrdered' /\ ExactlyOneActive'
BY DEF LoadsAreOrdered, ExactlyOneActive, Active

LEMMA ActiveNext == ActiveInv /\ [Next]_vars => ActiveInv'
<1> SUFFICES ASSUME ActiveInv, [Next]_vars
             PROVE  LoadsAreOrdered' /\ ExactlyOneActive'
  BY TypeNext DEF ActiveInv
<1> USE DEF ActiveInv
<1>1. ASSUME NEW l \in Loaders, NEW v \in Versions, StartLoad(l, v)
      PROVE  LoadsAreOrdered' /\ ExactlyOneActive'
  BY <1>1 DEF StartLoad, TypeOK, LoaderRow, LoadsAreOrdered, ExactlyOneActive, Active
<1>2. ASSUME NEW l \in Loaders, Deactivate(l)
      PROVE  LoadsAreOrdered' /\ ExactlyOneActive'
  <2>1. \A m \in Loaders \ {l} : loader[l].seen \cap loader[m].held = {}
    BY <1>2 DEF Deactivate, LockedByOthers
  <2> QED BY <1>2, <2>1 DEF Deactivate, TypeOK, LoaderRow, LoadsAreOrdered, ExactlyOneActive, Active
<1>3. ASSUME NEW l \in Loaders, Insert(l)
      PROVE  LoadsAreOrdered' /\ ExactlyOneActive'
  <2>1. /\ \A m \in Loaders \ {l} : loader[m].pc # "inserted"
        /\ Active \subseteq loader[l].held
    BY <1>3 DEF Insert, InsertWaits, Conflicts
  <2> QED BY <1>3, <2>1 DEF Insert, TypeOK, LoaderRow, LoadsAreOrdered, ExactlyOneActive, Active
<1>4. ASSUME NEW l \in Loaders, CommitLoad(l)
      PROVE  LoadsAreOrdered' /\ ExactlyOneActive'
  <2> DEFINE new == loader[l].version
  <2>1. /\ new \in Versions
        /\ ~ sets[new].stored
        /\ Active = loader[l].held
    BY <1>4 DEF CommitLoad, LoadsAreOrdered
  <2>2. sets'[new] = [stored |-> TRUE, active |-> TRUE]
    BY <1>4, <2>1 DEF CommitLoad
  <2>3. \A v \in Versions \ {new} :
           /\ sets'[v].stored = sets[v].stored
           /\ ~ sets'[v].active
    BY <1>4, <2>1 DEF CommitLoad, Active, TypeOK
  <2>4. Active' = {new}
    BY <2>1, <2>2, <2>3 DEF Active
  <2>5. \A m \in Loaders \ {l} :
           /\ loader'[m] = loader[m]
           /\ loader[m].held = {}
           /\ loader[m].pc # "inserted"
    BY <1>4, <2>1 DEF CommitLoad, LoadsAreOrdered, TypeOK
  <2>6. loader'[l] = IdleLoader
    BY <1>4 DEF CommitLoad, TypeOK
  <2>7. ExactlyOneActive'
    BY <2>4 DEF ExactlyOneActive
  <2>8. \A v \in Versions : sets'[v].active => sets'[v].stored
    BY <2>2, <2>3
  <2>9. \A m \in Loaders :
          /\ loader'[m].held = {}
          /\ loader'[m].pc # "inserted"
          /\ loader'[m].pc # "idle" => loader'[m].version \in Versions
    BY <2>5, <2>6 DEF IdleLoader, LoadsAreOrdered
  <2>10. LoadsAreOrdered'
    BY <2>8, <2>9 DEF LoadsAreOrdered
  <2> QED BY <2>7, <2>10
<1>5. ASSUME NEW l \in Loaders, FailLoad(l)
      PROVE  LoadsAreOrdered' /\ ExactlyOneActive'
  BY <1>5 DEF FailLoad, IdleLoader, TypeOK, LoadsAreOrdered, ExactlyOneActive, Active
<1>6. ASSUME NEW d \in Drafts, NEW input \in Input, Decide(d, input)
      PROVE  LoadsAreOrdered' /\ ExactlyOneActive'
  BY <1>6, ActiveFrame DEF Decide
<1>7. ASSUME NEW d \in Drafts, LogDecision(d) \/ DropDecision(d)
      PROVE  LoadsAreOrdered' /\ ExactlyOneActive'
  BY <1>7, ActiveFrame DEF LogDecision, DropDecision
<1>8. CASE UNCHANGED vars
  BY <1>8, ActiveFrame DEF vars
<1> QED BY <1>1, <1>2, <1>3, <1>4, <1>5, <1>6, <1>7, <1>8 DEF Next

\* However many loads overlap and fail, at most one threshold set is active, and the
\* gate finds one from the first load on.
THEOREM OneActiveSet == Spec => []ExactlyOneActive
<1>1. ActiveInv => ExactlyOneActive
  BY DEF ActiveInv
<1> QED BY ActiveInit, ActiveNext, <1>1, PTL DEF Spec

----------------------------------------------------------------------------
(* Explained decisions *)

\* A decision in memory or in the log is lane_for's answer for what it records, with the
\* score rounded, and the set it names is in the table: sets are deactivated, never deleted.
DecisionsAreRecorded ==
    \A d \in Drafts :
        gate[d].pc \in {"decided", "logged"} =>
            /\ gate[d].lane = LaneFor(gate[d].input, gate[d].version)
            /\ gate[d].score = Rounded(gate[d].input.score)
            /\ gate[d].version # None => sets[gate[d].version].stored

ExplainedInv == ActiveInv /\ DecisionsAreRecorded

LEMMA StoredForever ==
    ASSUME TypeOK, [Next]_vars, NEW v \in Versions, sets[v].stored
    PROVE  sets'[v].stored
<1>1. ASSUME NEW l \in Loaders, CommitLoad(l)
      PROVE  sets'[v].stored
  <2>1. CASE v = loader[l].version
    BY <1>1, <2>1 DEF CommitLoad
  <2>2. CASE v # loader[l].version
    BY <1>1, <2>2 DEF CommitLoad, TypeOK
  <2> QED BY <2>1, <2>2
<1>2. CASE UNCHANGED sets
  BY <1>2
<1> QED BY <1>1, <1>2 DEF Next, vars, StartLoad, Deactivate, Insert, FailLoad, Decide,
                         LogDecision, DropDecision

LEMMA ExplainedInit == Init => ExplainedInv
BY ActiveInit DEF Init, ExplainedInv, DecisionsAreRecorded, WaitingGate

LEMMA ExplainedNext == ExplainedInv /\ [Next]_vars => ExplainedInv'
<1> SUFFICES ASSUME ExplainedInv, [Next]_vars
             PROVE  DecisionsAreRecorded'
  BY ActiveNext DEF ExplainedInv
<1> USE DEF ExplainedInv, ActiveInv
<1>1. ASSUME NEW d \in Drafts, gate'[d].pc \in {"decided", "logged"}
      PROVE  /\ gate'[d].lane = LaneFor(gate'[d].input, gate'[d].version)
             /\ gate'[d].score = Rounded(gate'[d].input.score)
             /\ gate'[d].version # None => sets'[gate'[d].version].stored
  <2>1. CASE /\ gate[d].pc \in {"decided", "logged"}
             /\ gate'[d].lane = gate[d].lane
             /\ gate'[d].score = gate[d].score
             /\ gate'[d].input = gate[d].input
             /\ gate'[d].version = gate[d].version
    <3>1. gate[d].version \in Versions \cup {None}
      BY DEF TypeOK, GateRow
    <3> QED BY <2>1, <3>1, StoredForever DEF DecisionsAreRecorded
  <2>2. CASE \E input \in Input : Decide(d, input)
    <3>1. PICK input \in Input,
               v \in IF Active = {} THEN {None} ELSE Active :
             /\ gate' = [gate EXCEPT ![d] = [pc |-> "decided", input |-> input, version |-> v,
                                             lane |-> LaneFor(input, v),
                                             score |-> Rounded(input.score)]]
             /\ UNCHANGED sets
      BY <2>2 DEF Decide
    <3>2. /\ gate'[d].input = input
          /\ gate'[d].version = v
          /\ gate'[d].lane = LaneFor(input, v)
          /\ gate'[d].score = Rounded(input.score)
      BY <3>1 DEF TypeOK
    <3>3. v # None => sets'[v].stored
      BY <3>1 DEF Active, LoadsAreOrdered
    <3> QED BY <3>2, <3>3
  <2>3. CASE UNCHANGED gate
    BY <1>1, <2>1, <2>3
  <2>4. CASE \E e \in Drafts : LogDecision(e) \/ DropDecision(e)
    <3>1. gate[d].pc \in {"decided", "logged"} /\ gate'[d].lane = gate[d].lane
          /\ gate'[d].score = gate[d].score /\ gate'[d].input = gate[d].input /\ gate'[d].version = gate[d].version
      BY <1>1, <2>4 DEF LogDecision, DropDecision, TypeOK, GateRow
    <3> QED BY <2>1, <3>1
  <2>5. CASE \E e \in Drafts \ {d} : \E input \in Input : Decide(e, input)
    BY <1>1, <2>1, <2>5 DEF Decide, TypeOK
  <2>6. \/ gate' = gate
        \/ \E e \in Drafts : LogDecision(e) \/ DropDecision(e)
        \/ \E e \in Drafts : \E input \in Input : Decide(e, input)
    BY DEF Next, vars, StartLoad, Deactivate, Insert, CommitLoad, FailLoad
  <2> QED BY <2>2, <2>3, <2>4, <2>5, <2>6
<1> QED BY <1>1 DEF DecisionsAreRecorded

\* When a set is active, guard_reasons is empty just for the drafts whose signals are
\* there and reach the set's bounds.
LEMMA GuardPasses ==
    ASSUME NEW v \in Versions, NEW in \in Input
    PROVE  ~ GuardBlocks(in, v) <=>
              /\ SetOf[v].minDeptProb # None =>
                    in.deptProb # None /\ in.deptProb >= SetOf[v].minDeptProb
              /\ SetOf[v].minProbeMargin # None =>
                    in.probeMargin # None /\ in.probeMargin >= SetOf[v].minProbeMargin
<1>1. /\ SetOf[v].minDeptProb \in Signals \cup {None}
      /\ SetOf[v].minProbeMargin \in Signals \cup {None}
  BY SetsAssumption DEF ThresholdSet
<1>2. in.deptProb \in Signals \cup {None} /\ in.probeMargin \in Signals \cup {None}
  BY DEF Input
<1>3. Signals \subseteq Int /\ v # None
  BY ScoreAssumption DEF Signals
<1>4. \A x, y \in Int : ~ (x < y) <=> x >= y
  OBVIOUS
<1>5. SetOf[v].minDeptProb # None =>
        (~ (in.deptProb = None \/ in.deptProb < SetOf[v].minDeptProb)
           <=> (in.deptProb # None /\ in.deptProb >= SetOf[v].minDeptProb))
  BY <1>1, <1>2, <1>3, <1>4
<1>6. SetOf[v].minProbeMargin # None =>
        (~ (in.probeMargin = None \/ in.probeMargin < SetOf[v].minProbeMargin)
           <=> (in.probeMargin # None /\ in.probeMargin >= SetOf[v].minProbeMargin))
  BY <1>1, <1>2, <1>3, <1>4
<1> QED BY <1>3, <1>5, <1>6, Zenon DEF GuardBlocks

LEMMA ExplainedImplies == ExplainedInv => DecisionIsExplained
<1> SUFFICES ASSUME ExplainedInv, NEW d \in Drafts, gate[d].pc = "logged"
             PROVE  LET in == gate[d].input
                        v == gate[d].version
                        Trusted ==
                           /\ in.score # None
                           /\ in.canAnswer
                           /\ v # None
                           /\ SetOf[v].minDeptProb # None =>
                                 in.deptProb # None /\ in.deptProb >= SetOf[v].minDeptProb
                           /\ SetOf[v].minProbeMargin # None =>
                                 in.probeMargin # None /\ in.probeMargin >= SetOf[v].minProbeMargin
                    IN  /\ v # None => sets[v].stored
                        /\ gate[d].lane = "fast" <=>
                              Trusted /\ SetOf[v].fast # None /\ in.score >= SetOf[v].fast
                        /\ gate[d].lane = "escalate" =>
                              ~ (Trusted /\ SetOf[v].assisted # None /\ in.score >= SetOf[v].assisted)
                        /\ gate[d].lane = "assisted" =>
                              Trusted /\ SetOf[v].assisted # None /\ in.score >= SetOf[v].assisted
                        /\ Trusted => LaneFitsLog(gate[d].lane, gate[d].score, SetOf[v])
  BY DEF DecisionIsExplained
<1> DEFINE in == gate[d].input
           v == gate[d].version
<1>1. in \in Input /\ v \in Versions \cup {None}
  BY DEF ExplainedInv, ActiveInv, TypeOK, GateRow
<1>2. gate[d].lane = LaneFor(in, v) /\ gate[d].score = Rounded(in.score)
      /\ (v # None => sets[v].stored)
  BY DEF ExplainedInv, DecisionsAreRecorded
<1> HIDE DEF in, v
<1>3. CASE v = None
  BY <1>2, <1>3 DEF LaneFor, in, v
<1>4. CASE v # None
  BY <1>1, <1>2, <1>4, GuardPasses, LogFitsLane DEF LaneFor, Reaches, in, v
<1> QED BY <1>3, <1>4

\* Every logged lane follows from the draft's signals and the threshold set the log
\* names, whatever has been loaded since, and the logged score fits the lane.
THEOREM DecisionsExplained == Spec => []DecisionIsExplained
BY ExplainedInit, ExplainedNext, ExplainedImplies, PTL DEF Spec
=============================================================================
