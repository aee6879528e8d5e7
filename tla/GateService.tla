----------------------------- MODULE GateService -----------------------------
(***************************************************************************)
(* The confidence gate: versioned lane thresholds in the database, the     *)
(* script that certifies and activates a new set while the server runs     *)
(* (backend/app/scripts/load_thresholds.py), and the pipeline's gate node  *)
(* that scores a draft, assigns a lane and logs the decision               *)
(* (ai/gate/service.py, ai/graph/nodes.py, backend/app/services/           *)
(* pipeline.py).                                                           *)
(*                                                                         *)
(* A load is one transaction of three statements; PostgreSQL's row locks   *)
(* and the partial unique index uq_gate_thresholds_active order two loads  *)
(* that overlap.  Scores are integers: Grain of them round to one logged   *)
(* score (round(score, 4)).                                                *)
(***************************************************************************)
EXTENDS Integers, FiniteSets, Rounding

CONSTANTS
    Versions,     \* threshold sets that may be loaded
    SetOf,        \* what each of them holds
    Loaders,      \* runs of load_thresholds.py that may overlap
    Drafts,       \* drafts the gate decides
    MaxScore,     \* scores are 0 .. MaxScore
    Grain,        \* scores that share one logged value
    MaxSignal,    \* routing signals are 0 .. MaxSignal
    None          \* NULL, or a signal that is missing

Scores == 0 .. MaxScore
Signals == 0 .. MaxSignal

\* fast, assisted: None when no threshold could be certified.
\* minDeptProb, minProbeMargin: the shift guard, None when it is off.
ThresholdSet == [fast : Scores \cup {None}, assisted : Scores \cup {None},
                 minDeptProb : Signals \cup {None}, minProbeMargin : Signals \cup {None}]

ASSUME ScoreAssumption ==
    /\ MaxScore \in Nat
    /\ MaxSignal \in Nat
    /\ Grain \in Nat \ {0}
    /\ None \notin Int
    /\ None \notin Versions

\* A number the log can keep: a multiple of the grain.
OnGrid(s) == \E k \in 0 .. MaxScore : s = k * Grain

\* Thresholds are candidates of risk_control's DEFAULT_GRID, which has two places.
ASSUME SetsAssumption ==
    /\ SetOf \in [Versions -> ThresholdSet]
    /\ \A v \in Versions :
          /\ SetOf[v].fast # None => OnGrid(SetOf[v].fast)
          /\ SetOf[v].assisted # None => OnGrid(SetOf[v].assisted)

VARIABLES
    sets,      \* gate_thresholds: for each version, whether it is stored and active
    loader,    \* the transaction of each loader
    gate       \* the pipeline run of each draft, and what it logged

vars == <<sets, loader, gate>>

Lanes == {"fast", "assisted", "escalate"}

\* What the pipeline knows of a draft when the gate runs: the model's score (None:
\* no model is deployed), whether the draft answers, and two routing signals.
Input == [score : Scores \cup {None}, canAnswer : BOOLEAN,
          deptProb : Signals \cup {None}, probeMargin : Signals \cup {None}]

NoInput == [score |-> None, canAnswer |-> FALSE, deptProb |-> None, probeMargin |-> None]

LoaderRow == [pc : {"idle", "updating", "inserting", "inserted"},
              version : Versions \cup {None},
              seen : SUBSET Versions,    \* rows the UPDATE found active
              held : SUBSET Versions]    \* rows it deactivated, locked until the end

IdleLoader == [pc |-> "idle", version |-> None, seen |-> {}, held |-> {}]

GateRow == [pc : {"waiting", "decided", "logged", "dropped"},
            input : Input,
            version : Versions \cup {None},    \* gate_decisions.thresholds_id
            lane : Lanes,
            score : Int \cup {None}]           \* gate_decisions.score, rounded

WaitingGate == [pc |-> "waiting", input |-> NoInput, version |-> None,
                lane |-> "escalate", score |-> None]

TypeOK ==
    /\ sets \in [Versions -> [stored : BOOLEAN, active : BOOLEAN]]
    /\ loader \in [Loaders -> LoaderRow]
    /\ gate \in [Drafts -> GateRow]

Init ==
    /\ sets = [v \in Versions |-> [stored |-> FALSE, active |-> FALSE]]
    /\ loader = [l \in Loaders |-> IdleLoader]
    /\ gate = [d \in Drafts |-> WaitingGate]

Active == {v \in Versions : sets[v].active}

----------------------------------------------------------------------------
(* load_thresholds.py *)

\* UPDATE gate_thresholds SET active = false WHERE active: the rows the statement sees.
StartLoad(l, v) ==
    /\ loader[l].pc = "idle"
    /\ loader' = [loader EXCEPT ![l] = [pc |-> "updating", version |-> v, seen |-> Active, held |-> {}]]
    /\ UNCHANGED <<sets, gate>>

LockedByOthers(l) == UNION {loader[m].held : m \in Loaders \ {l}}

\* The UPDATE waits for the rows' locks, and skips a row that the lock's owner
\* has deactivated meanwhile.
Deactivate(l) ==
    /\ loader[l].pc = "updating"
    /\ loader[l].seen \cap LockedByOthers(l) = {}
    /\ loader' = [loader EXCEPT ![l].pc = "inserting", ![l].held = loader[l].seen \cap Active]
    /\ UNCHANGED <<sets, gate>>

\* Mutant: no unique index.
Conflicts_NoIndex(l) == {}

\* Committed rows that the new row collides with on uq_gate_thresholds_active.
Conflicts(l) == Active \ loader[l].held

\* INSERT ... active = true.  It waits for transactions whose outcome decides
\* whether it collides.
InsertWaits(l) ==
    \/ \E m \in Loaders \ {l} : loader[m].pc = "inserted"
    \/ Conflicts(l) \cap LockedByOthers(l) # {}

Insert(l) ==
    /\ loader[l].pc = "inserting"
    /\ ~ InsertWaits(l)
    /\ Conflicts(l) = {}
    /\ ~ sets[loader[l].version].stored
    /\ loader' = [loader EXCEPT ![l].pc = "inserted"]
    /\ UNCHANGED <<sets, gate>>

CommitLoad(l) ==
    /\ loader[l].pc = "inserted"
    /\ sets' = [v \in Versions |->
                  IF v = loader[l].version THEN [stored |-> TRUE, active |-> TRUE]
                  ELSE IF v \in loader[l].held THEN [sets[v] EXCEPT !.active = FALSE]
                  ELSE sets[v]]
    /\ loader' = [loader EXCEPT ![l] = IdleLoader]
    /\ UNCHANGED gate

\* An IntegrityError (active or version is not unique), or any other failure.
FailLoad(l) ==
    /\ loader[l].pc # "idle"
    /\ loader' = [loader EXCEPT ![l] = IdleLoader]
    /\ UNCHANGED <<sets, gate>>

----------------------------------------------------------------------------
(* The gate *)

\* Mutant: a missing signal passes the guard.
GuardBlocks_MissingPasses(input, v) ==
    /\ v # None
    /\ \/ /\ SetOf[v].minDeptProb # None /\ input.deptProb # None
          /\ input.deptProb < SetOf[v].minDeptProb
       \/ /\ SetOf[v].minProbeMargin # None /\ input.probeMargin # None
          /\ input.probeMargin < SetOf[v].minProbeMargin

\* guard_reasons: the shift guard of set v escalates this draft.
GuardBlocks(input, v) ==
    /\ v # None
    /\ \/ /\ SetOf[v].minDeptProb # None
          /\ input.deptProb = None \/ input.deptProb < SetOf[v].minDeptProb
       \/ /\ SetOf[v].minProbeMargin # None
          /\ input.probeMargin = None \/ input.probeMargin < SetOf[v].minProbeMargin

Reaches(score, threshold) == threshold # None /\ score >= threshold

\* lane_for, with thresholds read from set v (None: no set is active).
LaneFor(input, v) ==
    IF input.score = None \/ ~ input.canAnswer \/ v = None \/ GuardBlocks(input, v)
    THEN "escalate"
    ELSE IF Reaches(input.score, SetOf[v].fast) THEN "fast"
    ELSE IF Reaches(input.score, SetOf[v].assisted) THEN "assisted"
    ELSE "escalate"

\* round(score, 4)
Rounded(s) == IF s = None THEN None ELSE RoundedTo(s, Grain)

\* The gate node reads the active set and decides in one go; the decision stays in
\* the pipeline's memory.
Decide(d, input) ==
    /\ gate[d].pc = "waiting"
    /\ \E v \in IF Active = {} THEN {None} ELSE Active :
          gate' = [gate EXCEPT ![d] = [pc |-> "decided", input |-> input, version |-> v,
                                       lane |-> LaneFor(input, v),
                                       score |-> Rounded(input.score)]]
    /\ UNCHANGED <<sets, loader>>

\* _run commits: gate_decisions logs the decision, the ticket takes its lane.
LogDecision(d) ==
    /\ gate[d].pc = "decided"
    /\ gate' = [gate EXCEPT ![d].pc = "logged"]
    /\ UNCHANGED <<sets, loader>>

\* The run fails after the gate; its decision is gone and the ticket goes to an
\* admin without passing the gate again.
DropDecision(d) ==
    /\ gate[d].pc = "decided"
    /\ gate' = [gate EXCEPT ![d].pc = "dropped"]
    /\ UNCHANGED <<sets, loader>>

Next ==
    \/ \E l \in Loaders :
          \/ \E v \in Versions : StartLoad(l, v)
          \/ Deactivate(l)
          \/ Insert(l)
          \/ CommitLoad(l)
          \/ FailLoad(l)
    \/ \E d \in Drafts :
          \/ \E input \in Input : Decide(d, input)
          \/ LogDecision(d)
          \/ DropDecision(d)

Spec == Init /\ [][Next]_vars

----------------------------------------------------------------------------

\* At most one threshold set is active, and from the first load on there always is
\* one: no reader ever finds the gap between deactivating the old and inserting the
\* new, and two overlapping loads never both succeed.
ExactlyOneActive ==
    /\ \A v, w \in Active : v = w
    /\ (\E v \in Versions : sets[v].stored) => Active # {}

Exceeds(score, threshold) == threshold # None /\ score > threshold

\* What is logged of the score reaches the threshold of the lane it was given and exceeds none
\* of a better lane; rounded up, it may equal one that the score did not reach.
LaneFitsLog(lane, logged, t) ==
    /\ lane = "fast" => Reaches(logged, t.fast)
    /\ lane = "assisted" => Reaches(logged, t.assisted)
    /\ lane # "fast" => ~ Exceeds(logged, t.fast)
    /\ lane = "escalate" => ~ Exceeds(logged, t.assisted)

\* Every logged decision can be explained, after any recalibration, from the draft and
\* the threshold set it names: a shown draft was scored, answers, passed that set's
\* guard and reaches that set's certified threshold; a withheld one fails one of these.
\* The lane follows from the score as the model gave it; of a trusted draft the four places
\* that are logged fit it too.
DecisionIsExplained ==
    \A d \in Drafts :
        gate[d].pc = "logged" =>
            LET in == gate[d].input
                v == gate[d].version
                Trusted == /\ in.score # None
                           /\ in.canAnswer
                           /\ v # None
                           /\ SetOf[v].minDeptProb # None =>
                                 in.deptProb # None /\ in.deptProb >= SetOf[v].minDeptProb
                           /\ SetOf[v].minProbeMargin # None =>
                                 in.probeMargin # None /\ in.probeMargin >= SetOf[v].minProbeMargin
            IN  /\ v # None => sets[v].stored
                /\ gate[d].lane = "fast" <=>
                      Trusted /\ SetOf[v].fast # None /\ in.score >= SetOf[v].fast
                /\ gate[d].lane = "escalate" =>
                      ~ (Trusted /\ SetOf[v].assisted # None /\ in.score >= SetOf[v].assisted)
                /\ gate[d].lane = "assisted" =>
                      Trusted /\ SetOf[v].assisted # None /\ in.score >= SetOf[v].assisted
                /\ Trusted => LaneFitsLog(gate[d].lane, gate[d].score, SetOf[v])
=============================================================================
