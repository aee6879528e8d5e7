---------------------------- MODULE MCGateService ----------------------------
(***************************************************************************)
(* GateService for TLC: a set with both lanes open and the guard on, one   *)
(* with only the assisted lane certified and the guard off.                *)
(***************************************************************************)
EXTENDS GateService, TLC

CONSTANTS judge1, judge2

MCVersions == {judge1, judge2}

MCSetOf ==
    (judge1 :> [fast |-> 6, assisted |-> 3, minDeptProb |-> 1, minProbeMargin |-> 1]) @@
    (judge2 :> [fast |-> None, assisted |-> 6, minDeptProb |-> None, minProbeMargin |-> None])

Symmetry == Permutations(Loaders)
=============================================================================
