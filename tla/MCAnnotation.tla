---------------------------- MODULE MCAnnotation ----------------------------
(***************************************************************************)
(* Instances of Annotation for TLC.                                        *)
(***************************************************************************)
EXTENDS Annotation, TLC

Symmetry == Permutations(Drafts) \cup Permutations(Annotators) \cup Permutations(Writers)
=============================================================================
