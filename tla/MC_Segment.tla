---------------------------- MODULE MC_Segment -----------------------------
(***************************************************************************)
(* Model-checking instance of Segment: two attaching endpoints as model    *)
(* values, so that one can attach while the other is orphaned.             *)
(***************************************************************************)
EXTENDS Segment, TLC

CONSTANTS a1, a2

MCAttachers == {a1, a2}

\* Attaching endpoints are interchangeable.
MCSymmetry == Permutations(MCAttachers)

=============================================================================
