----------------------------- MODULE MC_PubSub -----------------------------
(***************************************************************************)
(* Model-checking instance of PubSub: two Subscribers as model values.     *)
(***************************************************************************)
EXTENDS PubSub, TLC

CONSTANTS s1, s2

MCSubs == {s1, s2}

\* Subscribers are interchangeable processes.
MCSymmetry == Permutations(MCSubs)

=============================================================================
