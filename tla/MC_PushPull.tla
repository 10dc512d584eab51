---------------------------- MODULE MC_PushPull ----------------------------
(***************************************************************************)
(* Model-checking instance of PushPull: two Puller processes as model     *)
(* values, so that two claims can race for the shared tail.               *)
(***************************************************************************)
EXTENDS PushPull, TLC

CONSTANTS p1, p2

MCPullers == {p1, p2}

\* Pullers are interchangeable processes: permuting them is sound for the
\* safety runs (not used with liveness properties).
MCSymmetry == Permutations(MCPullers)

=============================================================================
