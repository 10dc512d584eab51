----------------------------- MODULE MC_ReqRep -----------------------------
(***************************************************************************)
(* Model-checking instance of ReqRep: one Requester and one Replier on     *)
(* a service whose two rings have NumSlots slots each.                     *)
(***************************************************************************)
EXTENDS ReqRep, TLC

=============================================================================
