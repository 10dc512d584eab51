--------------------------- MODULE SegmentProofs ---------------------------
(***************************************************************************)
(* Type correctness of Segment for every number of attaching endpoints    *)
(* and every bound on owner restarts.  The strengthening IInv adds one    *)
(* fact of the owner's control flow: between OwnerStart and CreateShm a   *)
(* new identity is still free (StartBounded), so the segment CreateShm    *)
(* makes is one of SegIds.                                                 *)
(*                                                                         *)
(* Segment's other properties (OwnerKeepsName, AttachSeesLayout,          *)
(* AttachWaitsForCreate, OrphanRecvFails) are what the spec says and the  *)
(* code breaks; TLC finds each violated.                                   *)
(***************************************************************************)
EXTENDS Segment, TLAPS

\* The bound on create_segment calls is a number (no run of Segment passes,
\* so it is a hypothesis of the proofs rather than an ASSUME of Segment).
MaxCreatesNat == MaxCreates \in Nat

StartBounded == opc \in {"stale", "create"} => creates < MaxCreates

IInv == TypeOK /\ StartBounded

-----------------------------------------------------------------------------
LEMMA InitIInv ==
  ASSUME MaxCreatesNat PROVE Init => IInv
  BY DEF MaxCreatesNat, Init, IInv, TypeOK, StartBounded, SegIds, NoSeg,
     OwnerStates, AttacherStates

LEMMA NextIInv ==
  ASSUME MaxCreatesNat PROVE IInv /\ [Next]_vars => IInv'
<1> SUFFICES ASSUME IInv, [Next]_vars PROVE IInv'
  OBVIOUS
<1> USE DEF MaxCreatesNat, IInv, TypeOK, StartBounded, SegIds, NoSeg,
    OwnerStates, AttacherStates
<1>1. CASE OwnerStart
  BY <1>1 DEF OwnerStart
<1>2. CASE CleanStale
  BY <1>2 DEF CleanStale
<1>3. CASE CreateShm
  <2>1. creates < MaxCreates
    BY <1>3 DEF CreateShm
  <2>2. creates + 1 \in SegIds
    BY <2>1
  <2>3. QED
    BY <1>3, <2>2 DEF CreateShm
<1>4. CASE InitMagic
  BY <1>4 DEF InitMagic
<1>5. CASE InitLayout
  BY <1>5 DEF InitLayout
<1>6. CASE OwnerClose
  BY <1>6 DEF OwnerClose
<1>7. CASE OwnerCrash
  BY <1>7 DEF OwnerCrash
<1>8. ASSUME NEW a \in Attachers, StartAttach(a) PROVE IInv'
  BY <1>8 DEF StartAttach
<1>9. ASSUME NEW a \in Attachers, AttachOpen(a) PROVE IInv'
  <2>1. named \in SegIds
    BY <1>9 DEF AttachOpen
  <2>2. QED
    BY <1>9, <2>1 DEF AttachOpen
<1>10. ASSUME NEW a \in Attachers, AttachTimeout(a) PROVE IInv'
  BY <1>10 DEF AttachTimeout
<1>11. ASSUME NEW a \in Attachers, Recv(a) PROVE IInv'
  BY <1>11 DEF Recv
<1>12. ASSUME NEW a \in Attachers, AttacherClose(a) PROVE IInv'
  BY <1>12 DEF AttacherClose
<1>13. ASSUME NEW a \in Attachers, AttacherExit(a) PROVE IInv'
  BY <1>13 DEF AttacherExit
<1>14. CASE UNCHANGED vars
  BY <1>14 DEF vars
<1>15. QED
  BY <1>1, <1>2, <1>3, <1>4, <1>5, <1>6, <1>7, <1>8, <1>9, <1>10, <1>11,
     <1>12, <1>13, <1>14 DEF Next

LEMMA IInvHolds ==
  ASSUME MaxCreatesNat PROVE Spec => []IInv
  BY InitIInv, NextIInv, PTL DEF Spec

-----------------------------------------------------------------------------
(* Every reachable state is well typed, through owner crashes, restarts   *)
(* and attacher process exits: the name and every endpoint refer to one  *)
(* of the segments created so far, or to none.                            *)
THEOREM SegmentTypeCorrect ==
  ASSUME MaxCreatesNat PROVE Spec => []TypeOK
<1>1. Spec => []IInv
  BY IInvHolds
<1>2. QED
  BY <1>1, PTL DEF IInv
=============================================================================
