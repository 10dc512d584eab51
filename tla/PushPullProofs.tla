--------------------------- MODULE PushPullProofs ---------------------------
(***************************************************************************)
(* Proofs about PushPull for every number of slots, sends, Pullers and    *)
(* crashes: type correctness and the single-writer ownership of slots     *)
(* (NoSlotRace).                                                           *)
(*                                                                         *)
(* Neither TypeOK nor NoSlotRace is inductive by itself.  The             *)
(* strengthening IInv adds what the code's control flow guarantees:       *)
(*   - a send in progress has a message identity (SendInProgress);        *)
(*   - only the lock holder is inside the `with self._lock` block         *)
(*     (LockHeld);                                                         *)
(*   - a Puller past a non-empty check holds the current TAIL, and that   *)
(*     slot is committed (ClaimValid);                                    *)
(*   - a Pusher past the full test has room: next_head != tail            *)
(*     (RoomReserved).                                                     *)
(* Between them, a TAIL store keeps the Pusher's room (next_head moves    *)
(* with tail, and NextSlot is injective) and a HEAD commit never reaches  *)
(* the slot a Puller is reading.                                          *)
(***************************************************************************)
EXTENDS PushPull, ShmRingProofs, SequenceTheorems, TLAPS

InCS(p) == pc[p] \in {"check", "len", "body", "advance", "empty", "claimed"}

SendInProgress == ppc # "idle" => sends \in MsgIds

LockHeld == \A p \in Pullers : InCS(p) => lock = p

ClaimValid ==
  \A p \in Pullers :
    pc[p] \in {"len", "body", "advance"} => rtail[p] = tail /\ tail # head

RoomReserved == ppc \in {"len", "body", "commit"} => ~IsFull(head, tail)

IInv == TypeOK /\ SendInProgress /\ LockHeld /\ ClaimValid /\ RoomReserved

-----------------------------------------------------------------------------
LEMMA InitIInv == Init => IInv
  BY NumSlotsAssumption, MaxMsgsAssumption, MaxCrashesAssumption, SMTT(30)
  DEF Init, IInv, TypeOK, SendInProgress, LockHeld, ClaimValid, RoomReserved,
      InCS, ZeroSlots, Slots, Data, Copy, PusherStates, PullerStates, Modes

LEMMA NextIInv == IInv /\ [Next]_vars => IInv'
<1> SUFFICES ASSUME IInv, [Next]_vars PROVE IInv'
  OBVIOUS
<1> USE NumSlotsAssumption, MaxMsgsAssumption, MaxCrashesAssumption,
        PullersAssumption
    DEF IInv, TypeOK, InCS, Modes, PusherStates, PullerStates, Data, MsgIds,
        Copy
<1>1. ASSUME NEW m \in Modes, Send(m) PROVE IInv'
  <2>1. /\ head' = head /\ tail' = tail /\ msgCount' = msgCount
        /\ dropCount' = dropCount /\ slotLen' = slotLen /\ slotBody' = slotBody
        /\ pc' = pc /\ rtail' = rtail /\ rlen' = rlen /\ rbody' = rbody
        /\ lock' = lock /\ recvd' = recvd /\ crashes' = crashes
        /\ written' = written /\ taken' = taken
    BY <1>1 DEF Send, header, pullers
  <2>2. ppc' = "check" /\ pmode' = m /\ sends' = sends + 1 /\ sends < MaxMsgs
    BY <1>1 DEF Send
  <2>3. TypeOK'
    <3>1. sends' \in 0 .. MaxMsgs /\ ppc' \in PusherStates /\ pmode' \in Modes
      BY <2>2
    <3>2. QED
      BY <2>1, <3>1, Zenon
  <2>4. SendInProgress'
    BY <2>2 DEF SendInProgress
  <2>5. (LockHeld /\ ClaimValid /\ RoomReserved)'
    BY <2>1, <2>2 DEF LockHeld, ClaimValid, RoomReserved
  <2>6. QED
    BY <2>3, <2>4, <2>5
<1>2. CASE WriteCheck
  <2>1. /\ head' = head /\ tail' = tail /\ msgCount' = msgCount
        /\ slotLen' = slotLen /\ slotBody' = slotBody
        /\ pmode' = pmode /\ sends' = sends
        /\ pc' = pc /\ rtail' = rtail /\ rlen' = rlen /\ rbody' = rbody
        /\ lock' = lock /\ recvd' = recvd /\ crashes' = crashes
        /\ written' = written /\ taken' = taken
    BY <1>2 DEF WriteCheck, pullers
  <2>2. /\ ppc = "check" /\ ppc' \in {"len", "idle"} /\ dropCount' \in Nat
        /\ ppc' = "len" => ~IsFull(head, tail)
    BY <1>2 DEF WriteCheck
  <2>3. TypeOK'
    BY <2>1, <2>2
  <2>4. QED
    BY <2>1, <2>2, <2>3 DEF SendInProgress, LockHeld, ClaimValid,
       RoomReserved
<1>3. CASE WriteLen
  BY <1>3 DEF WriteLen, TypeOK, SendInProgress, LockHeld, ClaimValid,
     RoomReserved, InCS, PusherStates, Data, MsgIds, pullers
<1>4. CASE WriteBody
  BY <1>4 DEF WriteBody, TypeOK, SendInProgress, LockHeld, ClaimValid,
     RoomReserved, InCS, PusherStates, Data, MsgIds, pullers
<1>5. CASE WriteCommit
  <2>1. head' = NextSlot(head) /\ NextSlot(head) # tail
    BY <1>5 DEF WriteCommit, RoomReserved, IsFull
  <2>2. UNCHANGED <<tail, msgCount, dropCount, slotLen, slotBody, pmode, sends,
                    pullers, taken>>
    BY <1>5 DEF WriteCommit
  <2>3. ppc = "commit" /\ ppc' = "count" /\ written' = Append(written, sends)
    BY <1>5 DEF WriteCommit
  <2>4. sends \in MsgIds
    BY <2>3 DEF SendInProgress
  <2>5. TypeOK'
    <3>1. written' \in Seq(MsgIds)
      BY <2>3, <2>4
    <3>2. head' \in Slots
      BY <2>1, NextSlotType
    <3>3. QED
      BY <2>2, <2>3, <3>1, <3>2 DEF pullers
  <2>6. ClaimValid'
    BY <2>1, <2>2 DEF ClaimValid, pullers
  <2>7. QED
    BY <2>2, <2>3, <2>4, <2>5, <2>6 DEF SendInProgress, LockHeld,
       RoomReserved, pullers
<1>6. CASE WriteCount
  <2>1. /\ head' = head /\ tail' = tail /\ dropCount' = dropCount
        /\ slotLen' = slotLen /\ slotBody' = slotBody
        /\ pmode' = pmode /\ sends' = sends
        /\ pc' = pc /\ rtail' = rtail /\ rlen' = rlen /\ rbody' = rbody
        /\ lock' = lock /\ recvd' = recvd /\ crashes' = crashes
        /\ written' = written /\ taken' = taken
    BY <1>6 DEF WriteCount, pullers
  <2>2. ppc' = "idle" /\ msgCount' = msgCount + 1
    BY <1>6 DEF WriteCount
  <2>3. TypeOK'
    <3>1. msgCount' \in Nat /\ ppc' \in PusherStates
      BY <2>2
    <3>2. QED
      BY <2>1, <3>1, Zenon
  <2>4. QED
    BY <2>1, <2>2, <2>3 DEF SendInProgress, LockHeld, ClaimValid,
       RoomReserved
<1>7. ASSUME NEW p \in Pullers, Acquire(p) PROVE IInv'
  BY <1>7 DEF Acquire, TypeOK, SendInProgress, LockHeld, ClaimValid,
     RoomReserved, InCS, PullerStates, header, pusher
<1>8. ASSUME NEW p \in Pullers, ReadCheck(p) PROVE IInv'
  BY <1>8 DEF ReadCheck, TypeOK, SendInProgress, LockHeld, ClaimValid,
     RoomReserved, InCS, PullerStates, header, pusher
<1>9. ASSUME NEW p \in Pullers, ReadLen(p) PROVE IInv'
  BY <1>9 DEF ReadLen, TypeOK, SendInProgress, LockHeld, ClaimValid,
     RoomReserved, InCS, PullerStates, header, pusher
<1>10. ASSUME NEW p \in Pullers, ReadBody(p) PROVE IInv'
  BY <1>10 DEF ReadBody, TypeOK, SendInProgress, LockHeld, ClaimValid,
     RoomReserved, InCS, PullerStates, header, pusher
<1>11. ASSUME NEW p \in Pullers, AdvanceTail(p) PROVE IInv'
  <2>1. rtail[p] = tail /\ tail # head /\ lock = p
    BY <1>11 DEF AdvanceTail, ClaimValid, LockHeld
  <2>2. /\ tail' = NextSlot(tail)
        /\ taken' = Append(taken, slotBody[tail])
        /\ pc' = [pc EXCEPT ![p] = "claimed"]
    BY <1>11, <2>1 DEF AdvanceTail
  <2>3. UNCHANGED <<head, msgCount, dropCount, slotLen, slotBody, pusher,
                    rtail, rlen, rbody, lock, recvd, crashes, written>>
    BY <1>11 DEF AdvanceTail
  <2>4. \A q \in Pullers : q # p => ~InCS(q)
    BY <2>1 DEF LockHeld
  <2>5. TypeOK'
    <3>1. taken' \in Seq(Data)
      BY <2>2
    <3>2. tail' \in Slots
      BY <2>2, NextSlotType
    <3>3. pc' \in [Pullers -> PullerStates]
      BY <2>2
    <3>4. QED
      BY <2>3, <3>1, <3>2, <3>3 DEF pusher
  <2>6. ClaimValid'
    BY <2>2, <2>3, <2>4 DEF ClaimValid
  <2>7. LockHeld'
    BY <2>1, <2>2, <2>3 DEF LockHeld
  <2>8. RoomReserved'
    <3>1. NextSlot(head) # NextSlot(tail)
      BY <2>1, NextSlotInjective
    <3>2. QED
      BY <2>2, <2>3, <3>1 DEF RoomReserved, IsFull, pusher
  <2>9. QED
    BY <2>3, <2>5, <2>6, <2>7, <2>8 DEF SendInProgress, pusher
<1>12. ASSUME NEW p \in Pullers, Release(p) PROVE IInv'
  <2>1. lock = p /\ pc[p] \in {"empty", "claimed"}
    BY <1>12 DEF Release, LockHeld
  <2>2. /\ lock' = NoHolder
        /\ pc' = [pc EXCEPT ![p] = "idle"]
    BY <1>12 DEF Release
  <2>9. recvd' \in [Pullers -> Seq(Copy)]
    <3>1. CASE pc[p] = "claimed" /\ rbody[p] \notin Falsy
      <4>1. [len |-> rlen[p], body |-> rbody[p]] \in Copy
        OBVIOUS
      <4>2. recvd' = [recvd EXCEPT ![p] = Append(@, [len |-> rlen[p], body |-> rbody[p]])]
        BY <1>12, <3>1 DEF Release
      <4>3. Append(recvd[p], [len |-> rlen[p], body |-> rbody[p]]) \in Seq(Copy)
        <5>1. recvd[p] \in Seq(Copy)
          OBVIOUS
        <5>2. QED
          BY <4>1, <5>1, AppendProperties
      <4>4. QED
        BY <4>2, <4>3
    <3>2. CASE ~(pc[p] = "claimed" /\ rbody[p] \notin Falsy)
      BY <1>12, <3>2 DEF Release
    <3>3. QED
      BY <3>1, <3>2
  <2>3. /\ head' = head /\ tail' = tail /\ msgCount' = msgCount
        /\ dropCount' = dropCount /\ slotLen' = slotLen /\ slotBody' = slotBody
        /\ ppc' = ppc /\ pmode' = pmode /\ sends' = sends
        /\ rtail' = rtail /\ rlen' = rlen /\ rbody' = rbody
        /\ crashes' = crashes /\ written' = written /\ taken' = taken
    BY <1>12 DEF Release, header, pusher
  <2>4. \A q \in Pullers : q # p => ~InCS(q)
    BY <2>1 DEF LockHeld
  <2>5. TypeOK'
    BY <2>2, <2>3, <2>9
  <2>6. LockHeld'
    BY <2>2, <2>4 DEF LockHeld
  <2>7. ClaimValid'
    BY <2>2, <2>3, SMTT(30) DEF ClaimValid
  <2>8. QED
    BY <2>3, <2>5, <2>6, <2>7 DEF SendInProgress, RoomReserved
<1>13. ASSUME NEW p \in Pullers, Crash(p) PROVE IInv'
  <2>1. /\ lock' = IF lock = p THEN NoHolder ELSE lock
        /\ pc' = [pc EXCEPT ![p] = "idle"]
        /\ crashes < MaxCrashes /\ crashes' = crashes + 1
    BY <1>13 DEF Crash
  <2>2. /\ head' = head /\ tail' = tail /\ msgCount' = msgCount
        /\ dropCount' = dropCount /\ slotLen' = slotLen /\ slotBody' = slotBody
        /\ ppc' = ppc /\ pmode' = pmode /\ sends' = sends
        /\ rtail' = rtail /\ rlen' = rlen /\ rbody' = rbody
        /\ recvd' = recvd /\ written' = written /\ taken' = taken
    BY <1>13 DEF Crash, header, pusher
  <2>3. \A q \in Pullers : q # p /\ InCS(q) => lock # p
    BY DEF LockHeld
  <2>4. TypeOK'
    <3>1. /\ crashes' \in 0 .. MaxCrashes
          /\ lock' \in Pullers \cup {NoHolder}
          /\ pc' \in [Pullers -> PullerStates]
      BY <2>1
    <3>2. QED
      BY <2>2, <3>1, Zenon
  <2>5. LockHeld'
    BY <2>1, <2>3, SMTT(30) DEF LockHeld
  <2>6. ClaimValid'
    BY <2>1, <2>2, SMTT(30) DEF ClaimValid
  <2>7. QED
    BY <2>2, <2>4, <2>5, <2>6 DEF SendInProgress, RoomReserved
<1>14. CASE UNCHANGED vars
  BY <1>14 DEF vars, header, pusher, pullers, TypeOK, SendInProgress,
     LockHeld, ClaimValid, RoomReserved, InCS
<1>15. QED
  BY <1>1, <1>2, <1>3, <1>4, <1>5, <1>6, <1>7, <1>8, <1>9, <1>10, <1>11,
     <1>12, <1>13, <1>14 DEF Next, PusherStep, PullerStep

LEMMA IInvHolds == Spec => []IInv
  BY InitIInv, NextIInv, PTL DEF Spec

-----------------------------------------------------------------------------
(* Every reachable state is well typed: cursors stay in 0 .. num_slots-1, *)
(* slots hold messages or zero bytes, and each Puller's returned messages *)
(* are (length prefix, payload) pairs.                                    *)
THEOREM TypeCorrect == Spec => []TypeOK
  BY IInvHolds, PTL DEF IInv

(* While write_message stores into slot[head] (_write_slot), no Puller's   *)
(* read_message_shared_tail is loading that slot, for any ring size and   *)
(* any number of Pullers.                                                  *)
THEOREM SlotRaceFree == Spec => []NoSlotRace
  <1>1. IInv => NoSlotRace
    BY DEF IInv, ClaimValid, NoSlotRace
  <1>2. QED
    BY <1>1, IInvHolds, PTL

-----------------------------------------------------------------------------
(* MSG_COUNT counts HEAD commits.                                           *)

LEMMA NextCounts == IInv /\ CountsCommits /\ [Next]_vars => CountsCommits'
<1> SUFFICES ASSUME IInv, CountsCommits, [Next]_vars PROVE CountsCommits'
  OBVIOUS
<1> USE DEF IInv, TypeOK, CountsCommits
<1>1. ASSUME NEW m \in Modes, Send(m) PROVE CountsCommits'
  BY <1>1 DEF Send, header
<1>2. CASE WriteCheck
  BY <1>2 DEF WriteCheck
<1>3. CASE WriteLen
  BY <1>3 DEF WriteLen
<1>4. CASE WriteBody
  BY <1>4 DEF WriteBody
<1>5. CASE WriteCommit
  <2>1. ppc = "commit" /\ ppc' = "count" /\ msgCount' = msgCount
        /\ written' = Append(written, sends)
    BY <1>5 DEF WriteCommit
  <2>2. Len(written') = Len(written) + 1
    BY <2>1
  <2>3. QED
    BY <2>1, <2>2
<1>6. CASE WriteCount
  BY <1>6 DEF WriteCount
<1>7. ASSUME NEW p \in Pullers, PullerStep(p) \/ Crash(p) PROVE CountsCommits'
  BY <1>7 DEF PullerStep, Crash, Acquire, ReadCheck, ReadLen, ReadBody,
     AdvanceTail, Release, header, pusher
<1>8. CASE UNCHANGED vars
  BY <1>8 DEF vars, header, pusher
<1>9. QED
  BY <1>1, <1>2, <1>3, <1>4, <1>5, <1>6, <1>7, <1>8 DEF Next, PusherStep

(* write_message increments MSG_COUNT exactly once per HEAD commit and    *)
(* never on a drop or a timeout (spec 8), for every ring size and any     *)
(* interleaving with the Pullers: MSG_COUNT lags the commits by one only  *)
(* between the HEAD store and the increment.                               *)
THEOREM MsgCountExact == Spec => []CountsCommits
<1>1. Init => CountsCommits
  BY DEF Init, CountsCommits
<1>2. Spec => []IInv /\ [][Next]_vars /\ Init
  BY IInvHolds, PTL DEF Spec
<1>3. QED
  BY <1>1, <1>2, NextCounts, PTL

-----------------------------------------------------------------------------
(* Only a TAIL claim moves TAIL.                                           *)

LEMMA TailStep ==
  ASSUME IInv, [Next]_vars
  PROVE  \/ \E p \in Pullers : AdvanceTail(p)
         \/ tail' = tail
  BY DEF Next, PusherStep, PullerStep, Send, WriteCheck, WriteLen, WriteBody,
     WriteCommit, WriteCount, Acquire, ReadCheck, ReadLen, ReadBody, Release,
     Crash, vars, header

(* read_message_shared_tail's TAIL store, under the FileLock, claims only *)
(* a committed slot and moves TAIL by exactly one, for every ring size,   *)
(* any number of Pullers and any Puller deaths: the TAIL it loaded is     *)
(* still the shared TAIL and is not HEAD (ClaimValid).                    *)
THEOREM TailClaimsOnlyCommitted == Spec => TailClaimsCommitted
<1>1. IInv /\ [Next]_vars
        => [tail' # tail => UsedSlots(head, tail) > 0 /\ tail' = NextSlot(tail)]_vars
  <2> SUFFICES ASSUME IInv, [Next]_vars
               PROVE  tail' # tail => UsedSlots(head, tail) > 0 /\ tail' = NextSlot(tail)
    OBVIOUS
  <2>1. CASE \E p \in Pullers : AdvanceTail(p)
    <3>1. PICK p \in Pullers : AdvanceTail(p)
      BY <2>1
    <3>2. rtail[p] = tail /\ tail # head /\ tail' = NextSlot(rtail[p])
      BY <3>1 DEF AdvanceTail, IInv, ClaimValid
    <3>3. UsedSlots(head, tail) > 0
      BY <3>2, UsedPositive DEF IInv, TypeOK
    <3>4. QED
      BY <3>2, <3>3
  <2>2. CASE tail' = tail
    BY <2>2
  <2>3. QED
    BY <2>1, <2>2, TailStep
<1>2. QED
  BY <1>1, IInvHolds, PTL DEF Spec, TailClaimsCommitted

-----------------------------------------------------------------------------
(* Torn copies.  The Pusher stores only into slot[head], and stores the   *)
(* length prefix before the payload; so every slot but the one between    *)
(* those two stores has a matching prefix and payload.  A Puller copies   *)
(* from its TAIL, which is not HEAD while it copies (ClaimValid).          *)

SlotsAgree ==
  /\ \A s \in Slots : (s # head \/ ppc # "body") => slotLen[s] = slotBody[s]
  /\ ppc = "body" => slotLen[head] = sends

CopyAgrees ==
  \A p \in Pullers :
    /\ pc[p] = "body" => rlen[p] = slotLen[rtail[p]]
    /\ pc[p] \in {"advance", "claimed"} => rlen[p] = rbody[p]

TornInv == SlotsAgree /\ CopyAgrees /\ NoTornRead

LEMMA InitTorn == Init => TornInv
  BY DEF Init, TornInv, SlotsAgree, CopyAgrees, NoTornRead, ZeroSlots

LEMMA NextTorn == IInv /\ TornInv /\ [Next]_vars => TornInv'
<1> SUFFICES ASSUME IInv, TornInv, [Next]_vars PROVE TornInv'
  OBVIOUS
<1> USE DEF IInv, TypeOK, TornInv
<1>1. ASSUME NEW m \in Modes, Send(m) PROVE TornInv'
  BY <1>1 DEF Send, header, pullers, SlotsAgree, CopyAgrees, NoTornRead
<1>2. CASE WriteCheck
  BY <1>2 DEF WriteCheck, pullers, SlotsAgree, CopyAgrees, NoTornRead
<1>3. CASE WriteLen
  <2>1. /\ ppc = "len" /\ ppc' = "body" /\ slotLen' = [slotLen EXCEPT ![head] = sends]
        /\ UNCHANGED <<head, tail, slotBody, sends, pc, rtail, rlen, rbody, recvd>>
    BY <1>3 DEF WriteLen, pullers
  <2>2. SlotsAgree'
    BY <2>1 DEF SlotsAgree
  <2>3. CopyAgrees'
    BY <2>1 DEF CopyAgrees, ClaimValid
  <2>4. QED
    BY <2>1, <2>2, <2>3 DEF NoTornRead
<1>4. CASE WriteBody
  <2>1. /\ ppc = "body" /\ ppc' = "commit" /\ slotBody' = [slotBody EXCEPT ![head] = sends]
        /\ UNCHANGED <<head, tail, slotLen, sends, pc, rtail, rlen, rbody, recvd>>
    BY <1>4 DEF WriteBody, pullers
  <2>2. SlotsAgree'
    BY <2>1 DEF SlotsAgree
  <2>3. QED
    BY <2>1, <2>2 DEF CopyAgrees, NoTornRead
<1>5. CASE WriteCommit
  <2>1. /\ ppc = "commit" /\ ppc' = "count"
        /\ UNCHANGED <<slotLen, slotBody, pc, rtail, rlen, rbody, recvd>>
    BY <1>5 DEF WriteCommit, pullers
  <2>2. QED
    BY <2>1 DEF SlotsAgree, CopyAgrees, NoTornRead
<1>6. CASE WriteCount
  BY <1>6 DEF WriteCount, pullers, SlotsAgree, CopyAgrees, NoTornRead
<1>7. ASSUME NEW p \in Pullers, Acquire(p) PROVE TornInv'
  BY <1>7 DEF Acquire, header, pusher, SlotsAgree, CopyAgrees, NoTornRead
<1>8. ASSUME NEW p \in Pullers, ReadCheck(p) PROVE TornInv'
  BY <1>8 DEF ReadCheck, header, pusher, SlotsAgree, CopyAgrees, NoTornRead
<1>9. ASSUME NEW p \in Pullers, ReadLen(p) PROVE TornInv'
  BY <1>9 DEF ReadLen, header, pusher, SlotsAgree, CopyAgrees, NoTornRead
<1>10. ASSUME NEW p \in Pullers, ReadBody(p) PROVE TornInv'
  <2>1. /\ pc[p] = "body" /\ pc' = [pc EXCEPT ![p] = "advance"]
        /\ rbody' = [rbody EXCEPT ![p] = slotBody[rtail[p]]]
        /\ UNCHANGED <<header, pusher, rtail, rlen, recvd>>
    BY <1>10 DEF ReadBody
  <2>2. rtail[p] \in Slots /\ rtail[p] # head
    BY <2>1 DEF ClaimValid
  <2>3. rlen[p] = slotBody[rtail[p]]
    BY <2>1, <2>2 DEF CopyAgrees, SlotsAgree
  <2>4. CopyAgrees'
    BY <2>1, <2>3 DEF CopyAgrees, header
  <2>5. QED
    BY <2>1, <2>4 DEF SlotsAgree, NoTornRead, header, pusher
<1>11. ASSUME NEW p \in Pullers, AdvanceTail(p) PROVE TornInv'
  BY <1>11 DEF AdvanceTail, pusher, SlotsAgree, CopyAgrees, NoTornRead
<1>12. ASSUME NEW p \in Pullers, Release(p) PROVE TornInv'
  <2>1. /\ pc' = [pc EXCEPT ![p] = "idle"]
        /\ UNCHANGED <<header, pusher, rtail, rlen, rbody>>
    BY <1>12 DEF Release
  <2>2. NoTornRead'
    <3>1. CASE pc[p] = "claimed" /\ rbody[p] \notin Falsy
      <4>1. recvd' = [recvd EXCEPT ![p] = Append(@, [len |-> rlen[p], body |-> rbody[p]])]
        BY <1>12, <3>1 DEF Release
      <4>2. rlen[p] = rbody[p]
        BY <3>1 DEF CopyAgrees
      <4>3. recvd[p] \in Seq(Copy)
        OBVIOUS
      <4>4. \A i \in 1 .. Len(recvd'[p]) :
              recvd'[p][i] = IF i <= Len(recvd[p]) THEN recvd[p][i]
                             ELSE [len |-> rlen[p], body |-> rbody[p]]
        BY <4>1, <4>3, AppendProperties DEF Copy
      <4>5. \A i \in 1 .. Len(recvd'[p]) : recvd'[p][i].len = recvd'[p][i].body
        <5>1. Len(recvd'[p]) = Len(recvd[p]) + 1
          BY <4>1, <4>3, AppendProperties DEF Copy
        <5>2. QED
          BY <4>2, <4>4, <5>1 DEF NoTornRead
      <4>6. QED
        BY <4>1, <4>5 DEF NoTornRead
    <3>2. CASE ~(pc[p] = "claimed" /\ rbody[p] \notin Falsy)
      BY <1>12, <3>2 DEF Release, NoTornRead
    <3>3. QED
      BY <3>1, <3>2
  <2>3. QED
    BY <2>1, <2>2 DEF SlotsAgree, CopyAgrees, header, pusher
<1>13. ASSUME NEW p \in Pullers, Crash(p) PROVE TornInv'
  BY <1>13 DEF Crash, header, pusher, SlotsAgree, CopyAgrees, NoTornRead
<1>14. CASE UNCHANGED vars
  BY <1>14 DEF vars, header, pusher, pullers, SlotsAgree, CopyAgrees, NoTornRead
<1>15. QED
  BY <1>1, <1>2, <1>3, <1>4, <1>5, <1>6, <1>7, <1>8, <1>9, <1>10, <1>11,
     <1>12, <1>13, <1>14 DEF Next, PusherStep, PullerStep

(* A Puller's recv never returns a torn slot: the length prefix and the   *)
(* payload of every message it returned were stored by the same           *)
(* write_message, for every ring size, any number of Pullers and any      *)
(* Puller deaths (spec 5: "a consumer never observes a partial slot").    *)
THEOREM NoTornClaim == Spec => []NoTornRead
<1>1. Spec => []IInv /\ [][Next]_vars /\ Init
  BY IInvHolds, PTL DEF Spec
<1>2. Spec => []TornInv
  BY <1>1, InitTorn, NextTorn, PTL
<1>3. QED
  BY <1>2, PTL DEF TornInv

=============================================================================
