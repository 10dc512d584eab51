-------------------------- MODULE QueueRefinement --------------------------
(***************************************************************************)
(* Proof that PushPull implements the bounded FIFO queue MsgQueue under   *)
(* the refinement mapping of PushPull!Queue (queue <- Pending, delivered  *)
(* <- taken), for every ring size, number of sends, Pullers and crashes.  *)
(* The safety part is proved; the fairness part (every queued message is  *)
(* eventually taken) is checked by TLC in the pushpull_live run.          *)
(*                                                                         *)
(* The argument: a HEAD commit appends slot[head] to the pending slots    *)
(* and the Pusher has just stored the current message there              *)
(* (WrittenSlot); there was room because the full test passed            *)
(* (RoomReserved); a TAIL store removes slot[tail] from the front, and    *)
(* that slot is the one the Puller copied (ClaimValid); a store into      *)
(* slot[head] does not touch a pending slot; every other step leaves      *)
(* head, tail, the payloads and the claims alone.                         *)
(***************************************************************************)
EXTENDS PushPullProofs

\* The pending slots of a ring with cursors h, t and payloads b.
PendingAt(h, t, b) ==
  [i \in 1 .. UsedSlots(h, t) |-> b[(t + i - 1) % NumSlots]]

\* The Pusher between the HEAD commit's two halves holds the message it
\* copied into slot[head].
WrittenSlot == ppc = "commit" => slotBody[head] = sends

RInv == IInv /\ WrittenSlot

-----------------------------------------------------------------------------
(* Cursor arithmetic.                                                      *)

LEMMA ModSmall ==
  ASSUME NEW x \in 0 .. 2 * NumSlots - 1
  PROVE  x % NumSlots = IF x < NumSlots THEN x ELSE x - NumSlots
  BY NumSlotsAssumption

(* The i-th pending slot, counted from tail, is an index of the ring, and *)
(* it is never the slot at head.                                           *)
LEMMA PendingIndex ==
  ASSUME NEW h \in Slots, NEW t \in Slots, NEW i \in 1 .. UsedSlots(h, t)
  PROVE  /\ (t + i - 1) % NumSlots \in Slots
         /\ (t + i - 1) % NumSlots # h
  <1>1. UsedSlots(h, t) = IF t <= h THEN h - t ELSE h + NumSlots - t
    BY UsedValue
  <1>2. t + i - 1 \in 0 .. 2 * NumSlots - 1
    BY <1>1, NumSlotsAssumption DEF Slots
  <1>3. (t + i - 1) % NumSlots
          = IF t + i - 1 < NumSlots THEN t + i - 1 ELSE t + i - 1 - NumSlots
    <2>1. CASE t + i - 1 < NumSlots
      BY <1>2, <2>1, NumSlotsAssumption
    <2>2. CASE ~(t + i - 1 < NumSlots)
      <3>1. t + i - 1 = (t + i - 1 - NumSlots) + NumSlots
        BY <1>1, <1>2, NumSlotsAssumption DEF Slots
      <3>2. t + i - 1 - NumSlots \in 0 .. NumSlots - 1
        BY <1>1, <1>2, <2>2, NumSlotsAssumption DEF Slots
      <3>3. QED
        BY <2>2, <3>1, <3>2, NumSlotsAssumption
    <2>3. QED
      BY <2>1, <2>2
  <1>4. QED
    BY <1>1, <1>3, NumSlotsAssumption DEF Slots

-----------------------------------------------------------------------------
(* The pending slots form a sequence of UsedSlots(h, t) payloads.         *)
LEMMA PendingSeq ==
  ASSUME NEW h \in Slots, NEW t \in Slots, NEW b \in [Slots -> Data]
  PROVE  /\ PendingAt(h, t, b) \in Seq(Data)
         /\ Len(PendingAt(h, t, b)) = UsedSlots(h, t)
  <1>1. UsedSlots(h, t) = IF t <= h THEN h - t ELSE h + NumSlots - t
    BY UsedValue
  <1>2. UsedSlots(h, t) \in Nat
    BY <1>1, NumSlotsAssumption DEF Slots
  <1>3. ASSUME NEW i \in 1 .. UsedSlots(h, t)
        PROVE  b[(t + i - 1) % NumSlots] \in Data
    BY PendingIndex
  <1>4. PendingAt(h, t, b) \in [1 .. UsedSlots(h, t) -> Data]
    BY <1>3 DEF PendingAt
  <1>5. QED
    BY <1>2, <1>4

(* A HEAD commit past a passed full test appends slot[head].               *)
LEMMA PendingAppend ==
  ASSUME NEW h \in Slots, NEW t \in Slots, NEW b \in [Slots -> Data],
         NextSlot(h) # t
  PROVE  /\ Len(PendingAt(h, t, b)) < NumSlots - 1
         /\ PendingAt(NextSlot(h), t, b) = Append(PendingAt(h, t, b), b[h])
  <1>1. NextSlot(h) \in Slots /\ NextSlot(h) = IF h = NumSlots - 1 THEN 0 ELSE h + 1
    BY NextSlotType, NextSlotValue
  <1>2. UsedSlots(h, t) = IF t <= h THEN h - t ELSE h + NumSlots - t
    BY UsedValue
  <1>3. UsedSlots(NextSlot(h), t)
          = IF t <= NextSlot(h) THEN NextSlot(h) - t ELSE NextSlot(h) + NumSlots - t
    BY <1>1, UsedValue
  <1>4. UsedSlots(NextSlot(h), t) = UsedSlots(h, t) + 1
        /\ UsedSlots(h, t) < NumSlots - 1
    BY <1>1, <1>2, <1>3, NumSlotsAssumption DEF Slots
  <1>5. PendingAt(h, t, b) \in Seq(Data) /\ Len(PendingAt(h, t, b)) = UsedSlots(h, t)
    BY PendingSeq
  <1>6. PendingAt(NextSlot(h), t, b) \in Seq(Data)
        /\ Len(PendingAt(NextSlot(h), t, b)) = UsedSlots(NextSlot(h), t)
    BY <1>1, PendingSeq
  <1>7. /\ Append(PendingAt(h, t, b), b[h]) \in Seq(Data)
        /\ Len(Append(PendingAt(h, t, b), b[h])) = Len(PendingAt(h, t, b)) + 1
        /\ \A i \in 1 .. Len(PendingAt(h, t, b)) + 1 :
             Append(PendingAt(h, t, b), b[h])[i]
               = IF i <= Len(PendingAt(h, t, b)) THEN PendingAt(h, t, b)[i] ELSE b[h]
    BY <1>5, AppendProperties
  <1>8. (t + UsedSlots(h, t)) % NumSlots = h
    <2>1. t + UsedSlots(h, t) \in 0 .. 2 * NumSlots - 1
      BY <1>2, NumSlotsAssumption DEF Slots
    <2>2. (t + UsedSlots(h, t)) % NumSlots
            = IF t + UsedSlots(h, t) < NumSlots THEN t + UsedSlots(h, t)
              ELSE t + UsedSlots(h, t) - NumSlots
      <3>1. CASE t + UsedSlots(h, t) < NumSlots
        BY <2>1, <3>1, NumSlotsAssumption
      <3>2. CASE ~(t + UsedSlots(h, t) < NumSlots)
        <4>1. t + UsedSlots(h, t) = (t + UsedSlots(h, t) - NumSlots) + NumSlots
          BY <1>2, <2>1, NumSlotsAssumption DEF Slots
        <4>2. t + UsedSlots(h, t) - NumSlots \in 0 .. NumSlots - 1
          BY <1>2, <2>1, <3>2, NumSlotsAssumption DEF Slots
        <4>3. QED
          BY <3>2, <4>1, <4>2, NumSlotsAssumption
      <3>3. QED
        BY <3>1, <3>2
    <2>3. QED
      BY <1>2, <2>2, NumSlotsAssumption DEF Slots
  <1>9. ASSUME NEW i \in 1 .. UsedSlots(h, t) + 1
        PROVE  PendingAt(NextSlot(h), t, b)[i] = Append(PendingAt(h, t, b), b[h])[i]
    <2>1. PendingAt(NextSlot(h), t, b)[i] = b[(t + i - 1) % NumSlots]
      BY <1>4 DEF PendingAt
    <2>2. CASE i <= UsedSlots(h, t)
      <3>1. PendingAt(h, t, b)[i] = b[(t + i - 1) % NumSlots]
        BY <2>2 DEF PendingAt
      <3>2. QED
        BY <1>5, <1>7, <2>1, <2>2, <3>1
    <2>3. CASE ~(i <= UsedSlots(h, t))
      <3>1. i = UsedSlots(h, t) + 1
        BY <1>2, <2>3, NumSlotsAssumption DEF Slots
      <3>2. (t + i - 1) % NumSlots = h
        BY <1>8, <3>1, <1>2, NumSlotsAssumption DEF Slots
      <3>3. QED
        BY <1>5, <1>7, <2>1, <2>3, <3>2
    <2>4. QED
      BY <2>2, <2>3
  <1>10. QED
    BY <1>4, <1>5, <1>6, <1>7, <1>9, SeqEqual

(* A store into slot[head] leaves the pending slots alone.                *)
LEMMA PendingWriteHead ==
  ASSUME NEW h \in Slots, NEW t \in Slots, NEW b \in [Slots -> Data],
         NEW c \in [Slots -> Data], \A s \in Slots \ {h} : c[s] = b[s]
  PROVE  PendingAt(h, t, c) = PendingAt(h, t, b)
  <1>1. ASSUME NEW i \in 1 .. UsedSlots(h, t)
        PROVE  c[(t + i - 1) % NumSlots] = b[(t + i - 1) % NumSlots]
    <2>1. (t + i - 1) % NumSlots \in Slots /\ (t + i - 1) % NumSlots # h
      BY PendingIndex
    <2>2. QED
      BY <2>1
  <1>2. QED
    BY <1>1 DEF PendingAt

(* A TAIL store on a non-empty ring removes slot[tail] from the front.    *)
LEMMA PendingTail ==
  ASSUME NEW h \in Slots, NEW t \in Slots, NEW b \in [Slots -> Data], t # h
  PROVE  /\ PendingAt(h, t, b) # << >>
         /\ Head(PendingAt(h, t, b)) = b[t]
         /\ PendingAt(h, NextSlot(t), b) = Tail(PendingAt(h, t, b))
  <1>1. NextSlot(t) \in Slots /\ NextSlot(t) = IF t = NumSlots - 1 THEN 0 ELSE t + 1
    BY NextSlotType, NextSlotValue
  <1>2. UsedSlots(h, t) = IF t <= h THEN h - t ELSE h + NumSlots - t
    BY UsedValue
  <1>3. UsedSlots(h, NextSlot(t))
          = IF NextSlot(t) <= h THEN h - NextSlot(t) ELSE h + NumSlots - NextSlot(t)
    BY <1>1, UsedValue
  <1>4. /\ UsedSlots(h, t) = UsedSlots(h, NextSlot(t)) + 1
        /\ UsedSlots(h, NextSlot(t)) \in 0 .. NumSlots - 2
    BY <1>1, <1>2, <1>3, NumSlotsAssumption DEF Slots
  <1>5. PendingAt(h, t, b) \in Seq(Data) /\ Len(PendingAt(h, t, b)) = UsedSlots(h, t)
    BY PendingSeq
  <1>6. PendingAt(h, NextSlot(t), b) \in Seq(Data)
        /\ Len(PendingAt(h, NextSlot(t), b)) = UsedSlots(h, NextSlot(t))
    BY <1>1, PendingSeq
  <1>7. PendingAt(h, t, b) # << >>
    BY <1>4, <1>5, <1>6
  <1>8. Head(PendingAt(h, t, b)) = b[t]
    <2>1. PendingAt(h, t, b)[1] = b[(t + 1 - 1) % NumSlots]
      BY <1>4, <1>6 DEF PendingAt
    <2>2. (t + 1 - 1) % NumSlots = t
      BY NumSlotsAssumption DEF Slots
    <2>3. QED
      BY <1>5, <1>7, <2>1, <2>2
  <1>9. /\ Tail(PendingAt(h, t, b)) \in Seq(Data)
        /\ Len(Tail(PendingAt(h, t, b))) = Len(PendingAt(h, t, b)) - 1
        /\ \A i \in 1 .. Len(Tail(PendingAt(h, t, b))) :
             Tail(PendingAt(h, t, b))[i] = PendingAt(h, t, b)[i + 1]
    BY <1>5, <1>7, HeadTailProperties
  <1>10. ASSUME NEW i \in 1 .. UsedSlots(h, NextSlot(t))
         PROVE  PendingAt(h, NextSlot(t), b)[i] = Tail(PendingAt(h, t, b))[i]
    <2>1. PendingAt(h, NextSlot(t), b)[i] = b[(NextSlot(t) + i - 1) % NumSlots]
      BY DEF PendingAt
    <2>2. PendingAt(h, t, b)[i + 1] = b[(t + (i + 1) - 1) % NumSlots]
      BY <1>4, <1>6 DEF PendingAt
    <2>3. (NextSlot(t) + i - 1) % NumSlots = (t + (i + 1) - 1) % NumSlots
      <3>1. CASE t = NumSlots - 1
        <4>1. (NextSlot(t) + i - 1) % NumSlots = i - 1
          BY <1>1, <1>4, <3>1, NumSlotsAssumption DEF Slots
        <4>2. (t + (i + 1) - 1) % NumSlots = i - 1
          <5>1. t + (i + 1) - 1 = (i - 1) + NumSlots
            BY <3>1, <1>4, NumSlotsAssumption
          <5>2. (i - 1) \in 0 .. NumSlots - 1
            BY <1>4, NumSlotsAssumption
          <5>3. QED
            BY <5>1, <5>2, NumSlotsAssumption
        <4>3. QED
          BY <4>1, <4>2
      <3>2. CASE t # NumSlots - 1
        <4>1. NextSlot(t) = t + 1
          BY <1>1, <3>2
        <4>2. QED
          BY <4>1, <1>4, NumSlotsAssumption DEF Slots
      <3>3. QED
        BY <3>1, <3>2
    <2>4. QED
      BY <1>4, <1>5, <1>9, <2>1, <2>2, <2>3
  <1>11. QED
    BY <1>4, <1>5, <1>6, <1>7, <1>8, <1>9, <1>10, SeqEqual

-----------------------------------------------------------------------------
(* The Pusher's copy of the payload survives until its HEAD commit.       *)

LEMMA InitRInv == Init => RInv
  BY InitIInv DEF Init, RInv, WrittenSlot

LEMMA NextRInv == RInv /\ [Next]_vars => RInv'
<1> SUFFICES ASSUME RInv, [Next]_vars PROVE RInv'
  OBVIOUS
<1>1. IInv'
  BY NextIInv DEF RInv
<1>2. WrittenSlot'
  <2> USE DEF RInv, WrittenSlot
  <2>1. ASSUME NEW m \in Modes, Send(m) PROVE WrittenSlot'
    BY <2>1 DEF Send
  <2>2. CASE WriteCheck
    BY <2>2 DEF WriteCheck
  <2>3. CASE WriteLen
    BY <2>3 DEF WriteLen
  <2>4. CASE WriteBody
    BY <2>4 DEF WriteBody, IInv, TypeOK
  <2>5. CASE WriteCommit
    BY <2>5 DEF WriteCommit
  <2>6. CASE WriteCount
    BY <2>6 DEF WriteCount
  <2>7. ASSUME NEW p \in Pullers, PullerStep(p) \/ Crash(p) PROVE WrittenSlot'
    BY <2>7 DEF PullerStep, Crash, Acquire, ReadCheck, ReadLen, ReadBody,
       AdvanceTail, Release, header, pusher
  <2>8. CASE UNCHANGED vars
    BY <2>8 DEF vars, header, pusher
  <2>9. QED
    BY <2>1, <2>2, <2>3, <2>4, <2>5, <2>6, <2>7, <2>8 DEF Next, PusherStep
<1>3. QED
  BY <1>1, <1>2 DEF RInv

LEMMA RInvHolds == Spec => []RInv
  BY InitRInv, NextRInv, PTL DEF Spec

-----------------------------------------------------------------------------
(* The step of PushPull as a step of MsgQueue.                             *)

LEMMA PendingDef ==
  /\ Pending = PendingAt(head, tail, slotBody)
  /\ Pending' = PendingAt(head', tail', slotBody')
  BY DEF Pending, PendingAt

LEMMA InitQueue == Init => Queue!QInit
<1> SUFFICES ASSUME Init PROVE Queue!QInit
  OBVIOUS
<1>1. UsedSlots(head, tail) = 0
  BY NumSlotsAssumption DEF Init, UsedSlots
<1>2. Pending = << >>
  BY <1>1 DEF Pending
<1>3. QED
  BY <1>2 DEF Init, Queue!QInit

(* A step that leaves the cursors, the payloads and the claims alone is a *)
(* stutter of the queue.                                                   *)
LEMMA QueueStutter ==
  ASSUME head' = head, tail' = tail, slotBody' = slotBody, taken' = taken
  PROVE  UNCHANGED Queue!qvars
  BY PendingDef DEF Queue!qvars

LEMMA NextQueue == RInv /\ [Next]_vars => [Queue!QNext]_Queue!qvars
<1> SUFFICES ASSUME RInv, [Next]_vars PROVE [Queue!QNext]_Queue!qvars
  OBVIOUS
<1> USE DEF RInv, IInv, TypeOK
<1>1. ASSUME NEW m \in Modes, Send(m) PROVE UNCHANGED Queue!qvars
  BY <1>1, QueueStutter DEF Send, header
<1>2. CASE WriteCheck
  BY <1>2, QueueStutter DEF WriteCheck
<1>3. CASE WriteLen
  BY <1>3, QueueStutter DEF WriteLen
<1>4. CASE WriteBody
  <2>1. slotBody' = [slotBody EXCEPT ![head] = sends]
        /\ head' = head /\ tail' = tail /\ taken' = taken
    BY <1>4 DEF WriteBody
  <2>2. sends \in Data
    BY DEF Data, MsgIds
  <2>3. PendingAt(head, tail, slotBody') = PendingAt(head, tail, slotBody)
    <3>1. /\ slotBody' \in [Slots -> Data]
          /\ \A s \in Slots \ {head} : slotBody'[s] = slotBody[s]
      BY <2>1, <2>2
    <3>2. \A c \in [Slots -> Data] :
            (\A s \in Slots \ {head} : c[s] = slotBody[s])
              => PendingAt(head, tail, c) = PendingAt(head, tail, slotBody)
      BY PendingWriteHead, ZenonT(30)
    <3>3. QED
      BY <3>1, <3>2
  <2>4. QED
    BY <2>1, <2>3, PendingDef DEF Queue!qvars
<1>5. CASE WriteCommit
  <2>1. /\ head' = NextSlot(head) /\ ppc = "commit"
        /\ tail' = tail /\ slotBody' = slotBody /\ taken' = taken
    BY <1>5 DEF WriteCommit
  <2>2. NextSlot(head) # tail
    BY <2>1 DEF RoomReserved, IsFull
  <2>3. /\ Len(PendingAt(head, tail, slotBody)) < NumSlots - 1
        /\ PendingAt(NextSlot(head), tail, slotBody)
             = Append(PendingAt(head, tail, slotBody), slotBody[head])
    BY <2>2, PendingAppend
  <2>4. slotBody[head] = sends /\ sends \in MsgIds
    BY <2>1 DEF WrittenSlot, SendInProgress
  <2>5. Queue!Put(sends)
    BY <2>1, <2>3, <2>4, PendingDef DEF Queue!Put
  <2>6. QED
    BY <2>4, <2>5 DEF Queue!QNext
<1>6. CASE WriteCount
  BY <1>6, QueueStutter DEF WriteCount
<1>7. ASSUME NEW p \in Pullers, AdvanceTail(p) PROVE Queue!QNext
  <2>1. rtail[p] = tail /\ tail # head
    BY <1>7 DEF AdvanceTail, ClaimValid
  <2>2. /\ tail' = NextSlot(tail) /\ taken' = Append(taken, slotBody[tail])
        /\ head' = head /\ slotBody' = slotBody
    BY <1>7, <2>1 DEF AdvanceTail
  <2>3. /\ PendingAt(head, tail, slotBody) # << >>
        /\ Head(PendingAt(head, tail, slotBody)) = slotBody[tail]
        /\ PendingAt(head, NextSlot(tail), slotBody)
             = Tail(PendingAt(head, tail, slotBody))
    BY <2>1, PendingTail
  <2>4. Queue!Get
    BY <2>2, <2>3, PendingDef DEF Queue!Get
  <2>5. QED
    BY <2>4 DEF Queue!QNext
<1>8. ASSUME NEW p \in Pullers,
             Acquire(p) \/ ReadCheck(p) \/ ReadLen(p) \/ ReadBody(p)
             \/ Release(p) \/ Crash(p)
      PROVE  UNCHANGED Queue!qvars
  BY <1>8, QueueStutter DEF Acquire, ReadCheck, ReadLen, ReadBody, Release,
     Crash, header
<1>9. CASE UNCHANGED vars
  BY <1>9, QueueStutter DEF vars, header
<1>10. QED
  BY <1>1, <1>2, <1>3, <1>4, <1>5, <1>6, <1>7, <1>8, <1>9
  DEF Next, PusherStep, PullerStep

-----------------------------------------------------------------------------
(* The Pusher's write_message and the Pullers' read_message_shared_tail,  *)
(* with every interleaving of their statements and any number of Puller  *)
(* deaths, implement a FIFO queue of capacity num_slots - 1: every HEAD    *)
(* commit appends the message just copied, every TAIL store removes and   *)
(* delivers the oldest pending one, and no other step changes either.     *)
(* This is the safety part of ImplementsQueue for every ring size.        *)
THEOREM ImplementsQueueSafety == Spec => Queue!SafetySpec
<1>1. Spec => []RInv /\ [][Next]_vars /\ Init
  BY RInvHolds, PTL DEF Spec
<1>2. Init => Queue!QInit
  BY InitQueue
<1>3. []RInv /\ [][Next]_vars => [][Queue!QNext]_Queue!qvars
  BY NextQueue, PTL
<1>4. QED
  BY <1>1, <1>2, <1>3, PTL DEF Queue!SafetySpec

-----------------------------------------------------------------------------
(* No loss and no reordering.  The history of HEAD commits (written) and  *)
(* the history of TAIL stores (taken) are linked by the pending slots.     *)

LEMMA ConcatAppend ==
  ASSUME NEW S, NEW s \in Seq(S), NEW t \in Seq(S), NEW e \in S
  PROVE  s \o Append(t, e) = Append(s \o t, e)
<1>1. Append(t, e) = t \o << e >> /\ Append(s \o t, e) = (s \o t) \o << e >>
  BY AppendIsConcat, ConcatProperties
<1>2. << e >> \in Seq(S)
  OBVIOUS
<1>3. QED
  BY <1>1, <1>2, ConcatAssociative

LEMMA ConcatHeadTail ==
  ASSUME NEW S, NEW s \in Seq(S), NEW t \in Seq(S), t # << >>
  PROVE  Append(s, Head(t)) \o Tail(t) = s \o t
<1>1. Head(t) \in S /\ Tail(t) \in Seq(S) /\ << Head(t) >> \in Seq(S)
  BY HeadTailProperties
<1>2. << Head(t) >> \o Tail(t) = t
  <2>1. Len(<< Head(t) >> \o Tail(t)) = Len(t)
    BY <1>1, ConcatProperties, HeadTailProperties
  <2>2. \A i \in 1 .. Len(t) : (<< Head(t) >> \o Tail(t))[i] = t[i]
    BY <1>1, ConcatProperties, HeadTailProperties
  <2>3. QED
    BY <1>1, <2>1, <2>2, ConcatProperties, SeqEqual
<1>3. Append(s, Head(t)) = s \o << Head(t) >>
  BY <1>1, AppendIsConcat
<1>4. (s \o << Head(t) >>) \o Tail(t) = s \o (<< Head(t) >> \o Tail(t))
  BY <1>1, ConcatAssociative
<1>5. QED
  BY <1>2, <1>3, <1>4

(* The HEAD commit appends the message just copied to the pending slots *)
(* and to the committed history, and claims nothing.                     *)
LEMMA CommitStep ==
  ASSUME RInv, WriteCommit
  PROVE  /\ Pending' = Append(Pending, sends)
         /\ written' = Append(written, sends) /\ taken' = taken
<1> USE DEF RInv, IInv, TypeOK
<1>1. /\ head' = NextSlot(head) /\ ppc = "commit"
      /\ tail' = tail /\ slotBody' = slotBody /\ taken' = taken
      /\ written' = Append(written, sends)
  BY DEF WriteCommit
<1>2. NextSlot(head) # tail
  BY <1>1 DEF RoomReserved, IsFull
<1>3. PendingAt(NextSlot(head), tail, slotBody)
        = Append(PendingAt(head, tail, slotBody), slotBody[head])
  BY <1>2, PendingAppend
<1>4. slotBody[head] = sends
  BY <1>1 DEF WrittenSlot
<1>5. QED
  BY <1>1, <1>3, <1>4, PendingDef

(* The TAIL store claims the oldest pending message and removes it.      *)
LEMMA ClaimStep ==
  ASSUME RInv, NEW p \in Pullers, AdvanceTail(p)
  PROVE  /\ Pending # << >>
         /\ taken' = Append(taken, Head(Pending)) /\ Pending' = Tail(Pending)
         /\ written' = written
<1> USE DEF RInv, IInv, TypeOK
<1>1. rtail[p] = tail /\ tail # head
  BY DEF AdvanceTail, ClaimValid
<1>2. /\ tail' = NextSlot(tail) /\ taken' = Append(taken, slotBody[tail])
      /\ head' = head /\ slotBody' = slotBody /\ written' = written
  BY <1>1 DEF AdvanceTail
<1>3. /\ PendingAt(head, tail, slotBody) # << >>
      /\ Head(PendingAt(head, tail, slotBody)) = slotBody[tail]
      /\ PendingAt(head, NextSlot(tail), slotBody)
           = Tail(PendingAt(head, tail, slotBody))
  BY <1>1, PendingTail
<1>4. QED
  BY <1>2, <1>3, PendingDef

(* A store into slot[head] leaves every pending slot alone.              *)
LEMMA BodyStep ==
  ASSUME RInv, WriteBody
  PROVE  Pending' = Pending /\ taken' = taken /\ written' = written
<1> USE DEF RInv, IInv, TypeOK
<1>1. slotBody' = [slotBody EXCEPT ![head] = sends]
      /\ head' = head /\ tail' = tail /\ taken' = taken /\ written' = written
  BY DEF WriteBody
<1>2. /\ slotBody' \in [Slots -> Data]
      /\ \A s \in Slots \ {head} : slotBody'[s] = slotBody[s]
  BY <1>1 DEF Data, MsgIds
<1>3. \A c \in [Slots -> Data] :
        (\A s \in Slots \ {head} : c[s] = slotBody[s])
          => PendingAt(head, tail, c) = PendingAt(head, tail, slotBody)
  BY PendingWriteHead, ZenonT(30)
<1>4. QED
  BY <1>1, <1>2, <1>3, PendingDef

LEMMA NextNoLoss == RInv /\ NoLoss /\ [Next]_vars => NoLoss'
<1> SUFFICES ASSUME RInv, NoLoss, [Next]_vars PROVE NoLoss'
  OBVIOUS
<1> USE DEF RInv, IInv, TypeOK
<1>1. Pending \in Seq(Data)
  BY PendingSeq, PendingDef
<1>2. CASE WriteCommit
  <2>1. sends \in Data
    BY DEF SendInProgress, Data, MsgIds
  <2>2. taken \o Append(Pending, sends) = Append(taken \o Pending, sends)
    BY <1>1, <2>1, ConcatAppend
  <2>3. QED
    BY <1>2, <2>2, CommitStep DEF NoLoss
<1>3. ASSUME NEW p \in Pullers, AdvanceTail(p) PROVE NoLoss'
  <2>1. Pending # << >>
    BY <1>3, ClaimStep
  <2>2. Append(taken, Head(Pending)) \o Tail(Pending) = taken \o Pending
    BY <1>1, <2>1, ConcatHeadTail, SMTT(30)
  <2>3. QED
    BY <1>3, <2>2, ClaimStep DEF NoLoss
<1>4. ASSUME Pending' = Pending, taken' = taken, written' = written
      PROVE  NoLoss'
  BY <1>4 DEF NoLoss
<1>5. CASE WriteBody
  BY <1>5, <1>4, BodyStep DEF WriteBody
<1>6. ASSUME head' = head, tail' = tail, slotBody' = slotBody, taken' = taken,
             written' = written
      PROVE  NoLoss'
  BY <1>6, PendingDef DEF NoLoss
<1>7. ASSUME NEW m \in Modes, Send(m) PROVE NoLoss'
  BY <1>7, <1>6 DEF Send, header
<1>8. CASE WriteCheck \/ WriteLen \/ WriteCount
  BY <1>8, <1>6 DEF WriteCheck, WriteLen, WriteCount
<1>9. ASSUME NEW p \in Pullers,
             Acquire(p) \/ ReadCheck(p) \/ ReadLen(p) \/ ReadBody(p)
             \/ Release(p) \/ Crash(p)
      PROVE  NoLoss'
  BY <1>9, <1>6 DEF Acquire, ReadCheck, ReadLen, ReadBody, Release, Crash,
     header
<1>10. CASE UNCHANGED vars
  BY <1>10, <1>6 DEF vars, header
<1>11. QED
  BY <1>2, <1>3, <1>5, <1>7, <1>8, <1>9, <1>10
  DEF Next, PusherStep, PullerStep

(* No loss, no reordering, for every ring size, number of sends, Pullers *)
(* and Puller deaths: the messages write_message committed are exactly    *)
(* those read_message_shared_tail claimed followed by those still pending *)
(* in the ring, in commit order.                                          *)
THEOREM NoLossOrReorder == Spec => []NoLoss
<1>1. Spec => []RInv /\ [][Next]_vars /\ Init
  BY RInvHolds, PTL DEF Spec
<1>2. Init => NoLoss
  BY InitQueue DEF Init, NoLoss, Queue!QInit
<1>3. QED
  BY <1>1, <1>2, NextNoLoss, PTL

=============================================================================
