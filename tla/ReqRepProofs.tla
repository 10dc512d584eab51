---------------------------- MODULE ReqRepProofs ----------------------------
(***************************************************************************)
(* Proofs about ReqRep for every ring size and number of request() calls. *)
(*                                                                         *)
(* The argument: neither endpoint ever stores a ring's TAIL cell, so TAIL  *)
(* stays 0, the full test next_head == 0 stops HEAD at num_slots - 1, and *)
(* HEAD counts the commits: slot k - 1 holds the k-th committed message   *)
(* and is never written again.  A private cursor trails HEAD and counts   *)
(* the messages its reader has taken, so the unread slots are those from  *)
(* the cursor up to HEAD, without wrap-around.                             *)
(***************************************************************************)
EXTENDS ReqRep, ShmRingProofs, SequenceTheorems, TLAPS

\* Ring r holds the messages of its commit history sent, one per slot from
\* slot 0, and its TAIL cell is still 0.
Log(r, sent) ==
  /\ r.tail = 0 /\ r.head = Len(sent)
  /\ \A k \in 1 .. Len(sent) : r.slots[k - 1] = sent[k]

\* A private cursor has taken at most what was committed.
CursorBehind(cur, sent) == cur <= Len(sent)

\* The replies request() returned, in order.
Replies == [i \in 1 .. Len(answers) |-> answers[i][2]]

IInv ==
  /\ TypeOK
  /\ cpc = "wait" => nreq \in MsgIds
  /\ Log(req, reqSent) /\ Log(rep, repSent)
  /\ CursorBehind(stail, reqSent) /\ CursorBehind(ctail, repSent)

-----------------------------------------------------------------------------
(* Cursor arithmetic below the last slot.                                 *)
LEMMA SlotSucc ==
  ASSUME NEW i \in Slots, i # NumSlots - 1
  PROVE  /\ NextSlot(i) = i + 1
         /\ NextSlot(i) \in Slots
  BY NumSlotsAssumption DEF NextSlot, Slots

(* With TAIL at 0 the ring is full exactly when HEAD is the last slot.     *)
LEMMA FullAtLast ==
  ASSUME NEW h \in Slots
  PROVE  IsFull(h, 0) <=> h = NumSlots - 1
<1>1. CASE h = NumSlots - 1
  BY <1>1, NumSlotsAssumption DEF IsFull, NextSlot, Slots
<1>2. CASE h # NumSlots - 1
  <2>1. NextSlot(h) = h + 1
    BY <1>2, SlotSucc
  <2>2. QED
    BY <1>2, <2>1 DEF IsFull, Slots
<1>3. QED
  BY <1>1, <1>2

(* A non-blocking, non-overwriting write_message on a ring that has never *)
(* been read through TAIL appends to its commit history when it returns   *)
(* True, and changes nothing of it when it returns False.                 *)
LEMMA WriteLog ==
  ASSUME NEW r \in Ring, NEW sent \in Seq(Data), Log(r, sent), NEW m \in Data
  PROVE  LET s2 == IF Accepted(r) THEN Append(sent, m) ELSE sent
         IN  /\ WriteMessage(r, m) \in Ring
             /\ Log(WriteMessage(r, m), s2)
             /\ s2 \in Seq(Data) /\ Len(sent) <= Len(s2)
<1>1. CASE IsFull(r.head, r.tail)
  BY <1>1 DEF WriteMessage, Dropped, Accepted, Ring, Log
<1>2. CASE ~IsFull(r.head, r.tail)
  <2>1. r.head # NumSlots - 1 /\ r.tail = 0
    BY <1>2, FullAtLast DEF Ring, Log
  <2>2. NextSlot(r.head) = r.head + 1 /\ NextSlot(r.head) \in Slots
    BY <2>1, SlotSucc DEF Ring
  <2>3. WriteMessage(r, m) =
          [head |-> r.head + 1, tail |-> 0, msgCount |-> r.msgCount + 1,
           dropCount |-> r.dropCount,
           slots |-> [r.slots EXCEPT ![r.head] = m]]
    BY <1>2, <2>1, <2>2 DEF WriteMessage, Committed, Ring
  <2>4. /\ Len(Append(sent, m)) = Len(sent) + 1
        /\ \A k \in 1 .. Len(sent) : Append(sent, m)[k] = sent[k]
        /\ Append(sent, m)[Len(sent) + 1] = m
        /\ Append(sent, m) \in Seq(Data)
    BY AppendProperties
  <2>5. WriteMessage(r, m) \in Ring
    <3>1. /\ r.head + 1 \in Slots /\ 0 \in Slots
          /\ r.msgCount + 1 \in Nat /\ r.dropCount \in Nat
      BY <2>2, NumSlotsAssumption DEF Ring, Slots
    <3>2. [r.slots EXCEPT ![r.head] = m] \in [Slots -> Data]
      BY DEF Ring
    <3>3. QED
      BY <2>3, <3>1, <3>2 DEF Ring
  <2>6. Log(WriteMessage(r, m), Append(sent, m))
    BY <2>3, <2>4 DEF Log, Ring
  <2>7. QED
    BY <1>2, <2>4, <2>5, <2>6 DEF Accepted
<1>3. QED
  BY <1>1, <1>2

(* read_message_spsc on a non-empty ring returns a committed message and *)
(* moves the private cursor on by one, still behind HEAD.                 *)
LEMMA ReadLog ==
  ASSUME NEW r \in Ring, NEW sent \in Seq(Data), Log(r, sent),
         NEW cur \in Slots, CursorBehind(cur, sent), HasMessage(r, cur)
  PROVE  /\ Advance(cur) = cur + 1 /\ Advance(cur) \in Slots
         /\ r.slots[cur] \in Data
         /\ CursorBehind(cur + 1, sent)
<1>1. cur < r.head /\ r.head \in Slots /\ r.head = Len(sent)
  BY DEF HasMessage, Log, CursorBehind, Ring, Slots
<1>2. cur # NumSlots - 1
  BY <1>1 DEF Slots
<1>3. Advance(cur) = cur + 1 /\ Advance(cur) \in Slots
  BY <1>2, SlotSucc DEF Advance
<1>4. r.slots[cur] \in Data
  BY DEF Ring
<1>5. QED
  BY <1>1, <1>3, <1>4 DEF CursorBehind, Slots

(* The second components of a sequence of pairs, one pair longer.         *)
LEMMA SecondsAppend ==
  ASSUME NEW S, NEW a \in Seq(S), NEW e
  PROVE  [i \in 1 .. Len(Append(a, e)) |-> Append(a, e)[i][2]]
           = Append([i \in 1 .. Len(a) |-> a[i][2]], e[2])
<1> DEFINE b == [i \in 1 .. Len(a) |-> a[i][2]]
<1>1. b \in Seq({a[i][2] : i \in 1 .. Len(a)})
  OBVIOUS
<1>2. Len(Append(a, e)) = Len(a) + 1 /\ Len(Append(b, e[2])) = Len(a) + 1
  BY <1>1, AppendProperties
<1>3. \A i \in 1 .. Len(a) + 1 :
        Append(a, e)[i][2] = Append(b, e[2])[i]
  BY <1>1, AppendProperties
<1>4. QED
  BY <1>1, <1>2, <1>3, AppendProperties

LEMMA InitIInv == Init => IInv
<1> SUFFICES ASSUME Init PROVE IInv
  OBVIOUS
<1>1. NewRing \in Ring /\ Log(NewRing, << >>)
  <2>1. 0 \in Slots /\ 0 \in Data
    BY NumSlotsAssumption, MaxMsgsAssumption DEF Slots, Data
  <2>2. ZeroSlots \in [Slots -> Data]
    BY <2>1 DEF ZeroSlots
  <2>3. NewRing \in Ring
    BY <2>1, <2>2 DEF NewRing, Ring
  <2>4. Len(<< >>) = 0
    OBVIOUS
  <2>5. QED
    BY <2>3, <2>4 DEF NewRing, Log
<1>2. TypeOK
  BY <1>1, NumSlotsAssumption, MaxMsgsAssumption DEF Init, TypeOK, Slots, Data
<1>3. QED
  BY <1>1, <1>2 DEF Init, IInv, CursorBehind

LEMMA NextIInv == IInv /\ [Next]_vars => IInv'
<1> SUFFICES ASSUME IInv, [Next]_vars PROVE IInv'
  OBVIOUS
<1> USE DEF IInv, TypeOK
<1>0. /\ Seq(MsgIds) \subseteq Seq(Data) /\ MsgIds \subseteq Data
      /\ served \in Seq(Data)
  <2>1. MsgIds \subseteq Data
    BY DEF MsgIds, Data
  <2>2. QED
    BY <2>1, SeqMonotonic
<1>1. CASE RequestSend
  <2>1. nreq + 1 \in MsgIds /\ nreq + 1 \in Data
    BY <1>1, MaxMsgsAssumption DEF RequestSend, MsgIds, Data
  <2>2. \A m \in Data :
          LET s2 == IF Accepted(req) THEN Append(reqSent, m) ELSE reqSent
          IN  /\ WriteMessage(req, m) \in Ring
              /\ Log(WriteMessage(req, m), s2)
              /\ s2 \in Seq(Data) /\ Len(reqSent) <= Len(s2)
    BY <1>0, WriteLog
  <2>3. /\ req' \in Ring /\ Log(req', reqSent')
        /\ reqSent' \in Seq(Data) /\ Len(reqSent) <= Len(reqSent')
    BY <1>1, <2>1, <2>2 DEF RequestSend
  <2>4. reqSent' \in Seq(MsgIds)
    BY <1>1, <2>1, AppendProperties DEF RequestSend
  <2>5. CursorBehind(stail, reqSent')
    BY <2>3 DEF CursorBehind, Slots
  <2>6. /\ UNCHANGED <<rep, stail, spc, sreq, ctail, served, answers, repSent>>
        /\ nreq' = nreq + 1 /\ cpc' = "wait"
    BY <1>1 DEF RequestSend
  <2>7. TypeOK'
    BY <2>1, <2>3, <2>4, <2>6 DEF MsgIds
  <2>8. QED
    BY <2>1, <2>3, <2>5, <2>6, <2>7 DEF CursorBehind
<1>2. CASE RequestRecv
  <2>1. /\ Advance(ctail) = ctail + 1 /\ Advance(ctail) \in Slots
        /\ rep.slots[ctail] \in Data
        /\ CursorBehind(ctail + 1, repSent)
    BY <1>2, ReadLog DEF RequestRecv
  <2>2. /\ ctail' = Advance(ctail)
        /\ UNCHANGED <<req, rep, stail, spc, sreq, nreq, served, reqSent, repSent>>
    BY <1>2 DEF RequestRecv
  <2>3. CASE /\ rep.slots[ctail] \notin FalsyReplies
             /\ answers' = Append(answers, <<nreq, rep.slots[ctail]>>)
             /\ cpc' = "idle"
    <3>1. answers' \in Seq(MsgIds \X Data)
      BY <1>2, <2>1, <2>3, AppendProperties DEF RequestRecv
    <3>2. QED
      BY <2>1, <2>2, <2>3, <3>1 DEF CursorBehind
  <2>4. CASE /\ rep.slots[ctail] \in FalsyReplies
             /\ UNCHANGED <<answers, cpc>>
    BY <2>1, <2>2, <2>4 DEF CursorBehind
  <2>5. QED
    BY <1>2, <2>3, <2>4 DEF RequestRecv
<1>3. CASE RequestTimeout
  BY <1>3 DEF RequestTimeout, CursorBehind
<1>4. CASE ServeRecv
  <2>1. /\ Advance(stail) = stail + 1 /\ Advance(stail) \in Slots
        /\ req.slots[stail] \in Data
        /\ CursorBehind(stail + 1, reqSent)
    BY <1>0, <1>4, ReadLog DEF ServeRecv
  <2>2. /\ stail' = Advance(stail)
        /\ UNCHANGED <<req, rep, ctail, cpc, nreq, answers, reqSent, repSent>>
    BY <1>4 DEF ServeRecv
  <2>3. CASE /\ req.slots[stail] \notin FalsyRequests
             /\ sreq' = req.slots[stail]
             /\ served' = Append(served, req.slots[stail])
             /\ spc' = "reply"
    <3>1. served' \in Seq(Data)
      BY <1>0, <2>1, <2>3, AppendProperties
    <3>2. QED
      BY <2>1, <2>2, <2>3, <3>1 DEF CursorBehind
  <2>4. CASE /\ req.slots[stail] \in FalsyRequests
             /\ UNCHANGED <<sreq, served, spc>>
    BY <2>1, <2>2, <2>4 DEF CursorBehind
  <2>5. QED
    BY <1>4, <2>3, <2>4 DEF ServeRecv
<1>5. CASE ServeReply
  <2>1. \A m \in Data :
          LET s2 == IF Accepted(rep) THEN Append(repSent, m) ELSE repSent
          IN  /\ WriteMessage(rep, m) \in Ring
              /\ Log(WriteMessage(rep, m), s2)
              /\ s2 \in Seq(Data) /\ Len(repSent) <= Len(s2)
    BY WriteLog
  <2>2. /\ rep' \in Ring /\ Log(rep', repSent')
        /\ repSent' \in Seq(Data) /\ Len(repSent) <= Len(repSent')
    BY <1>5, <2>1 DEF ServeReply
  <2>3. CursorBehind(ctail, repSent')
    BY <2>2 DEF CursorBehind, Slots
  <2>4. QED
    BY <1>5, <2>2, <2>3 DEF ServeReply, CursorBehind
<1>6. CASE UNCHANGED vars
  BY <1>6 DEF vars, Log, CursorBehind
<1>7. QED
  BY <1>1, <1>2, <1>3, <1>4, <1>5, <1>6 DEF Next

LEMMA IInvHolds == Spec => []IInv
  BY InitIInv, NextIInv, PTL DEF Spec

(* Type correctness of the request/reply pattern, for every ring size and *)
(* number of request() calls.                                             *)
THEOREM ReqRepTypeCorrect == Spec => []TypeOK
  BY IInvHolds, PTL DEF IInv

-----------------------------------------------------------------------------
(* Lifetime capacity.  With TAIL at 0 and HEAD counting the commits, the  *)
(* full test of write_message depends on nothing but the number of       *)
(* earlier commits.                                                       *)

(* A write_message on a ring whose TAIL was never stored drops the        *)
(* message exactly when num_slots - 1 messages have been committed.       *)
LEMMA DropExactly ==
  ASSUME NEW r \in Ring, NEW sent \in Seq(Data), Log(r, sent), NEW m \in Data
  PROVE  (WriteMessage(r, m).dropCount > r.dropCount) <=> Len(sent) = NumSlots - 1
<1>1. r.tail = 0 /\ r.head = Len(sent) /\ r.head \in Slots /\ r.dropCount \in Nat
  BY DEF Log, Ring
<1>2. IsFull(r.head, r.tail) <=> Len(sent) = NumSlots - 1
  BY <1>1, FullAtLast
<1>3. CASE IsFull(r.head, r.tail)
  <2>1. WriteMessage(r, m).dropCount = r.dropCount + 1
    BY <1>3 DEF WriteMessage, Dropped, Ring
  <2>2. QED
    BY <1>1, <1>2, <1>3, <2>1
<1>4. CASE ~IsFull(r.head, r.tail)
  <2>1. WriteMessage(r, m).dropCount = r.dropCount
    BY <1>4 DEF WriteMessage, Committed, Ring
  <2>2. QED
    BY <1>1, <1>2, <1>4, <2>1
<1>5. QED
  BY <1>3, <1>4

(* A step that is not a send of its writer leaves the ring's DROP_COUNT. *)
LEMMA LifetimeStep ==
  ASSUME IInv, [Next]_vars
  PROVE  /\ (req'.dropCount > req.dropCount) <=>
              (nreq' # nreq /\ Len(reqSent) = NumSlots - 1)
         /\ (rep'.dropCount > rep.dropCount) <=>
              (spc = "reply" /\ spc' = "recv" /\ Len(repSent) = NumSlots - 1)
<1> USE DEF IInv, TypeOK
<1>0. reqSent \in Seq(Data) /\ MaxMsgs \in Nat
  <2>1. MsgIds \subseteq Data
    BY DEF MsgIds, Data
  <2>2. QED
    BY <2>1, SeqMonotonic, MaxMsgsAssumption
<1>1. CASE RequestSend
  <2>1. nreq + 1 \in Data /\ nreq' # nreq
    BY <1>0, <1>1 DEF RequestSend, Data
  <2>2. \A m \in Data :
          (WriteMessage(req, m).dropCount > req.dropCount) <=>
            Len(reqSent) = NumSlots - 1
    BY <1>0, DropExactly
  <2>3. (req'.dropCount > req.dropCount) <=> Len(reqSent) = NumSlots - 1
    BY <1>1, <2>1, <2>2 DEF RequestSend
  <2>4. rep' = rep /\ spc' = spc /\ rep.dropCount \in Nat
    BY <1>1 DEF RequestSend, Ring
  <2>5. QED
    BY <2>1, <2>3, <2>4
<1>2. CASE ServeReply
  <2>1. sreq \in Data /\ spc = "reply" /\ spc' = "recv"
    BY <1>2 DEF ServeReply
  <2>2. \A m \in Data :
          (WriteMessage(rep, m).dropCount > rep.dropCount) <=>
            Len(repSent) = NumSlots - 1
    BY DropExactly
  <2>3. (rep'.dropCount > rep.dropCount) <=> Len(repSent) = NumSlots - 1
    BY <1>2, <2>1, <2>2 DEF ServeReply
  <2>4. req' = req /\ nreq' = nreq /\ req.dropCount \in Nat
    BY <1>2 DEF ServeReply, Ring
  <2>5. QED
    BY <2>1, <2>3, <2>4
<1>3. CASE RequestRecv \/ RequestTimeout \/ ServeRecv \/ UNCHANGED vars
  <2>1. req' = req /\ rep' = rep /\ nreq' = nreq
        /\ ~(spc = "reply" /\ spc' = "recv")
    BY <1>3 DEF RequestRecv, RequestTimeout, ServeRecv, vars
  <2>2. req.dropCount \in Nat /\ rep.dropCount \in Nat
    BY DEF Ring
  <2>3. QED
    BY <2>1, <2>2
<1>4. QED
  BY <1>1, <1>2, <1>3 DEF Next

(* Lifetime capacity, for every ring size and number of request() calls: *)
(* Requester.send and Replier.send drop exactly the messages that follow *)
(* the first num_slots - 1 of their ring, whatever the reader has read:  *)
(* TAIL is never stored, so a ring carries num_slots - 1 messages in its *)
(* whole life.                                                           *)
THEOREM ReqRepLifetimeCapacity == Spec => LifetimeCapacity
<1>1. IInv /\ [Next]_vars =>
        [/\ (req'.dropCount > req.dropCount) <=>
               (nreq' # nreq /\ Len(reqSent) = NumSlots - 1)
         /\ (rep'.dropCount > rep.dropCount) <=>
               (spc = "reply" /\ spc' = "recv" /\ Len(repSent) = NumSlots - 1)]_vars
  BY LifetimeStep
<1>2. Spec => []IInv /\ [][Next]_vars
  BY IInvHolds, PTL DEF Spec
<1>3. QED
  BY <1>1, <1>2, PTL DEF LifetimeCapacity

-----------------------------------------------------------------------------
(* Each channel as a FIFO queue.  With TAIL at 0 and a reader's cursor at *)
(* or behind HEAD, the unread slots of a ring never wrap around.          *)
USE NumSlotsAssumption DEF Slots

(* A function on 1 .. n is a sequence.                                    *)
LEMMA FunIsSeq ==
  ASSUME NEW S, NEW n \in Nat, NEW f \in [1 .. n -> S]
  PROVE  f \in Seq(S)
<1>1. f \in UNION {[1 .. k -> S] : k \in Nat}
  OBVIOUS
<1>2. QED
  BY <1>1, SeqDef

LEMMA UnreadLog ==
  ASSUME NEW r \in Ring, NEW sent \in Seq(Data), Log(r, sent),
         NEW cur \in Slots, cur <= r.head
  PROVE  /\ Unread(r, cur) = [i \in 1 .. r.head - cur |-> r.slots[cur + i - 1]]
         /\ Unread(r, cur) \in Seq(Data)
         /\ Len(Unread(r, cur)) = r.head - cur
<1>1. r.head \in Slots /\ r.slots \in [Slots -> Data]
  BY DEF Ring
<1>2. UsedSlots(r.head, cur) = r.head - cur
  BY <1>1, UsedValue
<1>3. ASSUME NEW i \in 1 .. r.head - cur
      PROVE  /\ cur + i - 1 \in Slots
             /\ (cur + i - 1) % NumSlots = cur + i - 1
  <2>1. cur + i - 1 \in Slots
    BY <1>1 DEF Slots
  <2>2. QED
    BY <2>1, SlotMod
<1>4. Unread(r, cur) = [i \in 1 .. r.head - cur |-> r.slots[cur + i - 1]]
  BY <1>2, <1>3 DEF Unread
<1>5. /\ [i \in 1 .. r.head - cur |-> r.slots[cur + i - 1]] \in [1 .. r.head - cur -> Data]
      /\ r.head - cur \in Nat
  BY <1>1, <1>3 DEF Slots
<1>6. [i \in 1 .. r.head - cur |-> r.slots[cur + i - 1]] \in Seq(Data)
  BY <1>5, FunIsSeq
<1>7. QED
  BY <1>1, <1>4, <1>5, <1>6

(* A write_message that returns True queues its message behind the unread *)
(* ones, which are fewer than num_slots - 1; one that returns False leaves *)
(* them alone.                                                             *)
LEMMA WriteUnread ==
  ASSUME NEW r \in Ring, NEW sent \in Seq(Data), Log(r, sent),
         NEW cur \in Slots, cur <= r.head, NEW m \in Data
  PROVE  /\ Accepted(r) =>
              /\ Len(Unread(r, cur)) < NumSlots - 1
              /\ Unread(WriteMessage(r, m), cur) = Append(Unread(r, cur), m)
         /\ ~Accepted(r) => Unread(WriteMessage(r, m), cur) = Unread(r, cur)
<1>1. CASE ~Accepted(r)
  <2>1. WriteMessage(r, m).head = r.head /\ WriteMessage(r, m).slots = r.slots
    BY <1>1 DEF WriteMessage, Dropped, Accepted, Ring
  <2>2. QED
    BY <1>1, <2>1 DEF Unread
<1>2. CASE Accepted(r)
  <2> DEFINE h == r.head
             w == WriteMessage(r, m)
             U == Unread(r, cur)
             V == Unread(w, cur)
  <2>1. h # NumSlots - 1 /\ h \in Slots /\ r.slots \in [Slots -> Data]
    BY <1>2, FullAtLast DEF Accepted, Log, Ring
  <2>2. NextSlot(h) = h + 1 /\ h + 1 \in Slots
    BY <2>1, SlotSucc
  <2>3. w.head = h + 1 /\ w.slots = [r.slots EXCEPT ![h] = m]
    BY <1>2, <2>2 DEF WriteMessage, Committed, Accepted, Ring
  <2>4. w \in Ring /\ Log(w, Append(sent, m)) /\ Append(sent, m) \in Seq(Data)
    <3>1. LET s2 == IF Accepted(r) THEN Append(sent, m) ELSE sent
          IN  w \in Ring /\ Log(w, s2) /\ s2 \in Seq(Data)
      BY WriteLog
    <3>2. QED
      BY <1>2, <3>1
  <2>5. /\ U = [i \in 1 .. h - cur |-> r.slots[cur + i - 1]]
        /\ U \in Seq(Data) /\ Len(U) = h - cur
    BY UnreadLog
  <2>6. /\ V = [i \in 1 .. w.head - cur |-> w.slots[cur + i - 1]]
        /\ V \in Seq(Data) /\ Len(V) = w.head - cur
    <3>1. cur <= w.head
      BY <2>1, <2>3
    <3>2. QED
      BY <2>4, <3>1, UnreadLog
  <2>7. /\ Append(U, m) \in Seq(Data) /\ Len(Append(U, m)) = Len(U) + 1
        /\ \A i \in 1 .. Len(U) : Append(U, m)[i] = U[i]
        /\ Append(U, m)[Len(U) + 1] = m
    <3>1. U \in Seq(Data)
      BY <2>5
    <3>2. QED
      BY <3>1, AppendProperties
  <2>8. Len(V) = Len(Append(U, m))
    <3>1. Len(V) = w.head - cur
      BY <2>6
    <3>2. Len(Append(U, m)) = Len(U) + 1 /\ Len(U) = h - cur
      BY <2>5, <2>7
    <3>3. QED
      BY <2>1, <2>3, <3>1, <3>2, SMTT(30)
  <2>9. \A i \in 1 .. Len(V) : V[i] = Append(U, m)[i]
    <3>1. ASSUME NEW i \in 1 .. h - cur PROVE V[i] = Append(U, m)[i]
      <4>1. V[i] = r.slots[cur + i - 1]
        BY <2>1, <2>3, <2>6
      <4>2. Append(U, m)[i] = r.slots[cur + i - 1]
        BY <2>1, <2>5, <2>7
      <4>3. QED
        BY <4>1, <4>2
    <3>2. V[h + 1 - cur] = Append(U, m)[h + 1 - cur]
      <4>1. V[h + 1 - cur] = m
        BY <2>1, <2>3, <2>6
      <4>2. Append(U, m)[h + 1 - cur] = m
        BY <2>1, <2>5, <2>7
      <4>3. QED
        BY <4>1, <4>2
    <3>3. Len(V) = h + 1 - cur
      BY <2>1, <2>3, <2>6
    <3>4. QED
      <4> SUFFICES ASSUME NEW i \in 1 .. Len(V) PROVE V[i] = Append(U, m)[i]
        OBVIOUS
      <4>1. CASE i <= h - cur
        <5>1. i \in 1 .. h - cur
          BY <2>1, <3>3, <4>1
        <5>2. QED
          BY <3>1, <5>1
      <4>2. CASE i = h + 1 - cur
        BY <3>2, <4>2
      <4>3. i <= h - cur \/ i = h + 1 - cur
        <5>1. i \in 1 .. h + 1 - cur
          BY <3>3
        <5>2. QED
          BY <2>1, <5>1
      <4>4. QED
        BY <4>1, <4>2, <4>3
  <2>10. V = Append(U, m)
    BY <2>6, <2>7, <2>8, <2>9, SeqEqual
  <2>11. Len(U) < NumSlots - 1
    BY <2>1, <2>5
  <2>12. QED
    BY <1>2, <2>10, <2>11
<1>3. QED
  BY <1>1, <1>2

(* read_message_spsc on a non-empty ring returns the oldest unread        *)
(* message, and the advanced cursor leaves the rest.                      *)
LEMMA ReadUnread ==
  ASSUME NEW r \in Ring, NEW sent \in Seq(Data), Log(r, sent),
         NEW cur \in Slots, cur <= r.head, HasMessage(r, cur)
  PROVE  /\ Unread(r, cur) # << >>
         /\ Head(Unread(r, cur)) = r.slots[cur]
         /\ Unread(r, Advance(cur)) = Tail(Unread(r, cur))
<1> DEFINE F == [i \in 1 .. r.head - cur |-> r.slots[cur + i - 1]]
           G == [i \in 1 .. r.head - (cur + 1) |-> r.slots[cur + 1 + i - 1]]
<1>1. cur < r.head /\ r.head \in Slots
  BY DEF HasMessage, Ring
<1>2. Advance(cur) = cur + 1 /\ cur + 1 \in Slots /\ cur + 1 <= r.head
  BY <1>1, SlotSucc DEF Advance
<1>3. /\ Unread(r, cur) = F /\ Unread(r, cur) \in Seq(Data)
      /\ Len(Unread(r, cur)) = r.head - cur
  BY UnreadLog
<1>4. /\ Unread(r, cur + 1) = G /\ Unread(r, cur + 1) \in Seq(Data)
      /\ Len(Unread(r, cur + 1)) = r.head - (cur + 1)
  BY <1>2, UnreadLog
<1>5. F # << >>
  BY <1>1
<1>6. Head(F) = r.slots[cur]
  BY <1>1
<1>7. /\ Tail(Unread(r, cur)) \in Seq(Data)
      /\ Len(Tail(Unread(r, cur))) = Len(Unread(r, cur)) - 1
      /\ \A i \in 1 .. Len(Tail(Unread(r, cur))) :
           Tail(Unread(r, cur))[i] = Unread(r, cur)[i + 1]
  <2>1. Unread(r, cur) \in Seq(Data) /\ Unread(r, cur) # << >>
    BY <1>3, <1>5
  <2>2. QED
    BY <2>1, HeadTailProperties
<1>8. Len(Unread(r, cur + 1)) = Len(Tail(Unread(r, cur)))
  <2>1. Len(Unread(r, cur + 1)) = r.head - (cur + 1)
    BY <1>4
  <2>2. Len(Tail(Unread(r, cur))) = (r.head - cur) - 1
    BY <1>3, <1>7
  <2>3. QED
    BY <1>1, <2>1, <2>2, SMTT(30)
<1>9. ASSUME NEW i \in 1 .. Len(Unread(r, cur + 1))
      PROVE  Unread(r, cur + 1)[i] = Tail(Unread(r, cur))[i]
  <2>1. Unread(r, cur + 1)[i] = r.slots[cur + i]
    <3>1. i \in 1 .. r.head - (cur + 1)
      BY <1>4
    <3>2. Unread(r, cur + 1)[i] = r.slots[cur + 1 + i - 1]
      BY <1>4, <3>1
    <3>3. QED
      BY <1>1, <3>2
  <2>2. Tail(Unread(r, cur))[i] = r.slots[cur + i]
    <3>1. Tail(Unread(r, cur))[i] = Unread(r, cur)[i + 1]
      <4>1. i \in 1 .. Len(Tail(Unread(r, cur)))
        BY <1>8
      <4>2. QED
        BY <1>7, <4>1
    <3>2. i + 1 \in 1 .. r.head - cur
      BY <1>1, <1>4
    <3>3. Unread(r, cur)[i + 1] = r.slots[cur + i]
      BY <1>3, <3>2
    <3>4. QED
      BY <3>1, <3>3
  <2>3. QED
    BY <2>1, <2>2
<1>10. Unread(r, cur + 1) = Tail(Unread(r, cur))
  BY <1>4, <1>7, <1>8, <1>9, SeqEqual
<1>11. QED
  BY <1>2, <1>3, <1>5, <1>6, <1>10

(* A channel's queue and delivered history, in the current and the next *)
(* state.                                                                *)
LEMMA ChannelVars ==
  /\ RequestQueue!qvars = <<Unread(req, stail), served>>
  /\ RequestQueue!qvars' = <<Unread(req', stail'), served'>>
  /\ ReplyQueue!qvars = <<Unread(rep, ctail), Replies>>
  /\ ReplyQueue!qvars' = <<Unread(rep', ctail'), Replies'>>
  BY DEF RequestQueue!qvars, ReplyQueue!qvars, Unread, Replies

LEMMA InitChannels == Init => RequestQueue!QInit /\ ReplyQueue!QInit
<1> SUFFICES ASSUME Init PROVE RequestQueue!QInit /\ ReplyQueue!QInit
  OBVIOUS
<1>1. UsedSlots(0, 0) = 0
  BY DEF UsedSlots
<1>2. req.head = 0 /\ rep.head = 0 /\ stail = 0 /\ ctail = 0
      /\ served = << >> /\ answers = << >>
  BY DEF Init, NewRing
<1>3. Unread(req, stail) = << >> /\ Unread(rep, ctail) = << >>
  BY <1>1, <1>2 DEF Unread
<1>4. QED
  BY <1>2, <1>3 DEF RequestQueue!QInit, ReplyQueue!QInit

(* Every step of the pattern is a step, or a stutter, of both queues.    *)
LEMMA NextChannels ==
  IInv /\ [Next]_vars =>
    /\ [RequestQueue!QNext]_RequestQueue!qvars
    /\ [ReplyQueue!QNext]_ReplyQueue!qvars
<1> SUFFICES ASSUME IInv, [Next]_vars
             PROVE  /\ [RequestQueue!QNext]_RequestQueue!qvars
                    /\ [ReplyQueue!QNext]_ReplyQueue!qvars
  OBVIOUS
<1> USE DEF IInv, TypeOK
<1>0. /\ reqSent \in Seq(Data) /\ repSent \in Seq(Data)
      /\ stail <= req.head /\ ctail <= rep.head
  <2>1. MsgIds \subseteq Data
    BY DEF MsgIds, Data
  <2>2. QED
    BY <2>1, SeqMonotonic DEF Log, CursorBehind
<1>1. CASE RequestSend
  <2>1. nreq + 1 \in Data
    BY <1>1, MaxMsgsAssumption DEF RequestSend, Data
  <2>2. \A m \in Data :
          /\ Accepted(req) =>
               /\ Len(Unread(req, stail)) < NumSlots - 1
               /\ Unread(WriteMessage(req, m), stail) = Append(Unread(req, stail), m)
          /\ ~Accepted(req) =>
               Unread(WriteMessage(req, m), stail) = Unread(req, stail)
    BY <1>0, WriteUnread
  <2>3. /\ req' = WriteMessage(req, nreq + 1) /\ stail' = stail /\ served' = served
        /\ rep' = rep /\ ctail' = ctail /\ answers' = answers
    BY <1>1 DEF RequestSend
  <2>4. CASE Accepted(req)
    BY <2>1, <2>2, <2>3, <2>4, ChannelVars
    DEF RequestQueue!QNext, RequestQueue!Put, Replies
  <2>5. CASE ~Accepted(req)
    BY <2>1, <2>2, <2>3, <2>5, ChannelVars DEF Replies
  <2>6. QED
    BY <2>4, <2>5
<1>2. CASE RequestRecv
  <2>1. /\ Unread(rep, ctail) # << >>
        /\ Head(Unread(rep, ctail)) = rep.slots[ctail]
        /\ Unread(rep, Advance(ctail)) = Tail(Unread(rep, ctail))
    BY <1>0, <1>2, ReadUnread DEF RequestRecv
  <2>2. /\ ctail' = Advance(ctail) /\ rep' = rep
        /\ req' = req /\ stail' = stail /\ served' = served
    BY <1>2 DEF RequestRecv
  <2>3. Unread(rep', ctail') = Tail(Unread(rep, ctail))
    BY <2>1, <2>2
  <2>4. CASE /\ rep.slots[ctail] \notin FalsyReplies
             /\ answers' = Append(answers, <<nreq, rep.slots[ctail]>>)
    <3>1. Replies' = Append(Replies, rep.slots[ctail])
      BY <2>4, SecondsAppend DEF Replies
    <3>2. ReplyQueue!Get
      BY <2>1, <2>3, <2>4, <3>1 DEF ReplyQueue!Get, Replies
    <3>3. QED
      BY <2>2, <3>2, ChannelVars DEF ReplyQueue!QNext
  <2>5. CASE /\ rep.slots[ctail] \in FalsyReplies
             /\ answers' = answers
    <3>1. ReplyQueue!Skip
      BY <2>1, <2>3, <2>5 DEF ReplyQueue!Skip, Replies
    <3>2. QED
      BY <2>2, <3>1, ChannelVars DEF ReplyQueue!QNext
  <2>6. QED
    BY <1>2, <2>4, <2>5 DEF RequestRecv
<1>3. CASE ServeRecv
  <2>1. /\ Unread(req, stail) # << >>
        /\ Head(Unread(req, stail)) = req.slots[stail]
        /\ Unread(req, Advance(stail)) = Tail(Unread(req, stail))
    BY <1>0, <1>3, ReadUnread DEF ServeRecv
  <2>2. /\ stail' = Advance(stail) /\ req' = req
        /\ rep' = rep /\ ctail' = ctail /\ answers' = answers
    BY <1>3 DEF ServeRecv
  <2>3. CASE /\ req.slots[stail] \notin FalsyRequests
             /\ served' = Append(served, req.slots[stail])
    <3>1. RequestQueue!Get
      BY <2>1, <2>2, <2>3, ChannelVars DEF RequestQueue!Get
    <3>2. QED
      BY <2>2, <3>1, ChannelVars DEF RequestQueue!QNext, Replies
  <2>4. CASE /\ req.slots[stail] \in FalsyRequests
             /\ served' = served
    <3>1. RequestQueue!Skip
      BY <2>1, <2>2, <2>4, ChannelVars DEF RequestQueue!Skip
    <3>2. QED
      BY <2>2, <3>1, ChannelVars DEF RequestQueue!QNext, Replies
  <2>5. QED
    BY <1>3, <2>3, <2>4 DEF ServeRecv
<1>4. CASE ServeReply
  <2>1. \A m \in Data :
          /\ Accepted(rep) =>
               /\ Len(Unread(rep, ctail)) < NumSlots - 1
               /\ Unread(WriteMessage(rep, m), ctail) = Append(Unread(rep, ctail), m)
          /\ ~Accepted(rep) =>
               Unread(WriteMessage(rep, m), ctail) = Unread(rep, ctail)
    BY <1>0, WriteUnread
  <2>2. /\ rep' = WriteMessage(rep, sreq) /\ ctail' = ctail /\ answers' = answers
        /\ req' = req /\ stail' = stail /\ served' = served
    BY <1>4 DEF ServeReply
  <2>3. CASE Accepted(rep)
    BY <2>1, <2>2, <2>3, ChannelVars
    DEF ReplyQueue!QNext, ReplyQueue!Put, Replies
  <2>4. CASE ~Accepted(rep)
    BY <2>1, <2>2, <2>4, ChannelVars DEF Replies
  <2>5. QED
    BY <2>3, <2>4
<1>5. CASE RequestTimeout \/ UNCHANGED vars
  <2>1. UNCHANGED <<req, rep, stail, ctail, served, answers>>
    BY <1>5 DEF RequestTimeout, vars
  <2>2. QED
    BY <2>1, ChannelVars DEF Replies
<1>6. QED
  BY <1>1, <1>2, <1>3, <1>4, <1>5 DEF Next

(* Requester.send with Replier.recv, and Replier.send with request()'s   *)
(* recv, each implement a FIFO queue of capacity num_slots - 1 whose     *)
(* reads deliver the queued messages once each and in order, except the *)
(* ones that deserialize to None or False, which poll_until takes off    *)
(* the ring and drops: for every ring size, number of request() calls   *)
(* and set of falsy payloads, timeouts and drops included.              *)
THEOREM ChannelsAreQueues == Spec => ImplementsChannels
<1>1. Spec => []IInv /\ [][Next]_vars /\ Init
  BY IInvHolds, PTL DEF Spec
<1>2. []IInv /\ [][Next]_vars =>
        /\ [][RequestQueue!QNext]_RequestQueue!qvars
        /\ [][ReplyQueue!QNext]_ReplyQueue!qvars
  BY NextChannels, PTL
<1>3. QED
  BY <1>1, <1>2, InitChannels, PTL
  DEF ImplementsChannels, RequestQueue!SafetySpec, ReplyQueue!SafetySpec

=============================================================================
