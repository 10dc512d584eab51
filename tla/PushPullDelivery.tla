-------------------------- MODULE PushPullDelivery -------------------------
(***************************************************************************)
(* Proof that the Pullers of a PushPull pipeline deliver every message at  *)
(* most once, for every ring size, number of sends, Pullers and Puller    *)
(* deaths.                                                                 *)
(*                                                                         *)
(* The argument: write_message stores a fresh counter value in every slot  *)
(* it commits, so the commit history written has no repeats; by NoLoss   *)
(* the claim history taken is a prefix of written, and the message a TAIL *)
(* store claims is the next element of written, not yet in taken.  Every  *)
(* message a Puller has returned, or holds between its TAIL store and its *)
(* release of the lock, is an element of taken, and no two of them sit at *)
(* the same place of taken.                                               *)
(***************************************************************************)
EXTENDS QueueRefinement, SequenceTheorems, TLAPS

\* Every value sends had at a HEAD commit is at most its current value, and
\* below it while write_message is running.
SendsFresh ==
  \A i \in 1 .. Len(written) :
    /\ written[i] <= sends
    /\ ppc \in {"check", "len", "body", "commit"} => written[i] < sends

WrittenInjective ==
  \A i, j \in 1 .. Len(written) : i # j => written[i] # written[j]

\* A Puller between _read_slot and its TAIL store holds a copy of the slot
\* it read, which nobody has overwritten.
ReadAhead == \A p \in Pullers : pc[p] = "advance" => rbody[p] = slotBody[rtail[p]]

\* The messages a Puller has in hand: the ones recv returned (1, 2, ...)
\* and, between the TAIL store and the release, the one it claimed (0).
Held(p) == (1 .. Len(recvd[p])) \cup (IF pc[p] = "claimed" THEN {0} ELSE {})

Got(p, i) == IF i = 0 THEN rbody[p] ELSE recvd[p][i].body

TakenSet == {taken[k] : k \in 1 .. Len(taken)}

HeldTaken == \A p \in Pullers : \A i \in Held(p) : Got(p, i) \in TakenSet

HeldDistinct ==
  \A p, q \in Pullers : \A i \in Held(p), j \in Held(q) :
    <<p, i>> # <<q, j>> => Got(p, i) # Got(q, j)

DInv ==
  /\ RInv /\ NoLoss /\ SendsFresh /\ WrittenInjective /\ ReadAhead
  /\ HeldTaken /\ HeldDistinct

-----------------------------------------------------------------------------
(* A history without repeats, split into a prefix and a non-empty rest:   *)
(* the first element of the rest is not in the prefix.                     *)
LEMMA FreshNext ==
  ASSUME NEW S, NEW w \in Seq(S), NEW t \in Seq(S), NEW r \in Seq(S),
         r # << >>, w = t \o r,
         \A i, j \in 1 .. Len(w) : i # j => w[i] # w[j]
  PROVE  \A k \in 1 .. Len(t) : t[k] # Head(r)
<1>1. Len(r) >= 1 /\ Head(r) = r[1]
  BY EmptySeq, LenProperties
<1>2. /\ Len(w) = Len(t) + Len(r)
      /\ \A k \in 1 .. Len(t) : w[k] = t[k]
      /\ w[Len(t) + 1] = r[1]
  BY <1>1, ConcatProperties
<1>3. QED
  BY <1>1, <1>2

-----------------------------------------------------------------------------
(* The commit history has no repeats.                                     *)
LEMMA NextFresh ==
  ASSUME DInv, [Next]_vars
  PROVE  SendsFresh' /\ WrittenInjective'
<1> USE DEF DInv, RInv, IInv, TypeOK
<1>1. CASE WriteCommit
  <2>1. /\ written' = Append(written, sends) /\ ppc = "commit" /\ ppc' = "count"
        /\ sends' = sends
    BY <1>1 DEF WriteCommit, pusher
  <2>2. /\ Len(written') = Len(written) + 1
        /\ \A i \in 1 .. Len(written) : written'[i] = written[i]
        /\ written'[Len(written) + 1] = sends
    BY <2>1, AppendProperties DEF SendInProgress, MsgIds
  <2>3. \A i \in 1 .. Len(written) : written[i] < sends
    BY <2>1 DEF SendsFresh
  <2>4. QED
    BY <2>1, <2>2, <2>3 DEF SendsFresh, WrittenInjective
<1>2. ASSUME NEW m \in Modes, Send(m) PROVE SendsFresh' /\ WrittenInjective'
  <2>1. /\ ppc = "idle" /\ sends' = sends + 1 /\ written' = written
    BY <1>2 DEF Send
  <2>2. \A i \in 1 .. Len(written) : written[i] <= sends
    BY DEF SendsFresh
  <2>3. \A i \in 1 .. Len(written) : written[i] \in Nat
    <3>1. \A i \in 1 .. Len(written) : written[i] \in MsgIds
      BY ElementOfSeq
    <3>2. QED
      BY <3>1, MaxMsgsAssumption DEF MsgIds
  <2>4. SendsFresh'
    BY <2>1, <2>2, <2>3 DEF SendsFresh
  <2>5. QED
    BY <2>1, <2>4 DEF WrittenInjective
<1>3. CASE WriteCheck \/ WriteLen \/ WriteBody \/ WriteCount
  BY <1>3 DEF WriteCheck, WriteLen, WriteBody, WriteCount, pusher,
     SendsFresh, WrittenInjective
<1>4. ASSUME NEW p \in Pullers, PullerStep(p) \/ Crash(p)
      PROVE  SendsFresh' /\ WrittenInjective'
  BY <1>4 DEF PullerStep, Acquire, ReadCheck, ReadLen, ReadBody, AdvanceTail,
     Release, Crash, header, pusher, SendsFresh, WrittenInjective
<1>5. CASE UNCHANGED vars
  BY <1>5 DEF vars, header, pusher, SendsFresh, WrittenInjective
<1>6. QED
  BY <1>1, <1>2, <1>3, <1>4, <1>5 DEF Next, PusherStep

(* Only one Puller at a time is inside the critical section.             *)
LEMMA OneInCS ==
  ASSUME LockHeld, NEW p \in Pullers, NEW q \in Pullers, InCS(p), InCS(q)
  PROVE  p = q
  BY DEF LockHeld

(* The copy a Puller holds before its TAIL store is still the slot's.    *)
LEMMA NextReadAhead ==
  ASSUME DInv, [Next]_vars
  PROVE  ReadAhead'
<1> USE DEF DInv, RInv, IInv, TypeOK
<1>1. CASE WriteBody
  <2>1. /\ slotBody' = [slotBody EXCEPT ![head] = sends]
        /\ UNCHANGED <<head, tail, pc, rtail, rbody>>
    BY <1>1 DEF WriteBody, pullers
  <2>2. \A p \in Pullers : pc[p] = "advance" => rtail[p] # head
    BY DEF ClaimValid
  <2>3. QED
    BY <2>1, <2>2 DEF ReadAhead
<1>2. ASSUME NEW p \in Pullers, ReadBody(p) PROVE ReadAhead'
  BY <1>2 DEF ReadBody, header, ReadAhead
<1>3. ASSUME NEW p \in Pullers, AdvanceTail(p) PROVE ReadAhead'
  <2>1. \A q \in Pullers \ {p} : pc[q] # "advance"
    BY <1>3, OneInCS DEF AdvanceTail, InCS
  <2>2. QED
    BY <1>3, <2>1 DEF AdvanceTail, pusher, ReadAhead
<1>4. ASSUME NEW p \in Pullers, ReadCheck(p) PROVE ReadAhead'
  BY <1>4 DEF ReadCheck, header, ReadAhead
<1>5. ASSUME NEW p \in Pullers,
             Acquire(p) \/ ReadLen(p) \/ Release(p) \/ Crash(p)
      PROVE  ReadAhead'
  BY <1>5 DEF Acquire, ReadLen, Release, Crash, header, ReadAhead
<1>6. ASSUME NEW m \in Modes, Send(m) PROVE ReadAhead'
  BY <1>6 DEF Send, header, pullers, ReadAhead
<1>7. CASE WriteCheck \/ WriteLen \/ WriteCommit \/ WriteCount
  BY <1>7 DEF WriteCheck, WriteLen, WriteCommit, WriteCount, pullers, ReadAhead
<1>8. CASE UNCHANGED vars
  BY <1>8 DEF vars, header, pullers, ReadAhead
<1>9. QED
  BY <1>1, <1>2, <1>3, <1>4, <1>5, <1>6, <1>7, <1>8
  DEF Next, PusherStep, PullerStep

-----------------------------------------------------------------------------
(* The messages in hand.                                                  *)

(* A step that only drops messages from hands, and claims no fewer, keeps *)
(* them claimed and distinct.                                              *)
LEMMA HeldShrink ==
  ASSUME HeldTaken, HeldDistinct, TakenSet \subseteq TakenSet',
         \A p \in Pullers : /\ Held(p)' \subseteq Held(p)
                            /\ \A i \in Held(p)' : Got(p, i)' = Got(p, i)
  PROVE  HeldTaken' /\ HeldDistinct'
<1>1. HeldTaken'
  BY DEF HeldTaken
<1>2. HeldDistinct'
  BY DEF HeldDistinct
<1>3. QED
  BY <1>1, <1>2

(* A step that leaves the pc, the copies and the returns of every Puller  *)
(* alone, and claims nothing.                                              *)
LEMMA HeldUnchanged ==
  ASSUME HeldTaken, HeldDistinct,
         pc' = pc, rbody' = rbody, recvd' = recvd, taken' = taken
  PROVE  HeldTaken' /\ HeldDistinct'
  BY HeldShrink DEF Held, Got, TakenSet

(* The TAIL store puts the message just claimed into the Puller's hand;   *)
(* it is the next element of the commit history, in nobody's hand yet.    *)
LEMMA AdvanceHeld ==
  ASSUME DInv, NEW p \in Pullers, AdvanceTail(p)
  PROVE  HeldTaken' /\ HeldDistinct'
<1> USE DEF DInv, RInv, IInv, TypeOK
<1> DEFINE v == Head(Pending)
<1>1. /\ Pending # << >>
      /\ taken' = Append(taken, v) /\ Pending' = Tail(Pending)
  BY ClaimStep
<1>2. rbody[p] = v
  <2>1. rtail[p] = tail /\ tail # head /\ pc[p] = "advance"
    BY DEF AdvanceTail, ClaimValid
  <2>2. rbody[p] = slotBody[tail]
    BY <2>1 DEF ReadAhead
  <2>3. Head(PendingAt(head, tail, slotBody)) = slotBody[tail]
    BY <2>1, PendingTail
  <2>4. QED
    BY <2>2, <2>3, PendingDef
<1>3. v \notin TakenSet
  <2>1. Pending \in Seq(Data) /\ written \in Seq(Data)
    <3>1. PendingAt(head, tail, slotBody) \in Seq(Data)
      BY PendingSeq
    <3>2. MsgIds \subseteq Data
      BY DEF MsgIds, Data
    <3>3. Seq(MsgIds) \subseteq Seq(Data)
      BY <3>2, SeqMonotonic
    <3>4. QED
      BY <3>1, <3>3, PendingDef
  <2>2. \A k \in 1 .. Len(taken) : taken[k] # v
    BY <1>1, <2>1, FreshNext DEF NoLoss, WrittenInjective
  <2>3. QED
    BY <2>2 DEF TakenSet
<1>4. TakenSet' = TakenSet \cup {v}
  <2>1. v \in Data
    BY <1>1, PendingSeq, PendingDef, HeadTailProperties
  <2>2. /\ Len(taken') = Len(taken) + 1
        /\ \A k \in 1 .. Len(taken) : taken'[k] = taken[k]
        /\ taken'[Len(taken) + 1] = v
    BY <1>1, <2>1, AppendProperties
  <2>3. ASSUME NEW k \in 1 .. Len(taken') PROVE taken'[k] \in TakenSet \cup {v}
    <3>1. CASE k <= Len(taken)
      <4>1. k \in 1 .. Len(taken) /\ taken'[k] = taken[k]
        BY <2>2, <3>1
      <4>2. QED
        BY <4>1 DEF TakenSet
    <3>2. CASE k = Len(taken) + 1
      BY <2>2, <3>2
    <3>3. QED
      BY <2>2, <3>1, <3>2
  <2>4. TakenSet \cup {v} \subseteq TakenSet'
    <3>1. ASSUME NEW k \in 1 .. Len(taken) PROVE taken[k] \in TakenSet'
      <4>1. k \in 1 .. Len(taken') /\ taken'[k] = taken[k]
        BY <2>2
      <4>2. QED
        BY <4>1 DEF TakenSet
    <3>2. v \in TakenSet'
      <4>1. Len(taken) + 1 \in 1 .. Len(taken')
        BY <2>2
      <4>2. QED
        BY <2>2, <4>1 DEF TakenSet
    <3>3. QED
      BY <3>1, <3>2 DEF TakenSet
  <2>5. QED
    BY <2>3, <2>4 DEF TakenSet
<1>5. /\ pc[p] = "advance" /\ pc' = [pc EXCEPT ![p] = "claimed"]
      /\ rbody' = rbody /\ recvd' = recvd
  BY DEF AdvanceTail
<1>6. /\ Held(p)' = Held(p) \cup {0} /\ 0 \notin Held(p)
      /\ \A q \in Pullers \ {p} : Held(q)' = Held(q)
      /\ \A q \in Pullers : \A i \in Held(q) : Got(q, i)' = Got(q, i)
      /\ Got(p, 0)' = v
  BY <1>2, <1>5 DEF Held, Got
<1>7. HeldTaken'
  <2> SUFFICES ASSUME NEW q \in Pullers, NEW i \in Held(q)'
               PROVE  Got(q, i)' \in TakenSet'
    BY DEF HeldTaken
  <2>1. CASE i \in Held(q)
    <3>1. Got(q, i) \in TakenSet
      BY <2>1 DEF HeldTaken
    <3>2. QED
      BY <1>4, <1>6, <2>1, <3>1
  <2>2. CASE i \notin Held(q)
    BY <1>4, <1>6, <2>2
  <2>3. QED
    BY <2>1, <2>2
<1>8. HeldDistinct'
  <2> SUFFICES ASSUME NEW q1 \in Pullers, NEW i1 \in Held(q1)',
                      NEW q2 \in Pullers, NEW i2 \in Held(q2)',
                      <<q1, i1>> # <<q2, i2>>
               PROVE  Got(q1, i1)' # Got(q2, i2)'
    BY DEF HeldDistinct
  <2>1. CASE i1 \in Held(q1) /\ i2 \in Held(q2)
    BY <1>6, <2>1 DEF HeldDistinct
  <2>2. CASE i1 \notin Held(q1)
    <3>1. q1 = p /\ i1 = 0 /\ Got(q1, i1)' = v
      BY <1>6, <2>2
    <3>2. i2 \in Held(q2)
      BY <1>6, <3>1
    <3>3. Got(q2, i2) \in TakenSet
      BY <3>2 DEF HeldTaken
    <3>4. QED
      BY <1>3, <1>6, <3>1, <3>2, <3>3
  <2>3. CASE i2 \notin Held(q2)
    <3>1. q2 = p /\ i2 = 0 /\ Got(q2, i2)' = v
      BY <1>6, <2>3
    <3>2. i1 \in Held(q1)
      BY <1>6, <3>1
    <3>3. Got(q1, i1) \in TakenSet
      BY <3>2 DEF HeldTaken
    <3>4. QED
      BY <1>3, <1>6, <3>1, <3>2, <3>3
  <2>4. QED
    BY <2>1, <2>2, <2>3
<1>9. QED
  BY <1>7, <1>8

(* Leaving the lock moves the claimed message from the Puller's hand into *)
(* what recv returned, or drops it when it deserializes to None or False. *)
LEMMA ReleaseHeld ==
  ASSUME DInv, NEW p \in Pullers, Release(p)
  PROVE  HeldTaken' /\ HeldDistinct'
<1> USE DEF DInv, RInv, IInv, TypeOK
<1>1. /\ pc' = [pc EXCEPT ![p] = "idle"] /\ rbody' = rbody /\ taken' = taken
  BY DEF Release, pusher
<1>2. CASE pc[p] = "claimed" /\ rbody[p] \notin Falsy
  <2> DEFINE L == Len(recvd[p])
             c == [len |-> rlen[p], body |-> rbody[p]]
             Old(q, j) == IF q = p /\ j = L + 1 THEN 0 ELSE j
  <2>0. recvd[p] \in Seq(Copy) /\ L \in Nat
    OBVIOUS
  <2>1. recvd' = [recvd EXCEPT ![p] = Append(recvd[p], c)]
    BY <1>2, SMTT(30) DEF Release
  <2>2. /\ Len(recvd'[p]) = L + 1
        /\ \A j \in 1 .. L : recvd'[p][j] = recvd[p][j]
        /\ recvd'[p][L + 1] = c
    <3>1. c \in Copy
      BY DEF Copy
    <3>2. recvd'[p] = Append(recvd[p], c)
      BY <2>1
    <3>3. /\ Len(Append(recvd[p], c)) = L + 1
          /\ \A j \in 1 .. L : Append(recvd[p], c)[j] = recvd[p][j]
          /\ Append(recvd[p], c)[L + 1] = c
      BY <2>0, <3>1, AppendProperties
    <3>4. QED
      BY <3>2, <3>3
  <2>3. /\ Held(p)' = 1 .. L + 1 /\ Held(p) = (1 .. L) \cup {0}
        /\ \A q \in Pullers \ {p} : Held(q)' = Held(q) /\ recvd'[q] = recvd[q]
    BY <1>1, <1>2, <2>1, <2>2 DEF Held
  <2>4. \A q \in Pullers : \A j \in Held(q)' :
          Old(q, j) \in Held(q) /\ Got(q, j)' = Got(q, Old(q, j))
    <3>1. ASSUME NEW j \in 1 .. L PROVE Got(p, j)' = Got(p, j)
      BY <2>2 DEF Got
    <3>2. ASSUME NEW j \in 1 .. L + 1, j = L + 1 PROVE Got(p, j)' = Got(p, 0)
      BY <1>1, <2>0, <2>2, <3>2 DEF Got
    <3>3. ASSUME NEW q \in Pullers \ {p}, NEW j \in Held(q)
          PROVE  Got(q, j)' = Got(q, j)
      <4>1. recvd'[q] = recvd[q] /\ rbody'[q] = rbody[q]
        BY <1>1, <2>3
      <4>2. QED
        BY <4>1 DEF Got
    <3>4. ASSUME NEW q \in Pullers, NEW j \in Held(q)'
          PROVE  Old(q, j) \in Held(q) /\ Got(q, j)' = Got(q, Old(q, j))
      <4>1. CASE q = p /\ j = L + 1
        BY <2>0, <2>3, <3>2, <4>1
      <4>2. CASE q = p /\ j # L + 1
        <5>1. j \in 1 .. L
          BY <2>0, <2>3, <4>2
        <5>2. QED
          BY <2>3, <3>1, <4>2, <5>1
      <4>3. CASE q # p
        BY <2>3, <3>3, <4>3
      <4>4. QED
        BY <4>1, <4>2, <4>3
    <3>5. QED
      BY <3>4
  <2>5. \A q1, q2 \in Pullers : \A j1 \in Held(q1)', j2 \in Held(q2)' :
          <<q1, j1>> # <<q2, j2>> => <<q1, Old(q1, j1)>> # <<q2, Old(q2, j2)>>
    <3> SUFFICES ASSUME NEW q1 \in Pullers, NEW q2 \in Pullers,
                        NEW j1 \in Held(q1)', NEW j2 \in Held(q2)',
                        <<q1, j1>> # <<q2, j2>>
                 PROVE  <<q1, Old(q1, j1)>> # <<q2, Old(q2, j2)>>
      OBVIOUS
    <3>1. CASE q1 # q2
      BY <3>1
    <3>2. CASE q1 = q2 /\ q1 = p
      <4>1. j1 \in 1 .. L + 1 /\ j2 \in 1 .. L + 1 /\ j1 # j2
        BY <2>3, <3>2
      <4>2. Old(q1, j1) # Old(q2, j2)
        BY <3>2, <4>1
      <4>3. QED
        BY <4>2
    <3>3. CASE q1 = q2 /\ q1 # p
      BY <3>3, SMTT(30)
    <3>4. QED
      BY <3>1, <3>2, <3>3
  <2>6. HeldTaken'
    <3> SUFFICES ASSUME NEW q \in Pullers, NEW j \in Held(q)'
                 PROVE  Got(q, j)' \in TakenSet'
      BY DEF HeldTaken
    <3>1. Old(q, j) \in Held(q) /\ Got(q, j)' = Got(q, Old(q, j))
      BY <2>4
    <3>2. Got(q, Old(q, j)) \in TakenSet
      BY <3>1 DEF HeldTaken
    <3>3. QED
      BY <1>1, <3>1, <3>2 DEF TakenSet
  <2>7. HeldDistinct'
    <3> SUFFICES ASSUME NEW q1 \in Pullers, NEW j1 \in Held(q1)',
                        NEW q2 \in Pullers, NEW j2 \in Held(q2)',
                        <<q1, j1>> # <<q2, j2>>
                 PROVE  Got(q1, j1)' # Got(q2, j2)'
      BY DEF HeldDistinct
    <3>1. /\ Old(q1, j1) \in Held(q1) /\ Got(q1, j1)' = Got(q1, Old(q1, j1))
          /\ Old(q2, j2) \in Held(q2) /\ Got(q2, j2)' = Got(q2, Old(q2, j2))
          /\ <<q1, Old(q1, j1)>> # <<q2, Old(q2, j2)>>
      BY <2>4, <2>5, SMTT(30)
    <3>2. QED
      BY <3>1 DEF HeldDistinct
  <2>8. QED
    BY <2>6, <2>7
<1>3. CASE ~(pc[p] = "claimed" /\ rbody[p] \notin Falsy)
  <2>1. recvd' = recvd
    BY <1>3 DEF Release
  <2>2. \A q \in Pullers : /\ Held(q)' \subseteq Held(q)
                           /\ \A i \in Held(q)' : Got(q, i)' = Got(q, i)
    BY <1>1, <2>1 DEF Held, Got
  <2>3. QED
    BY <1>1, <2>2, HeldShrink DEF TakenSet
<1>4. QED
  BY <1>2, <1>3

LEMMA NextHeld ==
  ASSUME DInv, [Next]_vars
  PROVE  HeldTaken' /\ HeldDistinct'
<1> USE DEF DInv
<1>1. ASSUME NEW p \in Pullers, AdvanceTail(p) PROVE HeldTaken' /\ HeldDistinct'
  BY <1>1, AdvanceHeld
<1>2. ASSUME NEW p \in Pullers, Release(p) PROVE HeldTaken' /\ HeldDistinct'
  BY <1>2, ReleaseHeld
<1>3. ASSUME NEW p \in Pullers, Crash(p) PROVE HeldTaken' /\ HeldDistinct'
  <2>1. /\ pc' = [pc EXCEPT ![p] = "idle"]
        /\ rbody' = rbody /\ recvd' = recvd /\ taken' = taken
    BY <1>3 DEF Crash, pusher
  <2>2. \A q \in Pullers : /\ Held(q)' \subseteq Held(q)
                           /\ \A i \in Held(q)' : Got(q, i)' = Got(q, i)
    BY <2>1 DEF Held, Got, RInv, IInv, TypeOK
  <2>3. QED
    BY <2>1, <2>2, HeldShrink DEF TakenSet
<1>4. ASSUME NEW p \in Pullers, Acquire(p) \/ ReadCheck(p) \/ ReadLen(p) \/ ReadBody(p)
      PROVE  HeldTaken' /\ HeldDistinct'
  <2>1. /\ pc' = [pc EXCEPT ![p] = pc'[p]] /\ pc[p] # "claimed" /\ pc'[p] # "claimed"
        /\ \A i \in 1 .. Len(recvd[p]) : Got(p, i)' = Got(p, i)
        /\ \A q \in Pullers \ {p} : rbody'[q] = rbody[q]
        /\ recvd' = recvd /\ taken' = taken
    BY <1>4, SMTT(30) DEF Acquire, ReadCheck, ReadLen, ReadBody, pusher, Got,
       RInv, IInv, TypeOK
  <2>2. \A q \in Pullers : /\ Held(q)' \subseteq Held(q)
                           /\ \A i \in Held(q)' : Got(q, i)' = Got(q, i)
    BY <2>1 DEF Held, Got, RInv, IInv, TypeOK
  <2>3. QED
    BY <2>1, <2>2, HeldShrink DEF TakenSet
<1>5. ASSUME NEW m \in Modes, Send(m) PROVE HeldTaken' /\ HeldDistinct'
  BY <1>5, HeldUnchanged DEF Send, pullers
<1>6. CASE PusherStep
  BY <1>6, HeldUnchanged
  DEF PusherStep, WriteCheck, WriteLen, WriteBody, WriteCommit, WriteCount,
      pullers
<1>7. CASE UNCHANGED vars
  BY <1>7, HeldUnchanged DEF vars, pullers
<1>8. QED
  BY <1>1, <1>2, <1>3, <1>4, <1>5, <1>6, <1>7 DEF Next, PullerStep

-----------------------------------------------------------------------------
LEMMA InitDInv == Init => DInv
<1> SUFFICES ASSUME Init PROVE DInv
  OBVIOUS
<1>1. RInv
  BY InitRInv
<1>2. NoLoss
  BY InitQueue DEF Init, NoLoss, Queue!QInit
<1>3. \A p \in Pullers : Held(p) = {}
  BY DEF Init, Held
<1>4. QED
  BY <1>1, <1>2, <1>3
  DEF Init, DInv, SendsFresh, WrittenInjective, ReadAhead, HeldTaken, HeldDistinct

LEMMA NextDInv == DInv /\ [Next]_vars => DInv'
<1> SUFFICES ASSUME DInv, [Next]_vars PROVE DInv'
  OBVIOUS
<1>1. RInv' /\ NoLoss'
  BY NextRInv, NextNoLoss DEF DInv
<1>2. QED
  BY <1>1, NextFresh, NextReadAhead, NextHeld DEF DInv

(* Exactly-once delivery, for every ring size, number of sends, Pullers,  *)
(* Puller deaths and set of payloads that deserialize to None or False:  *)
(* no message is returned by two recv calls, of one Puller or of two.     *)
(* It rests on the FileLock around _try_claim, the fresh counter value    *)
(* write_message stores in each committed slot, and the TAIL store moving *)
(* past exactly the slot the Puller copied.                                *)
THEOREM DeliveredOnce == Spec => []ExactlyOnce
<1>1. Spec => []DInv
  <2>1. Spec => Init /\ [][Next]_vars
    BY DEF Spec
  <2>2. QED
    BY <2>1, InitDInv, NextDInv, PTL
<1>2. DInv => ExactlyOnce
  <2> SUFFICES ASSUME DInv PROVE ExactlyOnce
    OBVIOUS
  <2>1. \A p \in Pullers : \A i \in 1 .. Len(recvd[p]) :
          i \in Held(p) /\ Got(p, i) = recvd[p][i].body
    BY DEF Held, Got
  <2>2. QED
    BY <2>1 DEF DInv, HeldDistinct, ExactlyOnce
<1>3. QED
  BY <1>1, <1>2, PTL

=============================================================================
