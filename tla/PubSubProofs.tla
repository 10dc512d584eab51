---------------------------- MODULE PubSubProofs ----------------------------
(***************************************************************************)
(* Proofs about PubSub for every ring size, number of sends and set of     *)
(* Subscribers.                                                            *)
(*                                                                         *)
(* The argument for OnlyNewMessages: the Publisher stores ever larger      *)
(* message identities, each larger than the number of HEAD commits when   *)
(* any Subscriber attached, so a slot stored after a Subscriber attached   *)
(* stays fresh for it.  Every slot from a Subscriber's cursor up to HEAD   *)
(* is fresh: it starts empty (the cursor is HEAD on attach), a commit      *)
(* adds the slot just stored, and a read removes the cursor's slot.  When  *)
(* the Publisher laps a Subscriber that is reading, HEAD comes back onto   *)
(* the cursor after storing every slot, so all of them are fresh.         *)
(***************************************************************************)
EXTENDS PubSub, ShmRingProofs, SequenceTheorems, TLAPS

\* The Publisher's counters: sends runs one ahead of the HEAD commits
\* while write_message is storing and committing.
SendsAhead ==
  /\ ppc \in {"len", "body", "commit"} => sends = written + 1
  /\ ppc \in {"idle", "count"} => sends = written

\* Between the payload store and the commit, slot[head] holds this send.
WrittenSlot == ppc = "commit" => slotBody[head] = sends

Attached(s) == sst[s] # "detached"

\* Slot k holds a message committed, or being stored, after s attached.
Fresh(s, k) == slotBody[k] > since[s]

\* How many slots from s's cursor on are known fresh: up to HEAD, or all
\* of them when the Publisher has lapped a Subscriber inside _read_slot.
Span(s) ==
  IF sst[s] \in {"len", "body"} /\ head = cursor[s] THEN NumSlots
  ELSE UsedSlots(head, cursor[s])

InSpan(s, k) == UsedSlots(k, cursor[s]) < Span(s)

\* What s knows: it attached after no more commits than there are now, and
\* every slot of its span is fresh.
SpanOK(s) ==
  /\ since[s] <= written
  /\ \A k \in Slots : InSpan(s, k) => Fresh(s, k)

SpanFresh == \A s \in Subs : Attached(s) => SpanOK(s)

\* A Subscriber that has not attached has returned nothing.
NothingBeforeAttach == \A s \in Subs : ~Attached(s) => recvd[s] = << >>

IInv ==
  /\ TypeOK /\ SendsAhead /\ WrittenSlot /\ SpanFresh /\ NothingBeforeAttach
  /\ OnlyNewMessages

-----------------------------------------------------------------------------
USE NumSlotsAssumption

(* A Subscriber inside _read_slot has at least its cursor's slot in its   *)
(* span.                                                                   *)
LEMMA SpanOfReader ==
  ASSUME TypeOK, NEW s \in Subs, sst[s] \in {"len", "body"}
  PROVE  /\ Span(s) \in 1 .. NumSlots
         /\ InSpan(s, cursor[s])
<1>1. Span(s) \in 1 .. NumSlots
  <2>1. CASE head = cursor[s]
    BY <2>1, NumSlotsAssumption DEF Span
  <2>2. CASE head # cursor[s]
    <3>1. UsedSlots(head, cursor[s]) > 0
          /\ UsedSlots(head, cursor[s]) \in 0 .. NumSlots - 1
      BY <2>2, UsedPositive, UsedRange DEF TypeOK
    <3>2. QED
      BY <2>2, <3>1 DEF Span
  <2>3. QED
    BY <2>1, <2>2
<1>2. UsedSlots(cursor[s], cursor[s]) = 0
  BY UsedRange DEF TypeOK
<1>3. QED
  BY <1>1, <1>2 DEF InSpan

(* A HEAD commit adds to a span no slot but the one just stored.         *)
LEMMA SpanAfterCommit ==
  ASSUME TypeOK, NEW s \in Subs, head' = NextSlot(head),
         sst' = sst, cursor' = cursor,
         NEW k \in Slots, InSpan(s, k)'
  PROVE  InSpan(s, k) \/ k = head
<1> DEFINE c == cursor[s]
<1>1. c \in Slots /\ head \in Slots
  BY DEF TypeOK
<1>2. UsedSlots(NextSlot(head), c) =
        IF NextSlot(head) = c THEN 0 ELSE UsedSlots(head, c) + 1
  BY <1>1, UsedHeadStep
<1>3. /\ UsedSlots(k, c) \in 0 .. NumSlots - 1
      /\ UsedSlots(head, c) \in 0 .. NumSlots - 1
  BY <1>1, UsedRange
<1>4. UsedSlots(k, c) = UsedSlots(head, c) => k = head
  BY <1>1, UsedInjective
<1>5. CASE sst[s] \in {"len", "body"} /\ head = c
  BY <1>3, <1>5 DEF InSpan, Span
<1>6. CASE ~(sst[s] \in {"len", "body"} /\ head = c)
  <2>1. Span(s) = UsedSlots(head, c)
    BY <1>6 DEF Span
  <2>2. CASE NextSlot(head) = c
    <3>1. UsedSlots(k, c) < NumSlots
      BY <1>3
    <3>2. Span(s)' = IF sst[s] \in {"len", "body"} THEN NumSlots ELSE 0
      BY <1>2, <2>2 DEF Span
    <3>3. UsedSlots(head, c) = NumSlots - 1
      <4>1. UsedSlots(head, NextSlot(head)) = NumSlots - 1
        BY <1>1, UsedCursorStep, UsedRange
      <4>2. QED
        BY <2>2, <4>1
    <3>4. UsedSlots(k, c) < UsedSlots(head, c) \/ k = head
      BY <1>3, <1>4, <3>3
    <3>5. QED
      BY <2>1, <3>2, <3>4 DEF InSpan
  <2>3. CASE NextSlot(head) # c
    <3>1. Span(s)' = UsedSlots(head, c) + 1
      <4>1. NextSlot(head) # c
        BY <2>3
      <4>2. QED
        BY <1>2, <4>1 DEF Span
    <3>2. UsedSlots(k, c) < UsedSlots(head, c) + 1
      BY <3>1 DEF InSpan
    <3>3. QED
      BY <1>3, <1>4, <2>1, <3>2 DEF InSpan
  <2>4. QED
    BY <2>2, <2>3
<1>7. QED
  BY <1>5, <1>6

(* A read moves the cursor off the front of the span.                     *)
LEMMA SpanAfterRead ==
  ASSUME TypeOK, NEW s \in Subs, sst[s] = "body", head' = head,
         cursor' = [cursor EXCEPT ![s] = NextSlot(cursor[s])],
         sst' = [sst EXCEPT ![s] = "idle"],
         NEW k \in Slots, InSpan(s, k)'
  PROVE  InSpan(s, k)
<1> DEFINE c == cursor[s]
<1>1. c \in Slots /\ head \in Slots /\ cursor'[s] = NextSlot(c) /\ sst'[s] = "idle"
  BY DEF TypeOK
<1>2. UsedSlots(k, c) \in 0 .. NumSlots - 1
  BY <1>1, UsedRange
<1>3. CASE head = c
  BY <1>2, <1>3 DEF InSpan, Span
<1>4. CASE head # c
  <2>1. Span(s) = UsedSlots(head, c) /\ Span(s)' = UsedSlots(head, NextSlot(c))
    BY <1>1, <1>4 DEF Span
  <2>2. UsedSlots(head, NextSlot(c)) = UsedSlots(head, c) - 1
    BY <1>1, <1>4, UsedCursorStep
  <2>3. UsedSlots(k, NextSlot(c)) =
          IF k = c THEN NumSlots - 1 ELSE UsedSlots(k, c) - 1
    BY <1>1, UsedCursorStep
  <2>4. UsedSlots(head, c) \in 0 .. NumSlots - 1
    BY <1>1, UsedRange
  <2>5. UsedSlots(k, NextSlot(c)) < UsedSlots(head, NextSlot(c))
    BY <1>1, <2>1 DEF InSpan
  <2>6. QED
    BY <1>2, <2>1, <2>2, <2>3, <2>4, <2>5 DEF InSpan
<1>5. QED
  BY <1>3, <1>4

-----------------------------------------------------------------------------
LEMMA InitIInv == Init => IInv
<1> SUFFICES ASSUME Init PROVE IInv
  OBVIOUS
<1>1. 0 \in Slots /\ 0 \in Data /\ ZeroSlots \in [Slots -> Data]
  BY MaxMsgsAssumption DEF Slots, Data, ZeroSlots
<1>2. TypeOK
  BY <1>1, MaxMsgsAssumption
  DEF Init, TypeOK, PublisherStates, SubscriberStates, Data
<1>3. QED
  BY <1>2 DEF Init, IInv, SendsAhead, WrittenSlot, SpanFresh, Attached,
     NothingBeforeAttach, OnlyNewMessages

(* A step of the Publisher that stores no payload and commits nothing.    *)
LEMMA PublisherQuiet ==
  ASSUME SpanFresh, NothingBeforeAttach, OnlyNewMessages,
         UNCHANGED <<head, slotBody, sst, cursor, since, recvd, written>>
  PROVE  (SpanFresh /\ NothingBeforeAttach /\ OnlyNewMessages)'
  BY DEF SpanFresh, SpanOK, InSpan, Span, Fresh, Attached, NothingBeforeAttach,
     OnlyNewMessages

(* What one Subscriber's step leaves alone for the others.                *)
LEMMA OthersKept ==
  ASSUME NEW s \in Subs, SpanFresh, NothingBeforeAttach, OnlyNewMessages,
         UNCHANGED <<head, slotBody, written>>,
         \A q \in Subs \ {s} : /\ sst'[q] = sst[q] /\ cursor'[q] = cursor[q]
                               /\ since'[q] = since[q] /\ recvd'[q] = recvd[q]
  PROVE  \A q \in Subs \ {s} :
           /\ Attached(q)' => SpanOK(q)'
           /\ ~Attached(q)' => recvd'[q] = << >>
           /\ \A i \in 1 .. Len(recvd'[q]) : recvd'[q][i].body > since'[q]
  BY DEF SpanFresh, SpanOK, InSpan, Span, Fresh, Attached, NothingBeforeAttach,
     OnlyNewMessages

LEMMA NextIInv == IInv /\ [Next]_vars => IInv'
<1> SUFFICES ASSUME IInv, [Next]_vars PROVE IInv'
  OBVIOUS
<1> USE MaxMsgsAssumption DEF IInv
<1>1. CASE Publish
  <2>1. TypeOK' /\ SendsAhead' /\ WrittenSlot'
    BY <1>1 DEF Publish, TypeOK, SendsAhead, WrittenSlot, PublisherStates
  <2>2. QED
    BY <1>1, <2>1, PublisherQuiet DEF Publish
<1>2. CASE WriteLen
  <2>1. TypeOK' /\ SendsAhead' /\ WrittenSlot'
    BY <1>2 DEF WriteLen, TypeOK, SendsAhead, WrittenSlot, PublisherStates, Data
  <2>2. QED
    BY <1>2, <2>1, PublisherQuiet DEF WriteLen
<1>3. CASE WriteCount
  <2>1. TypeOK' /\ SendsAhead' /\ WrittenSlot'
    BY <1>3 DEF WriteCount, TypeOK, SendsAhead, WrittenSlot, PublisherStates
  <2>2. QED
    BY <1>3, <2>1, PublisherQuiet DEF WriteCount
<1>4. CASE WriteBody
  <2>1. /\ ppc = "body" /\ ppc' = "commit" /\ sends = written + 1
        /\ slotBody' = [slotBody EXCEPT ![head] = sends]
        /\ UNCHANGED <<head, msgCount, slotLen, sends, sst, cursor, rlen,
                       since, recvd, written>>
    BY <1>4 DEF WriteBody, SendsAhead
  <2>2. TypeOK' /\ SendsAhead' /\ WrittenSlot'
    BY <2>1 DEF TypeOK, SendsAhead, WrittenSlot, PublisherStates, Data
  <2>3. SpanFresh'
    <3> SUFFICES ASSUME NEW s \in Subs, Attached(s)' PROVE SpanOK(s)'
      BY DEF SpanFresh
    <3>1. SpanOK(s)
      BY <2>1 DEF SpanFresh, Attached
    <3>2. \A k \in Slots : slotBody'[k] = slotBody[k] \/ slotBody'[k] = sends
      BY <2>1 DEF TypeOK
    <3>3. since[s] < sends /\ since[s] \in Nat
      BY <2>1, <3>1 DEF SpanOK, TypeOK
    <3>4. \A k \in Slots : Fresh(s, k) => Fresh(s, k)'
      BY <2>1, <3>2, <3>3 DEF Fresh
    <3>5. QED
      BY <2>1, <3>1, <3>4 DEF SpanOK, InSpan, Span
  <2>4. QED
    BY <2>1, <2>2, <2>3 DEF NothingBeforeAttach, OnlyNewMessages, Attached
<1>5. CASE WriteCommit
  <2>1. /\ ppc = "commit" /\ ppc' = "count" /\ sends = written + 1
        /\ head' = NextSlot(head) /\ written' = written + 1
        /\ slotBody[head] = sends
        /\ UNCHANGED <<msgCount, slotLen, slotBody, sends, sst, cursor, rlen,
                       since, recvd>>
    BY <1>5 DEF WriteCommit, SendsAhead, WrittenSlot
  <2>2. TypeOK' /\ SendsAhead' /\ WrittenSlot'
    BY <2>1, NextSlotType DEF TypeOK, SendsAhead, WrittenSlot, PublisherStates
  <2>3. SpanFresh'
    <3> SUFFICES ASSUME NEW s \in Subs, Attached(s)' PROVE SpanOK(s)'
      BY DEF SpanFresh
    <3>1. SpanOK(s) /\ since[s] \in Nat
      BY <2>1 DEF SpanFresh, Attached, TypeOK
    <3>2. since'[s] <= written'
      BY <2>1, <3>1 DEF SpanOK, TypeOK
    <3>3. ASSUME NEW k \in Slots, InSpan(s, k)' PROVE Fresh(s, k)'
      <4>1. InSpan(s, k) \/ k = head
        BY <2>1, <3>3, SpanAfterCommit DEF TypeOK
      <4>2. CASE InSpan(s, k)
        BY <2>1, <3>1, <4>2 DEF SpanOK, Fresh
      <4>3. CASE k = head
        <5>1. slotBody'[k] = written + 1 /\ since'[s] = since[s]
          BY <2>1, <4>3
        <5>2. since[s] <= written /\ written \in Nat /\ since[s] \in Nat
          BY <3>1 DEF SpanOK, TypeOK
        <5>3. QED
          BY <5>1, <5>2 DEF Fresh
      <4>4. QED
        BY <4>1, <4>2, <4>3
    <3>4. QED
      BY <3>2, <3>3 DEF SpanOK
  <2>4. QED
    BY <2>1, <2>2, <2>3 DEF NothingBeforeAttach, OnlyNewMessages, Attached
<1>6. ASSUME NEW s \in Subs, Attach(s) PROVE IInv'
  <2>1. /\ sst[s] = "detached" /\ sst' = [sst EXCEPT ![s] = "idle"]
        /\ cursor' = [cursor EXCEPT ![s] = head]
        /\ since' = [since EXCEPT ![s] = written]
        /\ UNCHANGED <<head, msgCount, slotLen, slotBody, ppc, sends, rlen,
                       recvd, written>>
    BY <1>6 DEF Attach
  <2>2. TypeOK'
    BY <2>1 DEF TypeOK, SubscriberStates, SendsAhead
  <2>3. Attached(s)' /\ SpanOK(s)'
    <3>1. UsedSlots(head, head) = 0
      BY UsedRange DEF TypeOK
    <3>2. \A k \in Slots : UsedSlots(k, head) \in 0 .. NumSlots - 1
      BY UsedRange DEF TypeOK
    <3>3. /\ sst'[s] = "idle" /\ cursor'[s] = head /\ since'[s] = written
          /\ written' = written /\ written \in Nat
      BY <2>1 DEF TypeOK
    <3>4. Span(s)' = 0
      BY <2>1, <3>1, <3>3 DEF Span
    <3>5. \A k \in Slots : ~InSpan(s, k)'
      BY <2>1, <3>2, <3>3, <3>4 DEF InSpan
    <3>6. QED
      BY <2>1, <3>3, <3>5 DEF Attached, SpanOK
  <2>4. recvd'[s] = << >> /\ recvd' = recvd
    BY <2>1 DEF NothingBeforeAttach, Attached
  <2>5. \A q \in Subs \ {s} :
           /\ Attached(q)' => SpanOK(q)'
           /\ ~Attached(q)' => recvd'[q] = << >>
           /\ \A i \in 1 .. Len(recvd'[q]) : recvd'[q][i].body > since'[q]
    <3>1. \A q \in Subs \ {s} : /\ sst'[q] = sst[q] /\ cursor'[q] = cursor[q]
                                /\ since'[q] = since[q] /\ recvd'[q] = recvd[q]
      BY <2>1 DEF TypeOK
    <3>2. QED
      BY <2>1, <3>1, OthersKept
  <2>6. QED
    BY <2>1, <2>2, <2>3, <2>4, <2>5
    DEF SendsAhead, WrittenSlot, SpanFresh, NothingBeforeAttach, OnlyNewMessages
<1>7. ASSUME NEW s \in Subs, Poll(s) \/ ReadLen(s) PROVE IInv'
  <2>1. /\ sst[s] \in {"idle", "len"}
        /\ sst' = [sst EXCEPT ![s] = IF sst[s] = "idle" THEN "len" ELSE "body"]
        /\ sst[s] = "idle" => cursor[s] # head
        /\ rlen' \in [Subs -> Data]
        /\ UNCHANGED <<head, msgCount, slotLen, slotBody, ppc, sends, cursor,
                       since, recvd, written>>
    BY <1>7 DEF Poll, ReadLen, TypeOK
  <2>2. TypeOK'
    BY <2>1 DEF TypeOK, SubscriberStates
  <2>3. Span(s)' = Span(s)
    BY <2>1 DEF Span, TypeOK
  <2>4. Attached(s)' => SpanOK(s)'
    BY <2>1, <2>3 DEF SpanFresh, Attached, SpanOK, InSpan, Fresh, TypeOK
  <2>5. \A q \in Subs \ {s} :
           /\ Attached(q)' => SpanOK(q)'
           /\ ~Attached(q)' => recvd'[q] = << >>
           /\ \A i \in 1 .. Len(recvd'[q]) : recvd'[q][i].body > since'[q]
    <3>1. \A q \in Subs \ {s} : /\ sst'[q] = sst[q] /\ cursor'[q] = cursor[q]
                                /\ since'[q] = since[q] /\ recvd'[q] = recvd[q]
      BY <2>1 DEF TypeOK
    <3>2. QED
      BY <2>1, <3>1, OthersKept
  <2>6. QED
    BY <2>1, <2>2, <2>4, <2>5
    DEF SendsAhead, WrittenSlot, SpanFresh, NothingBeforeAttach, OnlyNewMessages,
        Attached
<1>8. ASSUME NEW s \in Subs, ReadBody(s) PROVE IInv'
  <2> DEFINE c == cursor[s]
             got == [len |-> rlen[s], body |-> slotBody[c]]
  <2>1. /\ sst[s] = "body" /\ sst' = [sst EXCEPT ![s] = "idle"]
        /\ cursor' = [cursor EXCEPT ![s] = NextSlot(c)]
        /\ recvd' = [recvd EXCEPT ![s] = Append(recvd[s], got)]
        /\ UNCHANGED <<head, msgCount, slotLen, slotBody, ppc, sends, rlen,
                       since, written>>
    BY <1>8 DEF ReadBody
  <2>2. SpanOK(s) /\ InSpan(s, c)
    BY <2>1, SpanOfReader DEF SpanFresh, Attached
  <2>3. slotBody[c] > since[s]
    BY <2>2 DEF SpanOK, Fresh, TypeOK
  <2>4. /\ got \in Copy /\ recvd[s] \in Seq(Copy)
        /\ recvd'[s] = Append(recvd[s], got)
        /\ Len(recvd'[s]) = Len(recvd[s]) + 1
        /\ \A i \in 1 .. Len(recvd[s]) : recvd'[s][i] = recvd[s][i]
        /\ recvd'[s][Len(recvd[s]) + 1] = got
    <3>1. got \in Copy /\ recvd[s] \in Seq(Copy)
      BY DEF TypeOK, Copy
    <3>2. recvd'[s] = Append(recvd[s], got)
      BY <2>1 DEF TypeOK
    <3>3. QED
      BY <3>1, <3>2, AppendProperties
  <2>5. TypeOK'
    BY <2>1, <2>4, NextSlotType DEF TypeOK, SubscriberStates
  <2>6. \A i \in 1 .. Len(recvd'[s]) : recvd'[s][i].body > since'[s]
    BY <2>1, <2>3, <2>4 DEF OnlyNewMessages
  <2>7. SpanOK(s)'
    <3>1. ASSUME NEW k \in Slots, InSpan(s, k)' PROVE Fresh(s, k)'
      <4>1. InSpan(s, k)
        BY <2>1, <3>1, SpanAfterRead
      <4>2. QED
        BY <2>1, <2>2, <4>1 DEF SpanOK, Fresh
    <3>2. QED
      BY <2>1, <2>2, <3>1 DEF SpanOK
  <2>8. \A q \in Subs \ {s} :
           /\ Attached(q)' => SpanOK(q)'
           /\ ~Attached(q)' => recvd'[q] = << >>
           /\ \A i \in 1 .. Len(recvd'[q]) : recvd'[q][i].body > since'[q]
    <3>1. \A q \in Subs \ {s} : /\ sst'[q] = sst[q] /\ cursor'[q] = cursor[q]
                                /\ since'[q] = since[q] /\ recvd'[q] = recvd[q]
      BY <2>1 DEF TypeOK
    <3>2. QED
      BY <2>1, <3>1, OthersKept
  <2>9. QED
    BY <2>1, <2>5, <2>6, <2>7, <2>8
    DEF SendsAhead, WrittenSlot, SpanFresh, NothingBeforeAttach, OnlyNewMessages,
        Attached
<1>9. CASE UNCHANGED vars
  BY <1>9 DEF vars, TypeOK, SendsAhead, WrittenSlot, SpanFresh, SpanOK, InSpan,
     Span, Fresh, Attached, NothingBeforeAttach, OnlyNewMessages
<1>10. QED
  BY <1>1, <1>2, <1>3, <1>4, <1>5, <1>6, <1>7, <1>8, <1>9 DEF Next

LEMMA IInvHolds == Spec => []IInv
  BY InitIInv, NextIInv, PTL DEF Spec

(* Type correctness of the publish/subscribe pattern, for every ring size, *)
(* number of sends and set of Subscribers.                                 *)
THEOREM PubSubTypeCorrect == Spec => []TypeOK
  BY IInvHolds, PTL DEF IInv

(* A Subscriber skips the backlog, for every ring size, number of sends  *)
(* and set of Subscribers, however often the Publisher laps a slow one:  *)
(* every message Subscriber.recv returns was committed by write_message  *)
(* after Subscriber.__init__ loaded HEAD.                                 *)
THEOREM OnlyNewAfterAttach == Spec => []OnlyNewMessages
  BY IInvHolds, PTL DEF IInv

=============================================================================
