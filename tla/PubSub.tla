------------------------------ MODULE PubSub ------------------------------
(***************************************************************************)
(* Publish/subscribe (shm_comm/patterns/pubsub.py): one Publisher writes   *)
(* with write_message(overwrite=True), which never consults TAIL, and any  *)
(* number of Subscribers read with read_message_spsc through private       *)
(* cursors that start at the HEAD they load on attach.                     *)
(*                                                                         *)
(* As in PushPull, a slot is kept as its length prefix and its payload,    *)
(* each abstracted to the identity of the message that last stored it, and *)
(* the statements of write_message and read_message_spsc that touch shared *)
(* memory are separate steps.  The TAIL cell is left out: in overwrite     *)
(* mode nobody reads or writes it.                                         *)
(***************************************************************************)
EXTENDS ShmRing, Sequences

CONSTANT Subs   \* the Subscriber processes

VARIABLES
  head, msgCount,      \* header cells HEAD and MSG_COUNT
  slotLen, slotBody,   \* the length prefix and payload of every slot
  ppc,                 \* where the Publisher is in write_message
  sends,               \* send calls so far (= identity of the current one)
  sst,                 \* where each Subscriber is
  cursor,              \* each Subscriber's _tail
  rlen,                \* the length prefix each Subscriber has unpacked
  since,               \* number of HEAD commits when each Subscriber attached
  recvd,               \* messages each Subscriber's recv returned (history)
  written              \* number of HEAD commits so far (history)

vars == <<head, msgCount, slotLen, slotBody, ppc, sends, sst, cursor, rlen,
          since, recvd, written>>

PublisherStates == {"idle", "len", "body", "commit", "count"}
SubscriberStates == {"detached", "idle", "len", "body"}

\* A message as recv returns it: the length prefix and the payload it copied.
Copy == [len : Data, body : Data]

-----------------------------------------------------------------------------
Init ==
  /\ head = 0 /\ msgCount = 0
  /\ slotLen = ZeroSlots /\ slotBody = ZeroSlots
  /\ ppc = "idle" /\ sends = 0
  /\ sst = [s \in Subs |-> "detached"]
  /\ cursor = [s \in Subs |-> 0]
  /\ rlen = [s \in Subs |-> 0]
  /\ since = [s \in Subs |-> 0]
  /\ recvd = [s \in Subs |-> << >>]
  /\ written = 0

(* Publisher.send / send_bytes: write_message(overwrite=True) skips the  *)
(* full test and goes straight to the slot copy.                          *)
Publish ==
  /\ ppc = "idle"
  /\ sends < MaxMsgs
  /\ sends' = sends + 1
  /\ ppc' = "len"
  /\ UNCHANGED <<head, msgCount, slotLen, slotBody, sst, cursor, rlen,
                 since, recvd, written>>

(* _write_slot, first statement: the length prefix of slot[head].         *)
WriteLen ==
  /\ ppc = "len"
  /\ slotLen' = [slotLen EXCEPT ![head] = sends]
  /\ ppc' = "body"
  /\ UNCHANGED <<head, msgCount, slotBody, sends, sst, cursor, rlen,
                 since, recvd, written>>

(* _write_slot, second statement: the payload bytes of slot[head].        *)
WriteBody ==
  /\ ppc = "body"
  /\ slotBody' = [slotBody EXCEPT ![head] = sends]
  /\ ppc' = "commit"
  /\ UNCHANGED <<head, msgCount, slotLen, sends, sst, cursor, rlen,
                 since, recvd, written>>

(* The commit: hdr[IDX_HEAD] = next_head.                                  *)
WriteCommit ==
  /\ ppc = "commit"
  /\ head' = NextSlot(head)
  /\ written' = written + 1
  /\ ppc' = "count"
  /\ UNCHANGED <<msgCount, slotLen, slotBody, sends, sst, cursor, rlen,
                 since, recvd>>

(* hdr[IDX_MSG_COUNT] += 1; send returns True.                             *)
WriteCount ==
  /\ ppc = "count"
  /\ msgCount' = msgCount + 1
  /\ ppc' = "idle"
  /\ UNCHANGED <<head, slotLen, slotBody, sends, sst, cursor, rlen,
                 since, recvd, written>>

-----------------------------------------------------------------------------
(* Fault injection: a Subscriber that starts from slot 0, "the earliest   *)
(* available", instead of the current HEAD.                                *)
AttachAtZero(s) ==
  /\ sst[s] = "detached"
  /\ cursor' = [cursor EXCEPT ![s] = 0]
  /\ since' = [since EXCEPT ![s] = written]
  /\ sst' = [sst EXCEPT ![s] = "idle"]
  /\ UNCHANGED <<head, msgCount, slotLen, slotBody, ppc, sends, rlen,
                 recvd, written>>

(* Subscriber.__init__: attach_segment, then self._tail = hdr[IDX_HEAD].  *)
Attach(s) ==
  /\ sst[s] = "detached"
  /\ cursor' = [cursor EXCEPT ![s] = head]
  /\ since' = [since EXCEPT ![s] = written]
  /\ sst' = [sst EXCEPT ![s] = "idle"]
  /\ UNCHANGED <<head, msgCount, slotLen, slotBody, ppc, sends, rlen,
                 recvd, written>>

(* _try_recv calls read_message_spsc: load HEAD; local_tail == head means *)
(* empty (None, and poll_until polls again, a stutter); otherwise go on   *)
(* to read slot[local_tail].                                              *)
Poll(s) ==
  /\ sst[s] = "idle"
  /\ cursor[s] # head
  /\ sst' = [sst EXCEPT ![s] = "len"]
  /\ UNCHANGED <<head, msgCount, slotLen, slotBody, ppc, sends, cursor, rlen,
                 since, recvd, written>>

(* _read_slot, first statement: unpack the length prefix.                 *)
ReadLen(s) ==
  /\ sst[s] = "len"
  /\ rlen' = [rlen EXCEPT ![s] = slotLen[cursor[s]]]
  /\ sst' = [sst EXCEPT ![s] = "body"]
  /\ UNCHANGED <<head, msgCount, slotLen, slotBody, ppc, sends, cursor,
                 since, recvd, written>>

(* _read_slot, second statement: copy the payload out; read_message_spsc  *)
(* returns it with (local_tail + 1) % num_slots, which _try_recv stores   *)
(* as self._tail before recv returns the message.                        *)
ReadBody(s) ==
  /\ sst[s] = "body"
  /\ cursor' = [cursor EXCEPT ![s] = NextSlot(@)]
  /\ recvd' = [recvd EXCEPT ![s] =
                 Append(@, [len |-> rlen[s], body |-> slotBody[cursor[s]]])]
  /\ sst' = [sst EXCEPT ![s] = "idle"]
  /\ UNCHANGED <<head, msgCount, slotLen, slotBody, ppc, sends, rlen, since,
                 written>>

Next ==
  \/ Publish \/ WriteLen \/ WriteBody \/ WriteCommit \/ WriteCount
  \/ \E s \in Subs : Attach(s) \/ Poll(s) \/ ReadLen(s) \/ ReadBody(s)

Spec == Init /\ [][Next]_vars

-----------------------------------------------------------------------------
(***************************************************************************)
(* Properties.                                                             *)
(***************************************************************************)
TypeOK ==
  /\ head \in Slots /\ msgCount \in Nat
  /\ slotLen \in [Slots -> Data] /\ slotBody \in [Slots -> Data]
  /\ ppc \in PublisherStates /\ sends \in 0 .. MaxMsgs
  /\ sst \in [Subs -> SubscriberStates]
  /\ cursor \in [Subs -> Slots]
  /\ rlen \in [Subs -> Data]
  /\ since \in [Subs -> 0 .. MaxMsgs]
  /\ recvd \in [Subs -> Seq(Copy)]
  /\ written \in 0 .. MaxMsgs

(* A Subscriber skips the backlog (spec 8, scenario 2, and the comment    *)
(* at pubsub.py 193): every message its recv returns was committed after *)
(* it attached.                                                            *)
OnlyNewMessages ==
  \A s \in Subs : \A i \in 1 .. Len(recvd[s]) : recvd[s][i].body > since[s]

(* Spec 5: "A consumer never observes a partial slot": the length prefix  *)
(* and the payload a Subscriber returns belong to the same write.          *)
NoTornRead ==
  \A s \in Subs : \A i \in 1 .. Len(recvd[s]) :
    recvd[s][i].len = recvd[s][i].body

(* Spec 8, boundary behaviours: "writing 2*N messages leaves the ring     *)
(* with the last N - 1 messages; a subscriber attached before the burst   *)
(* with a private cursor initially at HEAD=0 observes exactly the final   *)
(* N - 1 messages": once the burst is committed, such a Subscriber has    *)
(* N - 1 unread messages between its cursor and HEAD.                     *)
BurstLeavesLastMessages ==
  \A s \in Subs :
    (/\ sst[s] = "idle" /\ since[s] = 0 /\ recvd[s] = << >>
     /\ written = 2 * NumSlots)
      => UsedSlots(head, cursor[s]) = NumSlots - 1

=============================================================================
