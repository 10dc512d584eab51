------------------------------ MODULE PushPull ------------------------------
(***************************************************************************)
(* The push/pull pattern (shm_comm/patterns/pipeline.py) over one ring     *)
(* segment: one Pusher writes with write_message(overwrite=False), any     *)
(* number of Pullers claim messages with read_message_shared_tail while    *)
(* holding the FileLock of the segment (shm_comm/sync.py).                 *)
(*                                                                         *)
(* Each statement of the code that touches shared memory is one step, so   *)
(* that every interleaving of the Pusher and the Pullers is explored:      *)
(* the Pusher's full test, its length-prefix store, its payload copy, the  *)
(* HEAD commit and the MSG_COUNT increment; a Puller's lock acquisition,   *)
(* its HEAD/TAIL loads, the length load, the payload copy, the TAIL store  *)
(* and the release.  A Puller process may die at any point; the OS then   *)
(* releases its flock.                                                     *)
(***************************************************************************)
EXTENDS ShmRing, Sequences, Functions

CONSTANTS
  Pullers,     \* the Puller processes
  NoHolder,    \* lock value when no Puller holds the flock
  MaxCrashes,  \* bound on Puller process deaths in a run
  Falsy        \* messages whose payload deserializes to None or False

ASSUME PullersAssumption == NoHolder \notin Pullers
ASSUME MaxCrashesAssumption == MaxCrashes \in Nat
ASSUME FalsyAssumption == Falsy \subseteq MsgIds

VARIABLES
  head, tail, msgCount, dropCount,  \* header cells HEAD, TAIL, MSG_COUNT, DROP_COUNT
  slotLen, slotBody,                \* the length prefix and payload of every slot
  ppc,         \* where the Pusher is in write_message
  pmode,       \* how the current send treats a full ring
  sends,       \* number of send calls so far (= identity of the current one)
  pc,          \* where each Puller is in _try_claim
  rtail,       \* the TAIL value each Puller loaded (local `tail`)
  rlen, rbody, \* what each Puller has copied out of the slot it claims
  lock,        \* the Puller holding the flock of the lock file, or NoHolder
  recvd,       \* messages each Puller's recv has returned (history)
  crashes,     \* Puller deaths so far
  written,     \* messages whose HEAD commit happened, in order (history)
  taken        \* messages whose TAIL advance happened, in order (history)

header == <<head, tail, msgCount, dropCount, slotLen, slotBody>>
pusher == <<ppc, pmode, sends>>
pullers == <<pc, rtail, rlen, rbody, lock, recvd, crashes>>
vars == <<header, pusher, pullers, written, taken>>

(* The three ways a Pusher.send treats a full ring: block=False drops,    *)
(* block=True with timeout=None waits, block=True with a timeout may give *)
(* up with SHMBufferFullError.                                            *)
Modes == {"drop", "wait", "timed"}

PusherStates == {"idle", "check", "len", "body", "commit", "count"}
PullerStates == {"idle", "check", "len", "body", "advance", "empty", "claimed"}

\* A message as a Puller returns it: the length prefix and the payload it copied.
Copy == [len : Data, body : Data]

-----------------------------------------------------------------------------
Init ==
  /\ head = 0 /\ tail = 0 /\ msgCount = 0 /\ dropCount = 0
  /\ slotLen = ZeroSlots /\ slotBody = ZeroSlots
  /\ ppc = "idle" /\ pmode = "drop" /\ sends = 0
  /\ pc = [p \in Pullers |-> "idle"]
  /\ rtail = [p \in Pullers |-> 0]
  /\ rlen = [p \in Pullers |-> 0] /\ rbody = [p \in Pullers |-> 0]
  /\ lock = NoHolder
  /\ recvd = [p \in Pullers |-> << >>]
  /\ crashes = 0
  /\ written = << >> /\ taken = << >>

-----------------------------------------------------------------------------
(* Pusher.send / send_bytes calls write_message(block, timeout).          *)
Send(m) ==
  /\ ppc = "idle"
  /\ sends < MaxMsgs
  /\ ppc' = "check"
  /\ pmode' = m
  /\ sends' = sends + 1
  /\ UNCHANGED <<header, pullers, written, taken>>

(* Fault injection: the full test left out, as if the Pusher passed      *)
(* overwrite=True to write_message.                                        *)
WriteCheckNoFullTest ==
  /\ ppc = "check"
  /\ ppc' = "len"
  /\ UNCHANGED <<head, tail, msgCount, dropCount, slotLen, slotBody, pmode, sends,
                 pullers, written, taken>>

(* Fault injection: the drop counted in MSG_COUNT instead of DROP_COUNT  *)
(* (adjacent header indices).                                             *)
WriteCheckCountsDrop ==
  /\ ppc = "check"
  /\ \/ /\ ~IsFull(head, tail)
        /\ ppc' = "len"
        /\ UNCHANGED msgCount
     \/ /\ IsFull(head, tail) /\ pmode = "drop"
        /\ msgCount' = msgCount + 1
        /\ ppc' = "idle"
     \/ /\ IsFull(head, tail) /\ pmode = "timed"
        /\ ppc' = "idle"
        /\ UNCHANGED msgCount
  /\ UNCHANGED <<head, tail, dropCount, slotLen, slotBody, pmode, sends,
                 pullers, written, taken>>

(* The full test of the non-overwrite loop: load HEAD and TAIL, break if  *)
(* next_head != tail; otherwise count a drop and return False when not    *)
(* blocking, or raise SHMBufferFullError once the deadline has passed.    *)
(* A blocked Pusher that has not timed out just spins.                     *)
WriteCheck ==
  /\ ppc = "check"
  /\ \/ /\ ~IsFull(head, tail)
        /\ ppc' = "len"
        /\ UNCHANGED dropCount
     \/ /\ IsFull(head, tail) /\ pmode = "drop"
        /\ dropCount' = dropCount + 1
        /\ ppc' = "idle"
     \/ /\ IsFull(head, tail) /\ pmode = "timed"
        /\ ppc' = "idle"
        /\ UNCHANGED dropCount
  /\ UNCHANGED <<head, tail, msgCount, slotLen, slotBody, pmode, sends,
                 pullers, written, taken>>

(* _write_slot, first statement: the length prefix of slot[head].         *)
WriteLen ==
  /\ ppc = "len"
  /\ slotLen' = [slotLen EXCEPT ![head] = sends]
  /\ ppc' = "body"
  /\ UNCHANGED <<head, tail, msgCount, dropCount, slotBody, pmode, sends,
                 pullers, written, taken>>

(* Fault injection: the payload copied into slot[next_head].             *)
WriteBodyNextSlot ==
  /\ ppc = "body"
  /\ slotBody' = [slotBody EXCEPT ![NextSlot(head)] = sends]
  /\ ppc' = "commit"
  /\ UNCHANGED <<head, tail, msgCount, dropCount, slotLen, pmode, sends,
                 pullers, written, taken>>

(* _write_slot, second statement: the payload bytes of slot[head].        *)
WriteBody ==
  /\ ppc = "body"
  /\ slotBody' = [slotBody EXCEPT ![head] = sends]
  /\ ppc' = "commit"
  /\ UNCHANGED <<head, tail, msgCount, dropCount, slotLen, pmode, sends,
                 pullers, written, taken>>

(* The commit: hdr[IDX_HEAD] = next_head.                                  *)
WriteCommit ==
  /\ ppc = "commit"
  /\ head' = NextSlot(head)
  /\ written' = Append(written, sends)
  /\ ppc' = "count"
  /\ UNCHANGED <<tail, msgCount, dropCount, slotLen, slotBody, pmode, sends,
                 pullers, taken>>

(* hdr[IDX_MSG_COUNT] += 1, then return True.                              *)
WriteCount ==
  /\ ppc = "count"
  /\ msgCount' = msgCount + 1
  /\ ppc' = "idle"
  /\ UNCHANGED <<head, tail, dropCount, slotLen, slotBody, pmode, sends,
                 pullers, written, taken>>

-----------------------------------------------------------------------------
(* Fault injection: a lock that does not exclude (fcntl record locks     *)
(* between two threads of one process, spec 4.3).                          *)
AcquireNoExclusion(p) ==
  /\ pc[p] = "idle"
  /\ lock' = p
  /\ pc' = [pc EXCEPT ![p] = "check"]
  /\ UNCHANGED <<header, pusher, rtail, rlen, rbody, recvd, crashes, written, taken>>

(* Puller._try_claim enters `with self._lock`: FileLock.acquire succeeds  *)
(* with flock(LOCK_EX | LOCK_NB) only when no other descriptor holds it;  *)
(* otherwise it sleeps and retries (the Puller's lock has timeout None).   *)
Acquire(p) ==
  /\ pc[p] = "idle"
  /\ lock = NoHolder
  /\ lock' = p
  /\ pc' = [pc EXCEPT ![p] = "check"]
  /\ UNCHANGED <<header, pusher, rtail, rlen, rbody, recvd, crashes, written, taken>>

(* Fault injection: the empty test left out.                              *)
ReadCheckNoEmptyTest(p) ==
  /\ pc[p] = "check"
  /\ rtail' = [rtail EXCEPT ![p] = tail]
  /\ pc' = [pc EXCEPT ![p] = "len"]
  /\ UNCHANGED <<header, pusher, rlen, rbody, lock, recvd, crashes,
                 written, taken>>

(* Fault injection: an off-by-one empty test, (tail + 1) % n == head.     *)
ReadCheckOffByOne(p) ==
  /\ pc[p] = "check"
  /\ rtail' = [rtail EXCEPT ![p] = tail]
  /\ pc' = [pc EXCEPT ![p] = IF NextSlot(tail) = head THEN "empty" ELSE "len"]
  /\ UNCHANGED <<header, pusher, rlen, rbody, lock, recvd, crashes,
                 written, taken>>

(* read_message_shared_tail loads HEAD and TAIL; tail == head: empty.      *)
ReadCheck(p) ==
  /\ pc[p] = "check"
  /\ rtail' = [rtail EXCEPT ![p] = tail]
  /\ pc' = [pc EXCEPT ![p] = IF tail = head THEN "empty" ELSE "len"]
  /\ UNCHANGED <<header, pusher, rlen, rbody, lock, recvd, crashes,
                 written, taken>>

(* _read_slot, first statement: unpack the length prefix of slot[tail].   *)
ReadLen(p) ==
  /\ pc[p] = "len"
  /\ rlen' = [rlen EXCEPT ![p] = slotLen[rtail[p]]]
  /\ pc' = [pc EXCEPT ![p] = "body"]
  /\ UNCHANGED <<header, pusher, rtail, rbody, lock, recvd, crashes, written, taken>>

(* _read_slot, second statement: copy the payload bytes out.               *)
ReadBody(p) ==
  /\ pc[p] = "body"
  /\ rbody' = [rbody EXCEPT ![p] = slotBody[rtail[p]]]
  /\ pc' = [pc EXCEPT ![p] = "advance"]
  /\ UNCHANGED <<header, pusher, rtail, rlen, lock, recvd, crashes, written, taken>>

(* hdr[IDX_TAIL] = (tail + 1) % num_slots: the claim.                      *)
AdvanceTail(p) ==
  /\ pc[p] = "advance"
  /\ tail' = NextSlot(rtail[p])
  /\ taken' = Append(taken, slotBody[rtail[p]])
  /\ pc' = [pc EXCEPT ![p] = "claimed"]
  /\ UNCHANGED <<head, msgCount, dropCount, slotLen, slotBody, pusher,
                 rtail, rlen, rbody, lock, recvd, crashes, written>>

(* Fault injection: the empty path returns without releasing the lock.   *)
ReleaseOnlyClaimed(p) ==
  /\ pc[p] = "claimed"
  /\ lock' = NoHolder
  /\ recvd' = [recvd EXCEPT ![p] = Append(@, [len |-> rlen[p], body |-> rbody[p]])]
  /\ pc' = [pc EXCEPT ![p] = "idle"]
  /\ UNCHANGED <<header, pusher, rtail, rlen, rbody, crashes, written, taken>>

(* Leaving the with block: FileLock.release unlocks and closes the        *)
(* descriptor; _try_claim then returns the payload, or None when empty.    *)
(* Puller.recv's poll_until returns the first result that is neither None *)
(* nor False, and otherwise calls _try_claim again: a claimed message     *)
(* that deserializes to None or False is not returned.                    *)
Release(p) ==
  /\ pc[p] \in {"empty", "claimed"}
  /\ lock' = NoHolder
  /\ recvd' = IF pc[p] = "claimed" /\ rbody[p] \notin Falsy
                THEN [recvd EXCEPT ![p] = Append(@, [len |-> rlen[p], body |-> rbody[p]])]
                ELSE recvd
  /\ pc' = [pc EXCEPT ![p] = "idle"]
  /\ UNCHANGED <<header, pusher, rtail, rlen, rbody, crashes, written, taken>>

(* Fault injection: a lock that outlives its holder (a semaphore in      *)
(* shared memory instead of a flock).                                      *)
CrashKeepsLock(p) ==
  /\ pc[p] # "idle"
  /\ crashes < MaxCrashes
  /\ crashes' = crashes + 1
  /\ pc' = [pc EXCEPT ![p] = "idle"]
  /\ UNCHANGED <<header, pusher, rtail, rlen, rbody, lock, recvd, written, taken>>

(* The Puller's process dies inside _try_claim and a new Puller takes its *)
(* place; the OS releases the flock of the dead process's descriptor.     *)
Crash(p) ==
  /\ pc[p] # "idle"
  /\ crashes < MaxCrashes
  /\ crashes' = crashes + 1
  /\ lock' = IF lock = p THEN NoHolder ELSE lock
  /\ pc' = [pc EXCEPT ![p] = "idle"]
  /\ UNCHANGED <<header, pusher, rtail, rlen, rbody, recvd, written, taken>>

-----------------------------------------------------------------------------
PusherStep ==
  \/ WriteCheck \/ WriteLen \/ WriteBody \/ WriteCommit \/ WriteCount

PullerStep(p) ==
  \/ Acquire(p) \/ ReadCheck(p) \/ ReadLen(p) \/ ReadBody(p)
  \/ AdvanceTail(p) \/ Release(p)

Next ==
  \/ \E m \in Modes : Send(m)
  \/ PusherStep
  \/ \E p \in Pullers : PullerStep(p) \/ Crash(p)

(* A Pusher inside write_message runs to its end (the code has no await   *)
(* outside the full-ring spin); a Puller's recv(timeout=None) keeps       *)
(* polling _try_claim forever.  No fairness for Send: the application may *)
(* stop sending, nor for Crash.                                            *)
Fairness ==
  /\ WF_vars(PusherStep)
  /\ \A p \in Pullers : WF_vars(PullerStep(p))

Spec == Init /\ [][Next]_vars /\ Fairness


-----------------------------------------------------------------------------
(***************************************************************************)
(* Properties.                                                             *)
(***************************************************************************)
TypeOK ==
  /\ head \in Slots /\ tail \in Slots
  /\ msgCount \in Nat /\ dropCount \in Nat
  /\ slotLen \in [Slots -> Data] /\ slotBody \in [Slots -> Data]
  /\ ppc \in PusherStates /\ pmode \in Modes /\ sends \in 0 .. MaxMsgs
  /\ pc \in [Pullers -> PullerStates]
  /\ rtail \in [Pullers -> Slots]
  /\ rlen \in [Pullers -> Data] /\ rbody \in [Pullers -> Data]
  /\ lock \in Pullers \cup {NoHolder}
  /\ recvd \in [Pullers -> Seq(Copy)]
  /\ crashes \in 0 .. MaxCrashes
  /\ written \in Seq(MsgIds) /\ taken \in Seq(Data)

\* The committed, unclaimed messages: slots tail, tail+1, ..., head-1.
Pending ==
  [i \in 1 .. UsedSlots(head, tail) |-> slotBody[(tail + i - 1) % NumSlots]]

(* No loss, no reordering (spec 8: "the union of their receives equals the *)
(* prefix of sent messages"): the messages committed by write_message are *)
(* exactly those claimed by read_message_shared_tail followed by those     *)
(* still pending in the ring, in commit order.  Breaks if the Pusher       *)
(* overwrites a pending slot or a claim skips or repeats one.              *)
NoLoss == written = taken \o Pending

(* Exactly-once delivery (pipeline.py docstring, test_two_pullers_share_   *)
(* work): no message is returned by two recv calls, of one Puller or of    *)
(* two.                                                                    *)
ExactlyOnce ==
  \A p, q \in Pullers :
    \A i \in 1 .. Len(recvd[p]), j \in 1 .. Len(recvd[q]) :
      <<p, i>> # <<q, j>> => recvd[p][i].body # recvd[q][j].body

(* A Puller never returns a torn slot: the length prefix and the payload  *)
(* it copied belong to the same write_message (spec 5: "a consumer never  *)
(* observes a partial slot").                                              *)
NoTornRead ==
  \A p \in Pullers : \A i \in 1 .. Len(recvd[p]) :
    recvd[p][i].len = recvd[p][i].body

(* Single-writer slot ownership (spec 5): while the Pusher stores into    *)
(* slot[head], no Puller is loading the same slot.                         *)
NoSlotRace ==
  \A p \in Pullers :
    (ppc \in {"len", "body"} /\ pc[p] \in {"len", "body"}) => head # rtail[p]

(* A TAIL store only ever claims a committed slot and moves by one: the   *)
(* shared tail never overtakes HEAD, however the Pullers interleave.       *)
TailClaimsCommitted ==
  [][tail' # tail => UsedSlots(head, tail) > 0 /\ tail' = NextSlot(tail)]_vars

(* Spec 8: "for every committed write, MSG_COUNT increments by exactly   *)
(* 1", and no drop or timeout counts: MSG_COUNT equals the HEAD commits,  *)
(* lagging by one only while write_message is between its HEAD store and  *)
(* its MSG_COUNT increment (the window spec 9 warns of).                  *)
CountsCommits ==
  msgCount = Len(written) - (IF ppc = "count" THEN 1 ELSE 0)

(* Spec 3: the Pusher's overwrite=False path gives "at-least-once        *)
(* delivery to some consumer, never silent loss": every message a Puller  *)
(* claims with its TAIL store is returned by that Puller's recv, or the   *)
(* Puller is still between the claim and the return.                      *)
ClaimsReturned ==
  \A i \in 1 .. Len(taken) :
    \E p \in Pullers :
      \/ \E j \in 1 .. Len(recvd[p]) : recvd[p][j].body = taken[i]
      \/ pc[p] = "claimed" /\ rbody[p] = taken[i]

(* Every committed message is eventually claimed by some Puller, as long  *)
(* as Pullers keep calling recv (Puller deaths are bounded).               *)
EveryCommitClaimed ==
  \A m \in MsgIds : (m \in Range(written)) ~> (m \in Range(taken))

(* A Pusher.send blocked on a full ring (block=True, timeout=None)         *)
(* eventually gets its slot.                                               *)
BlockedSendProceeds ==
  (ppc = "check" /\ pmode = "wait") ~> (ppc = "len")

-----------------------------------------------------------------------------
(***************************************************************************)
(* The ring as the bounded FIFO queue it promises to be (MsgQueue): the   *)
(* queue is the committed, unclaimed slots (Pending) and the delivered   *)
(* sequence is the TAIL claims in order.  A HEAD commit is a Put, a TAIL  *)
(* store a Get, and every other step leaves both unchanged.  No claim is  *)
(* Ignored: poll_until's filter acts after the claim (see ClaimsReturned). *)
(***************************************************************************)
Queue == INSTANCE MsgQueue
           WITH Values <- MsgIds, Capacity <- NumSlots - 1, Ignored <- {},
                queue <- Pending, delivered <- taken

(* write_message and read_message_shared_tail, with every interleaving of *)
(* their statements and Puller deaths, implement a FIFO queue of capacity *)
(* num_slots - 1 in which every queued message is eventually claimed.     *)
ImplementsQueue == Queue!Spec

=============================================================================
