# TLA+ models of shm_comm

This directory holds TLA+ models of the shared-memory IPC library in
`src/shm_comm`, the TLC configurations that check them, and TLAPS proofs
about them.

## The system

`shm_comm` moves messages between processes on one host through named
shared-memory segments. Each segment holds one ring buffer.

- **Segment manager** (`core.py`). `create_segment` unlinks any stale
  segment of the same name. It then creates the region and `_init_header`
  writes the 128-byte header: MAGIC, VERSION, HEAD, TAIL, MSG_COUNT,
  DROP_COUNT, NUM_SLOTS and SLOT_SIZE. `attach_segment` polls until the
  segment exists, then validates MAGIC and VERSION.
- **Ring buffer** (`buffer.py`). `write_message` is the single producer. It
  runs a full test (`next_head != tail`), copies the slot (length prefix,
  then payload), commits `HEAD = next_head` and increments MSG_COUNT. With
  `overwrite=True` it skips the full test. Otherwise a full ring leads to one
  of three outcomes:
  - it counts a drop and returns False;
  - it spins;
  - it raises once a deadline passes.

  There are two consumers:
  - `read_message_spsc` reads through a private cursor and never writes
    TAIL;
  - `read_message_shared_tail` loads TAIL, copies the slot and stores
    `tail + 1`. The caller must hold the file lock.

  One slot is a sentinel, so a ring of N slots holds N−1 messages.
- **File lock** (`sync.py`). An exclusive `flock` on a per-channel lock file.
  It is taken on a fresh descriptor at every acquire and released, with the
  descriptor closed, on every exit from the `with` block. The OS drops it when
  the holding process dies.
- **Utilities** (`utils.py`). `poll_until` calls a try-function until it
  returns something other than None or False, or a timeout expires.
- **Endpoints** (`patterns/`). There are three pairs:
  - Publisher/Subscriber: overwrite writes, private cursors starting at HEAD;
  - Requester/Replier: two non-overwrite rings, private cursors;
  - Pusher/Puller: non-overwrite writes that block by default; Pullers claim
    through the shared TAIL under the file lock.

## Modules

| Module | Models | State and actions |
|---|---|---|
| `ShmRing` | ring geometry and cursor arithmetic (`core.py`, `buffer.py`) | `NumSlots`, `NextSlot` (`(i+1) % num_slots`), the full test `IsFull`, `UsedSlots` of `get_stats`, the zero bytes of a new segment |
| `PushPull` | Pusher, any number of Pullers and the FileLock (`pipeline.py`, `buffer.py`, `sync.py`) | see below |
| `MC_PushPull` | TLC instance | two Pullers as model values, symmetry set |
| `ShmRingProofs` | TLAPS lemmas on the cursor arithmetic of `ShmRing` | `NextSlot` and `UsedSlots` facts |
| `PushPullProofs` | TLAPS proofs about `PushPull` | inductive invariants `IInv`, `TornInv` |
| `PushPullDelivery` | TLAPS proof of exactly-once delivery in `PushPull` | inductive invariant `DInv` |
| `ReqRep` | Requester/Replier over two rings (`reqrep.py`, `buffer.py`) | see below |
| `MC_ReqRep` | TLC instance | none beyond `ReqRep` |
| `ReqRepProofs` | TLAPS proofs about `ReqRep`, and that each of its channels implements `MsgQueue` | inductive invariant `IInv`, refinement mapping `Unread` |
| `PubSub` | Publisher and any number of Subscribers (`pubsub.py`, `buffer.py`) | see below |
| `MC_PubSub` | TLC instance | two Subscribers as model values, symmetry set |
| `PubSubProofs` | TLAPS proofs about `PubSub` | inductive invariant `IInv` |
| `Segment` | segment life cycle: `create_segment`, `attach_segment`, `close_segment`, owner crash and restart (`core.py`, the endpoints' constructors and `close`) | see below |
| `MC_Segment` | TLC instance | two attaching endpoints as model values, symmetry set |
| `SegmentProofs` | TLAPS proofs about `Segment` | inductive invariant `IInv` |
| `MsgQueue` | what a non-overwriting ring and its reader's `poll_until` loop promise: a bounded FIFO queue whose reads drop the `Ignored` (None/False) messages | `queue`, `delivered`; `Put(m)`, `Get`, `Skip` |
| `QueueRefinement` | TLAPS proof that `PushPull` implements `MsgQueue` | refinement mapping, invariant `RInv` |

### PushPull

**Variables.**
- The header cells: `head`, `tail`, `msgCount`, `dropCount`.
- Every slot in two parts. `slotLen` is the 4-byte length prefix and
  `slotBody` is the payload. Both are abstracted to the identity of the
  message that last wrote them; 0 stands for the zero bytes of a new segment.
  Keeping the parts apart makes a torn copy (length of one message, bytes of
  another) visible.
- The Pusher's program counter `ppc` inside `write_message`, and its `pmode`
  (block=False → `"drop"`, block=True with no timeout → `"wait"`, with a
  timeout → `"timed"`).
- Each Puller's program counter `pc` inside `_try_claim`, the TAIL it loaded
  (`rtail`), and what it copied (`rlen`, `rbody`).
- The lock holder `lock`.
- Histories: `recvd` (what each `recv` returned), `written` (HEAD commits in
  order) and `taken` (TAIL claims in order).

**Actions.**
- `Send`: a `send` call.
- Pusher steps, one per statement that touches shared memory:
  - `WriteCheck`: the full test and its three outcomes;
  - `WriteLen` and `WriteBody`: the two stores of `_write_slot`;
  - `WriteCommit`: `HEAD = next_head`;
  - `WriteCount`: `MSG_COUNT += 1`.
- Puller steps:
  - `Acquire`: `flock` succeeds only when nobody holds it;
  - `ReadCheck`: load HEAD and TAIL, and test for empty;
  - `ReadLen` and `ReadBody`: the two loads of `_read_slot`;
  - `AdvanceTail`: the TAIL store;
  - `Release`: leave the `with` block and return the payload, or None.
- `Crash(p)`: a Puller process dies anywhere inside its claim. The OS releases
  its flock. Crashes are bounded by `MaxCrashes`.

`Release` also models `poll_until`'s test `result is not None and result is
not False` (`utils.py` 79). The constant `Falsy` is the set of messages whose
payload deserializes to None or False. A claimed message from `Falsy` is not
returned, and `recv` goes on polling. The passing runs set `Falsy = {}`.
The claim of a falsy message is still a `Get` of the queue (with `Ignored
= {}`): the message leaves the ring and is counted as taken, which is
exactly what the `pushpull_falsy` finding is about.

**Refinement.** `PushPull` ends with `Queue == INSTANCE MsgQueue WITH
queue <- Pending, delivered <- taken` and the capacity `NumSlots - 1`.
`Pending` is the sequence of payloads in slots `tail .. head-1`. Under this
mapping:
- a HEAD commit is `Put` of the message just copied;
- a TAIL store is `Get`;
- every other step is a stutter.

`ImplementsQueue == Queue!Spec` includes the queue's fairness, `WF(Get)`.

Sends are bounded by `MaxMsgs`.

### ReqRep

Each ring is one record `[head, tail, msgCount, dropCount, slots]`. The
Replier's private cursor `stail` (`_req_tail`) reads the request ring and the
Requester's `ctail` (`_rep_tail`) reads the reply ring. Both writers call
`write_message(overwrite=False, block=False)` and the model does too
(`WriteMessage`: `Committed` or `Dropped`).

Actions:
- `RequestSend`: `request()` sends. A False return is ignored, as in the code.
- `RequestRecv`: one poll of `_try_recv` finds a reply and advances
  `_rep_tail`. If the reply deserializes to None or False (`FalsyReplies`),
  `poll_until` (`utils.py` 79) does not return it and `request()` goes on
  polling; otherwise `request()` returns it.
- `RequestTimeout`: `poll_until`'s deadline passes.
- `ServeRecv`: `Replier.recv`, one `_try_recv` that advances `_req_tail`.
  A request in `FalsyRequests` is consumed and dropped by `poll_until`, and
  the Replier keeps polling; any other is returned.
  `ServeRecvUnfiltered`, the same read without that test, is the mutant of
  `ImplementsChannels`.
- `ServeReply`: `Replier.send`.

A whole `write_message` or `read_message_spsc` call is one step here.
Nobody stores TAIL, so HEAD never wraps onto a slot a reader still needs. The
finer split of a write is modelled in `PushPull`, where it matters.

Histories:
- `served` and `answers` record what the endpoints returned;
- `reqSent` and `repSent` record what was committed.

### PubSub

PubSub keeps the HEAD and MSG_COUNT cells and the two-part slots of
`PushPull`. TAIL is left out because overwrite mode never touches it.

Publisher steps, one per statement of `write_message(overwrite=True)`:
- `Publish`;
- `WriteLen` and `WriteBody`;
- `WriteCommit`;
- `WriteCount`.

Subscriber steps:
- `Attach`: `Subscriber.__init__` sets `_tail = HEAD`;
- `Poll`: the empty test of `read_message_spsc`;
- `ReadLen` and `ReadBody`: the two loads of `_read_slot`, then the
  `_tail` store.

`since[s]` records how many HEAD commits had happened when `s` attached.

### Segment

`Segment` models the life cycle of one named segment. Data is abstracted
away. A segment is an identity `1..MaxCreates`, and `named` is the one the OS
name refers to (0 when the name is unlinked). `magic[s]` says whether
`_init_header` has written MAGIC and VERSION into `s`, and `layout[s]` whether
it has also written the cursors, counters, NUM_SLOTS and SLOT_SIZE. A
segment stays mapped after its name is unlinked, as with POSIX `shm_unlink`.
`tracked[a]` says that attacher `a`'s process has registered the name with
CPython's resource tracker: `SharedMemory(create=False)` does so on the
Python versions `setup.py` allows (3.10 to 3.12), and nothing in the
package unregisters it.

Owner actions (Publisher, Pusher, Replier):
- `OwnerStart`: the constructor calls `create_segment`.
- `CleanStale`: it unlinks any segment under the name.
- `CreateShm`: `SharedMemory(create=True)` makes a new, zeroed region.
- `InitMagic`: `_init_header` stores MAGIC and VERSION (`core.py` 86-88).
- `InitLayout`: it stores the zeroed cursors and counters and the geometry
  (`core.py` 89-94); `create_segment` returns.
- `OwnerClose`: `close_segment(destroy=True)`.
- `OwnerCrash`: the process dies at any point; the segment stays under the
  name.

Attacher actions (Subscriber, Puller, Requester):
- `StartAttach`: construct again, also after an error.
- `AttachOpen`: one attach iteration that finds the name. It validates the
  header, and a bad MAGIC raises at once.
- `AttachTimeout`: the deadline passes with no segment under the name.
- `Recv`: it polls its own mapping and never looks at the name.
- `AttacherClose`: `close_segment(destroy=False)`.
- `AttacherExit`: the attaching process exits, at any point. If it has
  registered the name, its resource tracker unlinks the name, whatever
  segment it now refers to.

`orphaned` records endpoints whose `recv` returned normally from a segment
that is no longer under the name.

## Runs

| Run | Config | Checks |
|---|---|---|
| `pushpull_safety` | `MC_PushPull_safety.cfg`: 3 slots, 5 sends, 2 Pullers, 2 crashes, symmetry | `TypeOK`, `NoLoss`, `ExactlyOnce`, `NoTornRead`, `NoSlotRace`, `CountsCommits`, `TailClaimsCommitted`, no deadlock |
| `pushpull_live` | `MC_PushPull_live.cfg`: 3 slots, 4 sends, 2 Pullers, 1 crash | `EveryCommitClaimed`, `BlockedSendProceeds`, `ImplementsQueue` |
| `pushpull_falsy` (violation) | `MC_PushPull_falsy.cfg`: message 1 is falsy, no crashes | `ClaimsReturned` |
| `reqrep_safety` | `MC_ReqRep.cfg`: 4 slots, 5 requests, request 2 and reply 3 falsy | `TypeOK`, `LifetimeCapacity`, `ImplementsChannels` |
| `reqrep_stale` (violation) | `MC_ReqRep_stale.cfg` | `ReplyMatchesRequest` |
| `pubsub_safety` | `MC_PubSub.cfg`: 3 slots, 6 sends, 2 Subscribers, symmetry | `TypeOK`, `OnlyNewMessages` |
| `pubsub_torn` (violation) | `MC_PubSub_torn.cfg` | `NoTornRead` |
| `pubsub_burst` (violation) | `MC_PubSub_burst.cfg` | `BurstLeavesLastMessages` |
| `segment_race` (violation) | `MC_Segment_race.cfg` | `AttachWaitsForCreate` |
| `segment_orphan` (violation) | `MC_Segment_orphan.cfg` | `OrphanRecvFails` |
| `segment_exit` (violation) | `MC_Segment_exit.cfg` | `OwnerKeepsName` |
| `segment_header` (violation) | `MC_Segment_header.cfg` | `AttachSeesLayout` |

What the properties say:
- `NoLoss`: the committed messages are exactly the claimed ones followed by
  the pending ones, in commit order. This is spec §8, "the union of their
  receives equals the prefix of sent messages".
- `ExactlyOnce`: no message is returned by two `recv` calls.
- `NoTornRead`: every returned copy has the length and the payload of the
  same write.
- `NoSlotRace`: the Pusher never stores into a slot a Puller is copying.
- `TailClaimsCommitted`: a TAIL store claims a committed slot and moves by
  exactly one.
- `CountsCommits`: MSG_COUNT equals the number of HEAD commits. It lags by
  one only between the HEAD store and the increment, the window spec §9
  documents. A drop or a timeout never counts.
- `EveryCommitClaimed` and `BlockedSendProceeds`: progress for the Pullers
  and for a blocked Pusher.
- `ImplementsQueue`: the ring is the bounded FIFO queue `MsgQueue`, and
  every queued message is eventually taken.
- `AttachSeesLayout` (Segment): an attached endpoint maps a segment whose
  whole header, geometry included, `_init_header` has written (spec §4.2).
- `OwnerKeepsName` (Segment): from `_init_header` until the owner closes,
  the name refers to the segment it created; attachers never unlink
  (spec §3, §4.1).
- `LifetimeCapacity` (ReqRep): an action property. A write to a ring drops
  exactly when that ring has already accepted `num_slots - 1` messages over
  its whole life, whatever its reader has read: no ring accepts a
  `num_slots`-th message. The run passes, and that is the first finding.
- `ImplementsChannels` (ReqRep): each direction is the bounded FIFO queue
  `MsgQueue` of capacity `num_slots - 1`. The queue is `Unread(r, cursor)`,
  the slots from the reader's private cursor up to HEAD. The delivered
  history is `served` for requests and the replies in `answers`. A read
  of a None/False payload is the queue's `Skip`: it leaves the queue and
  is delivered to nobody. So each reader returns the truthy messages once
  each and in order, and a falsy one is lost at the reader, not reordered.
- `OnlyNewMessages` (PubSub): a Subscriber returns only messages committed
  after it attached. This holds even when it attaches while a write is in
  progress at HEAD.

**Bounds.** Three slots give a capacity of two. Five sends therefore fill the
ring, so that drops, waits and timeouts all happen, and HEAD and TAIL wrap
around more than once. Two Pullers are enough for every race on TAIL. Two
crashes cover a death before and after the TAIL store, with the lock held.

Every property has a mutant in `PROJECT.json`. A mutant is a plausible bug in
the modelled code: a cursor that does not wrap, a payload stored in the wrong
slot, a lock that does not exclude, an off-by-one or missing empty test, a
missing full test, a lock kept by a dead process, or a lock not released on
the empty path, or a drop counted in MSG_COUNT. For Segment, the mutants
have no mutants: all four Segment runs are violation runs. TLC finds each
mutant.

The Segment runs allow three creates, so an owner can crash, restart and
close while two attachers attach, read, close and exit around it. The falsy run
needs two sends and no crash, so that a message can go missing only in
`recv`.

The ReqRep safety run uses four slots, capacity three. With one falsy
request and one falsy reply, five `request()` calls exercise a skipped
request (the `request()` times out), a skipped reply and a full ring. The
PubSub runs use three slots. Six publishes make the Publisher
lap the ring twice, which the 2·N burst claim needs. `CHECK_DEADLOCK FALSE`
is set there because the bounded senders really stop, and the ReqRep rings
really jam (see the findings).

## Findings

The first finding is a property that holds, checked by `reqrep_safety` and
proved by `ReqRepLifetimeCapacity`; each other finding has a violation run
that TLC confirms:
- **ReqRep lifetime capacity: a code bug.** Both ReqRep rings are written
  without overwrite but read with private cursors. TAIL therefore stays 0,
  and a `send` drops exactly when N−1 messages were committed before it,
  however many the reader has taken: after 15 `request()` calls with the
  default 16 slots every `send` returns False and counts a drop.
  `request()` ignores the False and times out. The docstrings promise
  `SHMBufferFullError` instead.
- **`reqrep_stale`.** After a `request()` times out, the late reply stays in
  the ring, and the next `request()` returns it. This contradicts "Wait for
  the reply to the last request".
- **`pubsub_torn`.** A lapped Subscriber returns the length prefix of one
  message with the payload of another. This contradicts spec §5, "never
  observes a partial slot".
- **`pubsub_burst`.** After 2·N writes HEAD is back at 0, equal to the
  cursor of a Subscriber that attached at 0, so it sees nothing. Spec §8
  says it sees the last N−1 messages.
- **`segment_race`.** `create_segment` makes the zeroed region before
  `_init_header` writes MAGIC. An endpoint that attaches in that window, or
  while a crashed owner's uninitialised segment is still under the name,
  fails at once with "invalid magic". Spec §8 says an attach before create
  waits until create.
- **`segment_orphan`.** The docstring of `Publisher.close` says attached
  Subscribers "fail gracefully on their next recv". Closing only unlinks the
  name. The Subscriber keeps polling its mapping and gets None on every
  timeout, also after a new Publisher has created a fresh segment under the
  same name.
- **`segment_exit`.** Spec §3 says attaching endpoints "only detach, never
  unlink", and §4.1 that only the owner destroys. `SharedMemory(create=False)`
  (`core.py` 211) registers the name with the attaching process's resource
  tracker, and nothing unregisters it. When that process exits, even after
  an attach that failed validation, the tracker unlinks the owner's name,
  and later attachers find nothing.
- **`segment_header`.** `_validate_header` checks only MAGIC and VERSION,
  which `_init_header` stores before NUM_SLOTS and SLOT_SIZE. An attach in
  between returns a segment whose geometry reads 0, and the endpoint's first
  `write_message` computes `max_payload = -4` and raises ValueError.
- **`pushpull_falsy`: a code bug.** `Puller.recv` is
  `poll_until(self._try_claim)`, and `poll_until` treats None and False as
  "nothing yet". So a pushed None or False is claimed under the lock (TAIL
  advanced) and then dropped, and no other Puller can get it. Spec §3 says
  the Pusher's path gives "at-least-once delivery ..., never silent loss".

**Fairness.** Both fairness assumptions come from loops in the code:
- `WF` of the Pusher's steps: `write_message` runs to its end, and its only
  wait is the full-ring spin, which re-reads TAIL.
- `WF` of each Puller's steps: `recv(timeout=None)` is `poll_until`, which
  calls `_try_claim` forever.

There is no fairness for `Send`, because the application may stop sending,
nor for `Crash`. The live run sets `CHECK_DEADLOCK FALSE` because the safety
run already checks deadlock freedom.

## Proofs

Seven modules hold proofs. Each is proved for every value of the constants
allowed by the assumptions: `NumSlots ≥ 1` (`NumSlotsAssumption`),
`MaxMsgs ∈ Nat`, `MaxCrashes ∈ Nat`, `Falsy ⊆ MsgIds`,
`FalsyRequests, FalsyReplies ⊆ MsgIds`, `MaxCreates ∈ Nat` (a hypothesis of
the Segment theorem), any set of Pullers,
Subscribers or attachers, and any crash or restart bound. TLC checked
each strengthening below as an invariant of a run before it was proved.

**`ShmRingProofs`.** Lemmas on the cursor arithmetic, proved once and cited
by the other modules:
- `NextSlotValue`, `NextSlotType`, `NextSlotInjective`: `(i+1) % num_slots`
  stays a slot and is injective.
- `UsedValue`, `UsedRange`, `UsedPositive`: `UsedSlots(h, t)` lies in
  `0 .. NumSlots-1` and is 0 exactly when `h = t`.
- `UsedInjective`: two slots at the same distance from a cursor are equal.
- `UsedHeadStep`, `UsedCursorStep`: how the distance changes when HEAD, or
  a cursor, moves one slot.
- `SlotMod`: a slot index is its own remainder modulo `num_slots`.

**`PushPullProofs`.**
- `TypeCorrect`: `Spec => []TypeOK`.
- `SlotRaceFree`: `Spec => []NoSlotRace`.
- `MsgCountExact`: `Spec => []CountsCommits`. It is proved from `IInv` by a
  step lemma, `NextCounts`, which checks each action.
- `TailClaimsOnlyCommitted`: the action property `TailClaimsCommitted`.
  A TAIL store moves TAIL one slot and never past HEAD (`TailStep`).
- `NoTornClaim`: `Spec => []NoTornRead`.

The first two rest on the inductive invariant `IInv`. `IInv` is `TypeOK` plus four
conjuncts:
- `SendInProgress`: a started send has a message identity.
- `LockHeld`: only the lock holder is inside `_try_claim`.
- `ClaimValid`: a Puller past a non-empty check holds the current TAIL, and
  that TAIL is not HEAD.
- `RoomReserved`: a Pusher past the full test has `next_head != tail`.

`NoSlotRace` is not inductive by itself. The argument for it:
- Only the lock holder moves TAIL, so TAIL is fixed while a Puller copies.
- A TAIL store keeps the Pusher's room, because NextSlot is injective.
- A HEAD commit cannot reach a claimed slot, because of `RoomReserved`.

`NoTornRead` needs `TornInv`, which is `NoTornRead` plus two conjuncts:
- `SlotsAgree`: every slot has matching length prefix and payload, except
  slot[head] between the Pusher's two stores. There the prefix is `sends`.
- `CopyAgrees`: a Puller that has loaded the prefix holds the prefix of
  its slot, and after the payload load the two copies agree.
A Puller copies from its TAIL, which is not HEAD (`ClaimValid`), so the
one slot that can disagree is never copied.

**`QueueRefinement`.**
- `ImplementsQueueSafety`: `Spec => Queue!SafetySpec`. PushPull implements
  the safety part of the FIFO queue under the mapping of `PushPull!Queue`.
- `NoLossOrReorder`: `Spec => []NoLoss`. The commit history `written` is
  the claim history `taken` followed by the pending slots.

The invariant `RInv` is `IInv`
plus `WrittenSlot`: between `WriteBody` and the HEAD commit, slot[head] holds
the message being sent. The step argument:
- `WriteCommit` is `Put(sends)`. `RoomReserved` gives room, `PendingAppend`
  shows the pending slots gain slot[head] at the end, and `WrittenSlot` says
  that slot holds `sends`.
- `AdvanceTail` is `Get`. `ClaimValid` says the Puller's TAIL is the current
  TAIL and not HEAD, and `PendingTail` shows the front slot leaves.
- `WriteBody` is a stutter: `PendingWriteHead` shows a store into slot[head]
  leaves the pending slots alone.
- Every other step leaves HEAD, TAIL, the payloads and `taken` unchanged.

`NoLoss` follows the same steps (`CommitStep`, `ClaimStep`, `BodyStep`):
a commit appends the same message to `written` and to the pending slots,
and a claim moves the front pending message to the end of `taken`. The
lemmas on the pending sequence rest on the modular identities `UsedValue`
and `PendingIndex`, with a case split on wrap-around.

**`PushPullDelivery`.** `DeliveredOnce`: `Spec => []ExactlyOnce`. No
message is returned twice, by one Puller or by two, even when Pullers
die holding the lock. The invariant `DInv` is `RInv` and `NoLoss` plus:
- `SendsFresh` and `WrittenInjective`: each commit stores a counter value
  above every earlier one, so `written` has no repeats.
- `ReadAhead`: between `_read_slot` and the TAIL store a Puller's copy
  equals its slot, which nobody can overwrite.
- `HeldTaken` and `HeldDistinct`: every message a Puller has returned, or
  holds between its TAIL store and the lock release, is in `taken`, and no
  two of them are the same.
The TAIL store claims the front pending message. By `NoLoss` and
`WrittenInjective` it is not yet in `taken`, so it differs from all the
held ones. A Puller that dies holding a claim loses it, and that only
shrinks the held sets.

**`ReqRepProofs`.**
- `ReqRepTypeCorrect`: `Spec => []TypeOK`.

The invariant `IInv` adds `Log` for each ring: TAIL is 0, HEAD is the
number of commits, and slot k-1 holds the k-th commit. It also adds
`CursorBehind` for each reader: the private cursor is at most the number
of commits (`ReadLog`: a read moves it one slot, still behind HEAD). `Log` holds because neither
endpoint stores a TAIL cell, so the full test `next_head == tail` stops
HEAD at `num_slots - 1` (`FullAtLast`), and no slot is written twice.

- `ReqRepLifetimeCapacity`: `Spec => LifetimeCapacity`. By `Log`, HEAD is
  the number of commits, and the full test fails exactly at
  `HEAD = num_slots - 1` (`DropExactly`). `LifetimeStep` shows that every
  step of `Next` satisfies the action formula under `IInv`.
- `ChannelsAreQueues`: `Spec => ImplementsChannels`. Both channels refine
  `MsgQueue` under the mapping `queue <- Unread(ring, cursor)`. Since TAIL
  is 0, the cursor is at most HEAD (`CursorBehind` and `Log`), and the unread
  slots are `cursor .. HEAD-1` with no wrap (`UnreadLog`, which uses
  `SlotMod`).
  - `WriteUnread`: an accepted write appends to the queue, with the queue
    below capacity. A dropped write leaves it unchanged.
  - `ReadUnread`: a read at the cursor returns the queue's head and
    advancing the cursor leaves its tail.
  - `InitChannels` and `NextChannels` are the two refinement steps. Each
    action is a `Put`, a `Get`, a `Skip` or a stutter of each queue: a
    read of a falsy payload is the `Skip`, any other read the `Get`.
  - `FunIsSeq` (a function on `1..n` is a sequence) is cited for the
    mapping's type.

**`PubSubProofs`.**
- `PubSubTypeCorrect`: `Spec => []TypeOK`.
- `OnlyNewAfterAttach`: `Spec => []OnlyNewMessages`. A Subscriber returns
  only messages committed after it attached.

The invariant `IInv` adds:
- `SendsAhead` and `WrittenSlot`: the Publisher's counter values.
- `NothingBeforeAttach`: a detached Subscriber has returned nothing.
- `SpanFresh`: every slot in a Subscriber's span holds a message newer
  than its `since`.

A Subscriber's span runs from its cursor up to HEAD. It is every slot
when the Publisher has lapped a Subscriber inside `_read_slot`, because
HEAD is back on the cursor after storing every slot. The span starts
empty on attach, when the cursor is HEAD. A commit adds the slot just
stored (`SpanAfterCommit`), and a read removes the cursor's slot
(`SpanAfterRead`). Slots only ever receive ever larger message
identities, so a fresh slot stays fresh.

**`SegmentProofs`.**
- `SegmentTypeCorrect`: `Spec => []TypeOK`, for every natural `MaxCreates`,
  attacher exits and the two-step header included.

Its invariant adds `StartBounded`: an owner between start and create still
has a free identity, so `CreateShm` picks a segment in `SegIds`. The
Segment safety properties are all violated (see the findings), so no
theorem states them.

**Checked only by TLC.** Two kinds of property stay with TLC:
- Liveness. The installed provers cannot reason about fairness or
  ENABLED. This covers `EveryCommitClaimed`, `BlockedSendProceeds`, and
  the fairness part of `ImplementsQueue`.
- The violation runs' properties. They are false, and TLC shows the
  counterexample.

## Not modelled yet, and the plan

Hazards that no property covers yet:
- **`get_stats` snapshot** (`buffer.py` 274). It loads HEAD and TAIL
  separately. A commit and a claim between the two loads give a pair the
  ring never held; for example, head=0 and tail=1 on 4 slots reads as full.
  Spec §9 calls the header counters statistics only. This has no run of its
  own.
- **`FileLock._fd`** (`sync.py` 89). Two threads sharing one Puller overwrite
  each other's descriptor. Spec §4.5 makes endpoint handles explicitly not
  thread-safe, so the models have one thread per handle.

- **Lapped Subscriber order** (`buffer.py` 205). A Subscriber lapped by
  the Publisher can return messages out of order or twice (spec §5
  documents the lap). `NoTornRead` covers the torn copy; no property is
  stated over the sequence a Subscriber returns.

Planned next:
1. A composition of `Segment` with the ring: an owner restart resets
   HEAD/TAIL under attached readers.

Not modelled at all:
- serialization (a pure codec);
- exception classes;
- the examples, benchmark, setup and tests;
- the platform helpers, `list_segments` and `force_unlink`, which are OS
  queries.
