------------------------------ MODULE ReqRep ------------------------------
(***************************************************************************)
(* Request/reply (shm_comm/patterns/reqrep.py): a Replier owns two rings,  *)
(* the request ring (Requester writes, Replier reads) and the reply ring   *)
(* (Replier writes, Requester reads).  Both sides write with               *)
(* write_message(overwrite=False, block=False) and read with               *)
(* read_message_spsc through a private cursor (_req_tail, _rep_tail), so   *)
(* no one ever stores the TAIL cell of either ring.  Both recv calls go   *)
(* through poll_until, which takes a message that deserializes to None   *)
(* or False for "nothing yet": the cursor has moved past it, and recv    *)
(* polls on.                                                               *)
(*                                                                         *)
(* Each write_message and each read_message_spsc call is one step.  The    *)
(* slot copy and the HEAD commit of one write need not be split here: the  *)
(* TAIL cell stays 0, so HEAD never wraps and a reader's cursor, which     *)
(* stays strictly behind HEAD, never meets the slot being written (the     *)
(* split is modelled, and this ownership proved, in PushPull).             *)
(***************************************************************************)
EXTENDS ShmRing, SequencesExt

CONSTANTS
  FalsyRequests,  \* request() calls whose request deserializes to None or False
  FalsyReplies    \* requests whose handler's reply deserializes to None or False

ASSUME FalsyAssumption ==
  FalsyRequests \subseteq MsgIds /\ FalsyReplies \subseteq MsgIds

VARIABLES
  req,      \* the request ring: header cells and slots
  rep,      \* the reply ring
  stail,    \* Replier._req_tail, its private cursor on the request ring
  spc,      \* where the Replier's serve loop is: "recv" or "reply"
  sreq,     \* the request the Replier is answering
  ctail,    \* Requester._rep_tail, its private cursor on the reply ring
  cpc,      \* where the Requester is: "idle" or "wait" inside request()
  nreq,     \* number of request() calls so far (= id of the current one)
  served,   \* requests Replier.recv returned, in order (history)
  answers,  \* <<request, reply>> pairs request() returned (history)
  reqSent,  \* requests whose HEAD commit happened, in order (history)
  repSent   \* replies whose HEAD commit happened, in order (history)

vars == <<req, rep, stail, spc, sreq, ctail, cpc, nreq, served, answers,
          reqSent, repSent>>

\* A ring's shared state: HEAD, TAIL, MSG_COUNT, DROP_COUNT and the payload
\* of every slot (message identities; the reply to request k is k).
Ring == [head : Slots, tail : Slots, msgCount : Nat, dropCount : Nat,
         slots : [Slots -> Data]]

\* The ring create_segment returns: _init_header zeroes every cell and the
\* new segment's slots read as zero bytes.
NewRing == [head |-> 0, tail |-> 0, msgCount |-> 0, dropCount |-> 0,
            slots |-> ZeroSlots]

\* write_message(overwrite=False, block=False) finds room: copy the payload
\* into slot[head], commit HEAD = next_head, MSG_COUNT += 1, return True.
Committed(r, m) ==
  [r EXCEPT !.slots[r.head] = m, !.head = NextSlot(r.head),
            !.msgCount = @ + 1]

\* ... or finds next_head == tail: DROP_COUNT += 1, return False.
Dropped(r) == [r EXCEPT !.dropCount = @ + 1]

\* Fault injection: the same call made with overwrite=True, which skips
\* the full test.
WriteMessageOverwrite(r, m) == Committed(r, m)

\* The whole write_message call, non-blocking and non-overwriting.
WriteMessage(r, m) == IF IsFull(r.head, r.tail) THEN Dropped(r) ELSE Committed(r, m)

\* Whether that call returned True.
Accepted(r) == ~IsFull(r.head, r.tail)

\* read_message_spsc: empty when local_tail == HEAD.
HasMessage(r, cursor) == cursor # r.head

\* ... otherwise the payload of slot[local_tail] and the new cursor
\* (local_tail + 1) % num_slots, which the endpoint stores.
Advance(cursor) == NextSlot(cursor)

-----------------------------------------------------------------------------
Init ==
  /\ req = NewRing /\ rep = NewRing
  /\ stail = 0 /\ spc = "recv" /\ sreq = 0
  /\ ctail = 0 /\ cpc = "idle" /\ nreq = 0
  /\ served = << >> /\ answers = << >>
  /\ reqSent = << >> /\ repSent = << >>

(* Requester.request, first half: self.send(data).  The False returned   *)
(* for a full request ring is ignored; request() goes on to recv.        *)
RequestSend ==
  /\ cpc = "idle"
  /\ nreq < MaxMsgs
  /\ nreq' = nreq + 1
  /\ req' = WriteMessage(req, nreq + 1)
  /\ reqSent' = IF Accepted(req) THEN Append(reqSent, nreq + 1) ELSE reqSent
  /\ cpc' = "wait"
  /\ UNCHANGED <<rep, stail, spc, sreq, ctail, served, answers, repSent>>

(* Requester.request, second half: one poll of _try_recv that finds a     *)
(* reply and stores the advanced _rep_tail.  poll_until returns a truthy  *)
(* reply, and request() returns it as the answer; a None or False reply  *)
(* is dropped and request() polls on.                                    *)
RequestRecv ==
  /\ cpc = "wait"
  /\ HasMessage(rep, ctail)
  /\ ctail' = Advance(ctail)
  /\ \/ /\ rep.slots[ctail] \notin FalsyReplies
        /\ answers' = Append(answers, <<nreq, rep.slots[ctail]>>)
        /\ cpc' = "idle"
     \/ /\ rep.slots[ctail] \in FalsyReplies
        /\ UNCHANGED <<answers, cpc>>
  /\ UNCHANGED <<req, rep, stail, spc, sreq, nreq, served, reqSent, repSent>>

(* poll_until's deadline passes with the reply ring empty: request()     *)
(* raises SHMTimeoutError and the caller may issue the next request.     *)
RequestTimeout ==
  /\ cpc = "wait"
  /\ cpc' = "idle"
  /\ UNCHANGED <<req, rep, stail, spc, sreq, ctail, nreq, served, answers,
                 reqSent, repSent>>

\* Fault injection: a recv that returns whatever _try_recv read, None and
\* False included.
ServeRecvUnfiltered ==
  /\ spc = "recv"
  /\ HasMessage(req, stail)
  /\ stail' = Advance(stail)
  /\ sreq' = req.slots[stail]
  /\ served' = Append(served, req.slots[stail])
  /\ spc' = "reply"
  /\ UNCHANGED <<req, rep, ctail, cpc, nreq, answers, reqSent, repSent>>

(* Replier.recv: a poll of _try_recv that finds a request and stores the *)
(* advanced _req_tail.  poll_until returns a truthy request, which the    *)
(* Replier then answers; a None or False one is dropped unanswered and   *)
(* recv polls on.                                                        *)
ServeRecv ==
  /\ spc = "recv"
  /\ HasMessage(req, stail)
  /\ stail' = Advance(stail)
  /\ \/ /\ req.slots[stail] \notin FalsyRequests
        /\ sreq' = req.slots[stail]
        /\ served' = Append(served, req.slots[stail])
        /\ spc' = "reply"
     \/ /\ req.slots[stail] \in FalsyRequests
        /\ UNCHANGED <<sreq, served, spc>>
  /\ UNCHANGED <<req, rep, ctail, cpc, nreq, answers, reqSent, repSent>>

(* Replier.send(reply): write_message on the reply ring.                 *)
ServeReply ==
  /\ spc = "reply"
  /\ rep' = WriteMessage(rep, sreq)
  /\ repSent' = IF Accepted(rep) THEN Append(repSent, sreq) ELSE repSent
  /\ spc' = "recv"
  /\ UNCHANGED <<req, stail, sreq, ctail, cpc, nreq, served, answers, reqSent>>

Next ==
  \/ RequestSend \/ RequestRecv \/ RequestTimeout
  \/ ServeRecv \/ ServeReply

Spec == Init /\ [][Next]_vars

-----------------------------------------------------------------------------
(***************************************************************************)
(* Properties.                                                             *)
(***************************************************************************)
TypeOK ==
  /\ req \in Ring /\ rep \in Ring
  /\ stail \in Slots /\ ctail \in Slots
  /\ spc \in {"recv", "reply"} /\ sreq \in Data
  /\ cpc \in {"idle", "wait"} /\ nreq \in 0 .. MaxMsgs
  /\ served \in Seq(Data) /\ answers \in Seq(MsgIds \X Data)
  /\ reqSent \in Seq(MsgIds) /\ repSent \in Seq(Data)

(* write_message's docstring returns False "if buffer is full", and a   *)
(* ring is full when its reader has num_slots - 1 unread messages (spec *)
(* 3, 8).  What the code does instead: since no one stores TAIL, each   *)
(* ring accepts exactly its first num_slots - 1 messages over its whole *)
(* life.  A request() call's send is dropped exactly when num_slots - 1 *)
(* requests have been committed before it, and a Replier's send exactly *)
(* when num_slots - 1 replies have, however far the reader has read.    *)
LifetimeCapacity ==
  [][/\ (req'.dropCount > req.dropCount) <=>
          (nreq' # nreq /\ Len(reqSent) = NumSlots - 1)
     /\ (rep'.dropCount > rep.dropCount) <=>
          (spc = "reply" /\ spc' = "recv" /\ Len(repSent) = NumSlots - 1)]_vars

(* Requester.recv's docstring: "Wait for the reply to the last request":  *)
(* the answer request() returns is the reply to the request it sent.     *)
ReplyMatchesRequest ==
  \A i \in 1 .. Len(answers) : answers[i][2] = answers[i][1]

-----------------------------------------------------------------------------
(* Each ring with its private-cursor reader as the bounded FIFO queue it  *)
(* promises to be (MsgQueue): the queue is the slots from the reader's    *)
(* cursor up to HEAD, the delivered messages what recv returned; the     *)
(* None/False messages poll_until drops are the Ignored ones.            *)
Unread(r, cursor) ==
  [i \in 1 .. UsedSlots(r.head, cursor) |-> r.slots[(cursor + i - 1) % NumSlots]]

RequestQueue == INSTANCE MsgQueue
                WITH Values <- Data, Capacity <- NumSlots - 1,
                     Ignored <- FalsyRequests,
                     queue <- Unread(req, stail), delivered <- served

ReplyQueue == INSTANCE MsgQueue
              WITH Values <- Data, Capacity <- NumSlots - 1,
                   Ignored <- FalsyReplies,
                   queue <- Unread(rep, ctail),
                   delivered <- [i \in 1 .. Len(answers) |-> answers[i][2]]

(* Requester.send with Replier.recv, and Replier.send with request()'s    *)
(* recv, each implement a FIFO queue of capacity num_slots - 1: a send   *)
(* that returns True queues its message, Replier.recv and request()      *)
(* return the queued messages once each and in order, skipping exactly   *)
(* the None/False ones, and a dropped send or a timeout changes neither  *)
(* queue.                                                                 *)
ImplementsChannels == RequestQueue!SafetySpec /\ ReplyQueue!SafetySpec


=============================================================================
