------------------------------ MODULE MsgQueue ------------------------------
(***************************************************************************)
(* What a non-overwriting ring promises its readers (spec 3, 8): a        *)
(* bounded FIFO queue of messages.  A writer appends a message when fewer *)
(* than Capacity are queued; a reader takes the oldest one, and every     *)
(* message taken is recorded in `delivered`, except the Ignored ones,     *)
(* which the reader takes and its caller never sees.  A queued message is *)
(* eventually taken.                                                       *)
(***************************************************************************)
EXTENDS Naturals, Sequences

CONSTANTS
  Values,     \* the messages
  Capacity,   \* how many messages fit at once
  Ignored     \* messages a read takes off the queue without delivering them

VARIABLES
  queue,      \* the messages written and not yet taken, oldest first
  delivered   \* the messages taken, in the order they were taken

qvars == <<queue, delivered>>

QInit == queue = << >> /\ delivered = << >>

(* A write with room: the message joins the end of the queue.             *)
Put(m) ==
  /\ Len(queue) < Capacity
  /\ queue' = Append(queue, m)
  /\ UNCHANGED delivered

(* A read: the oldest message leaves the queue and is delivered.          *)
Get ==
  /\ queue # << >>
  /\ Head(queue) \notin Ignored
  /\ delivered' = Append(delivered, Head(queue))
  /\ queue' = Tail(queue)

(* A read of an ignored message: it leaves the queue, and nothing is      *)
(* delivered.                                                              *)
Skip ==
  /\ queue # << >>
  /\ Head(queue) \in Ignored
  /\ queue' = Tail(queue)
  /\ UNCHANGED delivered

QNext == (\E m \in Values : Put(m)) \/ Get \/ Skip

SafetySpec == QInit /\ [][QNext]_qvars

Spec == SafetySpec /\ WF_qvars(Get) /\ WF_qvars(Skip)

=============================================================================
