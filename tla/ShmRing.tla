------------------------------ MODULE ShmRing ------------------------------
(***************************************************************************)
(* Definitions shared by every pattern module: the geometry of one ring    *)
(* buffer segment (shm_comm/core.py, shm_comm/buffer.py) and the cursor    *)
(* arithmetic of write_message, read_message_spsc,                         *)
(* read_message_shared_tail and get_stats.                                 *)
(*                                                                         *)
(* A slot's two parts are kept apart: the 4-byte length prefix written by  *)
(* _SIZE_STRUCT.pack_into and the payload bytes copied after it.  The     *)
(* content of either part is abstracted to the identity of the message    *)
(* that last wrote it; 0 stands for the zero bytes of a fresh segment,     *)
(* which read back as an empty payload.                                    *)
(***************************************************************************)
EXTENDS Naturals

CONSTANTS
  NumSlots,   \* num_slots of create_segment (header cell NUM_SLOTS)
  MaxMsgs     \* bound on the number of send calls a run makes

\* num_slots is used as a modulus by every ring operation: 0 would raise
\* ZeroDivisionError in write_message, so a segment has at least one slot.
ASSUME NumSlotsAssumption == NumSlots \in Nat \ {0}

ASSUME MaxMsgsAssumption == MaxMsgs \in Nat

\* Slot indices 0 .. num_slots - 1 of the data area.
Slots == 0 .. NumSlots - 1

\* Message identities: the k-th send call writes message k.
MsgIds == 1 .. MaxMsgs

\* What a slot part can hold: a message, or the zero bytes of a new segment.
Data == 0 .. MaxMsgs

\* Fault injection: a cursor advance that forgets to wrap around.
NextSlotNoWrap(i) == i + 1

\* (cursor + 1) % num_slots: the advance of head (buffer.py 143, 160), of
\* the shared tail (buffer.py 250) and of a private cursor (buffer.py 209).
NextSlot(i) == (i + 1) % NumSlots

\* The non-overwriting producer's full test: next_head == tail.
IsFull(h, t) == NextSlot(h) = t

\* used_slots of get_stats: (head - tail) % num_slots.  Written with a
\* non-negative left operand, since Naturals has no subtraction below 0.
UsedSlots(h, t) == (h + NumSlots - t) % NumSlots

\* A freshly created segment: every slot part reads as zero bytes.
ZeroSlots == [s \in Slots |-> 0]

=============================================================================
