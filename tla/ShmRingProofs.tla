---------------------------- MODULE ShmRingProofs ---------------------------
(***************************************************************************)
(* Facts about the cursor arithmetic of ShmRing, for every number of      *)
(* slots: the advance (cursor + 1) % num_slots and get_stats's used_slots *)
(* (head - tail) % num_slots, as the ring operations use them.           *)
(***************************************************************************)
EXTENDS ShmRing, TLAPS

LEMMA NextSlotValue ==
  \A i \in Slots : NextSlot(i) = IF i = NumSlots - 1 THEN 0 ELSE i + 1
  BY NumSlotsAssumption DEF NextSlot, Slots

LEMMA NextSlotType == \A i \in Slots : NextSlot(i) \in Slots
  BY NextSlotValue, NumSlotsAssumption DEF Slots

LEMMA NextSlotInjective ==
  \A i, j \in Slots : i # j => NextSlot(i) # NextSlot(j)
  BY NextSlotValue, NumSlotsAssumption DEF Slots

(* A slot index is its own remainder modulo num_slots.                   *)
LEMMA SlotMod == \A x \in Slots : x % NumSlots = x
  BY NumSlotsAssumption DEF Slots

LEMMA UsedValue ==
  ASSUME NEW h \in Slots, NEW t \in Slots
  PROVE  UsedSlots(h, t) = IF t <= h THEN h - t ELSE h + NumSlots - t
  BY NumSlotsAssumption DEF UsedSlots, Slots

(* used_slots is a slot count below num_slots, 0 exactly when the cursors *)
(* meet.                                                                   *)
LEMMA UsedRange ==
  ASSUME NEW h \in Slots, NEW t \in Slots
  PROVE  /\ UsedSlots(h, t) \in 0 .. NumSlots - 1
         /\ UsedSlots(h, t) = 0 <=> h = t
<1>1. UsedSlots(h, t) = IF t <= h THEN h - t ELSE h + NumSlots - t
  BY UsedValue
<1>2. QED
  BY <1>1, NumSlotsAssumption DEF Slots

(* A ring whose cursors differ holds at least one message.                *)
LEMMA UsedPositive ==
  ASSUME NEW h \in Slots, NEW t \in Slots, h # t
  PROVE  UsedSlots(h, t) > 0
  BY UsedRange

(* Two slots at the same distance from a cursor are the same slot.        *)
LEMMA UsedInjective ==
  ASSUME NEW h \in Slots, NEW k \in Slots, NEW t \in Slots,
         UsedSlots(h, t) = UsedSlots(k, t)
  PROVE  h = k
<1>1. /\ UsedSlots(h, t) = IF t <= h THEN h - t ELSE h + NumSlots - t
      /\ UsedSlots(k, t) = IF t <= k THEN k - t ELSE k + NumSlots - t
  BY UsedValue
<1>2. (IF t <= h THEN h - t ELSE h + NumSlots - t)
        = (IF t <= k THEN k - t ELSE k + NumSlots - t)
  BY <1>1
<1>3. QED
  BY <1>2, NumSlotsAssumption DEF Slots

(* Moving the head on by one: the distance from a cursor grows by one,    *)
(* unless the head lands on the cursor.                                   *)
LEMMA UsedHeadStep ==
  ASSUME NEW h \in Slots, NEW t \in Slots
  PROVE  UsedSlots(NextSlot(h), t) =
           IF NextSlot(h) = t THEN 0 ELSE UsedSlots(h, t) + 1
<1>1. /\ NextSlot(h) = (IF h = NumSlots - 1 THEN 0 ELSE h + 1)
      /\ NextSlot(h) \in Slots
  BY NextSlotValue, NextSlotType
<1>2. /\ UsedSlots(h, t) = IF t <= h THEN h - t ELSE h + NumSlots - t
      /\ UsedSlots(NextSlot(h), t) =
           IF t <= NextSlot(h) THEN NextSlot(h) - t ELSE NextSlot(h) + NumSlots - t
  BY <1>1, UsedValue
<1>3. QED
  BY <1>1, <1>2, NumSlotsAssumption DEF Slots

(* Moving a cursor on by one: the distance to every other slot shrinks by *)
(* one, and the slot it leaves is now the farthest.                      *)
LEMMA UsedCursorStep ==
  ASSUME NEW k \in Slots, NEW t \in Slots
  PROVE  UsedSlots(k, NextSlot(t)) =
           IF k = t THEN NumSlots - 1 ELSE UsedSlots(k, t) - 1
<1>1. /\ NextSlot(t) = (IF t = NumSlots - 1 THEN 0 ELSE t + 1)
      /\ NextSlot(t) \in Slots
  BY NextSlotValue, NextSlotType
<1>2. /\ UsedSlots(k, t) = IF t <= k THEN k - t ELSE k + NumSlots - t
      /\ UsedSlots(k, NextSlot(t)) =
           IF NextSlot(t) <= k THEN k - NextSlot(t) ELSE k + NumSlots - NextSlot(t)
  BY <1>1, UsedValue
<1>3. QED
  BY <1>1, <1>2, NumSlotsAssumption DEF Slots

=============================================================================
