\* Can a Subscriber return a slot the Publisher is rewriting?
CONSTANTS
  NumSlots = 3
  MaxMsgs = 6
  s1 = s1
  s2 = s2
  Subs <- MCSubs
SYMMETRY MCSymmetry
SPECIFICATION Spec
INVARIANT NoTornRead
CHECK_DEADLOCK FALSE
