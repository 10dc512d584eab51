\* What does a Subscriber attached at HEAD = 0 find after a burst of
\* 2 * NumSlots messages?
CONSTANTS
  NumSlots = 3
  MaxMsgs = 6
  s1 = s1
  s2 = s2
  Subs <- MCSubs
SYMMETRY MCSymmetry
SPECIFICATION Spec
INVARIANT BurstLeavesLastMessages
CHECK_DEADLOCK FALSE
