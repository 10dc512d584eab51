\* Segment life cycle: three create_segment calls, so the owner can crash
\* in every window and be restarted twice, while two endpoints attach.
CONSTANTS
  MaxCreates = 3
  a1 = a1
  a2 = a2
  Attachers <- MCAttachers
SYMMETRY MCSymmetry
SPECIFICATION Spec
INVARIANT OwnerKeepsName
CHECK_DEADLOCK FALSE
