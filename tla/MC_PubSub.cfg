\* Pub/sub with a 3-slot ring and 6 sends: the Publisher laps the ring
\* twice, so slow Subscribers are overrun; two Subscribers attach at any
\* time.
CONSTANTS
  NumSlots = 3
  MaxMsgs = 6
  s1 = s1
  s2 = s2
  Subs <- MCSubs
SYMMETRY MCSymmetry
SPECIFICATION Spec
INVARIANT TypeOK
INVARIANT OnlyNewMessages
\* After the last send, Subscribers that have caught up poll an empty ring
\* forever (each poll returns None and changes nothing): the run ends there.
CHECK_DEADLOCK FALSE
