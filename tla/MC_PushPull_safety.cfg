\* Safety of push/pull: 3 slots (capacity 2) and 5 sends, so the ring fills,
\* the Pusher drops, waits or times out, and head and tail both wrap.
CONSTANTS
  NumSlots = 3
  MaxMsgs = 5
  MaxCrashes = 2
  Falsy = {}
  p1 = p1
  p2 = p2
  NoHolder = NoHolder
  Pullers <- MCPullers
SYMMETRY MCSymmetry
SPECIFICATION Spec
INVARIANT TypeOK
INVARIANT NoLoss
INVARIANT ExactlyOnce
INVARIANT NoTornRead
INVARIANT NoSlotRace
INVARIANT CountsCommits
PROPERTY TailClaimsCommitted
