\* A Pusher sends a message whose payload deserializes to None or False
\* (message 1); no Puller dies, so a message can only go missing in recv.
CONSTANTS
  NumSlots = 3
  MaxMsgs = 2
  MaxCrashes = 0
  Falsy = {1}
  p1 = p1
  p2 = p2
  NoHolder = NoHolder
  Pullers <- MCPullers
SYMMETRY MCSymmetry
SPECIFICATION Spec
INVARIANT ClaimsReturned
