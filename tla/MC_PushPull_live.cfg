\* Liveness of push/pull under weak fairness of the Pusher inside
\* write_message and of every Puller's polling loop; no symmetry.
CONSTANTS
  NumSlots = 3
  MaxMsgs = 4
  MaxCrashes = 1
  Falsy = {}
  p1 = p1
  p2 = p2
  NoHolder = NoHolder
  Pullers <- MCPullers
SPECIFICATION Spec
PROPERTY EveryCommitClaimed
PROPERTY BlockedSendProceeds
PROPERTY ImplementsQueue
\* Deadlock freedom is checked by the safety run (MC_PushPull_safety.cfg);
\* here a stuck state counts as stuttering, so it shows up as a liveness failure.
CHECK_DEADLOCK FALSE
