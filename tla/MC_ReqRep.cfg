\* Request/reply with 4-slot rings and 5 request() calls: more requests
\* than a ring's lifetime capacity, with timeouts, late replies, a None
\* request (2) that the Replier drops unanswered and a None reply (to
\* request 3) that request() drops before timing out.
CONSTANTS
  NumSlots = 4
  MaxMsgs = 5
  FalsyRequests = {2}
  FalsyReplies = {3}
SPECIFICATION Spec
INVARIANT TypeOK
PROPERTY LifetimeCapacity
PROPERTY ImplementsChannels
\* Once the Requester has made its MaxMsgs calls, the Replier's recv polls
\* an empty ring forever: the run ends there, which is not a deadlock.
CHECK_DEADLOCK FALSE
