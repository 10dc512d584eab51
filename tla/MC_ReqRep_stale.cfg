\* Does request() always return the reply to the request it sent?  Every
\* request and reply is truthy here.
CONSTANTS
  NumSlots = 3
  MaxMsgs = 5
  FalsyRequests = {}
  FalsyReplies = {}
SPECIFICATION Spec
INVARIANT ReplyMatchesRequest
CHECK_DEADLOCK FALSE
