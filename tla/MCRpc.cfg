SPECIFICATION Spec
CONSTANTS
  MaxValue = 7
  Kinds = {"unary", "server_streaming", "client_streaming", "bidi"}
  NumRequests <- MCNumRequests
  NumResponses <- MCNumResponses
  Demands <- MCDemands
  Stoppable = {"unary", "server_streaming", "client_streaming"}
INVARIANTS
  StreamsAreFaithful
  CallsKeepTheirPlace
PROPERTIES
  EveryCallEnds
  CallsAreFreed
CHECK_DEADLOCK FALSE
